----------------------------- MODULE IndexerProofs -----------------------------
(* Proofs about the sync pipeline, for every block tree, every number of fetchers *)
(* and every number of restarts.  First the blocks and coins in storage; then,    *)
(* from the same invariant, the heights that are fetched, the blocks that are     *)
(* taken for orphans and the wakeups of waiting goroutines; then what a chain     *)
(* without forks allows in addition; and last the pipeline and the pruner         *)
(* together: no fetch meets a pruned block.                                       *)
EXTENDS PrunedIndexer, FiniteSetTheorems, TLAPS

--------------------------------------------------------------------------------
(* Facts about the block tree                                                     *)

(* Only the genesis block has height 0: what BlockAdded stores first is genesis.  *)
LEMMA OnlyGenesisAtZero ==
    ASSUME NEW b \in Blocks, Height[b] = 0
    PROVE  b = Genesis
  BY TreeShape

(* The unspent coins of the genesis block alone.                                  *)
LEMMA UtxoGenesis == Utxo(Genesis) = Creates[Genesis] \ Spends[Genesis]
  BY TreeShape, BranchShape, CoinShape DEF Utxo

(* Whatever a block spends was created on its branch.                             *)
LEMMA SpentWasCreated ==
    ASSUME NEW b \in Blocks, NEW c \in Spends[b]
    PROVE  \E a \in Branch[b] : c \in Creates[a]
  <1>1. CASE b = Genesis
    BY <1>1, BranchShape, NoDoubleSpend
  <1>2. CASE b # Genesis /\ c \in Creates[b]
    BY <1>2, BranchShape
  <1>3. CASE b # Genesis /\ c \notin Creates[b]
    <2>1. c \in Utxo(Parent[b])
      BY <1>3, NoDoubleSpend DEF Needs
    <2>2. QED
      BY <1>3, <2>1, BranchShape DEF Utxo
  <1>4. QED
    BY <1>1, <1>2, <1>3

(* Coins a block creates are new: no ancestor created or spent them.              *)
LEMMA CreatedIsNew ==
    ASSUME NEW b \in Blocks \ {Genesis}, NEW a \in Branch[Parent[b]]
    PROVE  /\ Creates[a] \cap Creates[b] = {}
           /\ Spends[a] \cap Creates[b] = {}
  <1>1. Parent[b] \in Blocks /\ a \in Blocks /\ Branch[a] \subseteq Branch[Parent[b]]
    BY TreeShape, BranchShape
  <1>2. \A d \in Branch[Parent[b]] : d \in Branch[b] /\ d # b
    <2>1. ASSUME NEW d \in Branch[Parent[b]] PROVE d \in Branch[b] /\ d # b
      <3>1. d \in Branch[b]
        BY BranchShape
      <3>2. Height[d] <= Height[Parent[b]]
        BY <1>1, BranchShape, TreeShape
      <3>3. Height[Parent[b]] < Height[b]
        BY <1>1, TreeShape
      <3>4. d \in Blocks
        BY <1>1, BranchShape
      <3>5. QED
        BY <3>1, <3>2, <3>3, <3>4, <1>1, TreeShape
    <2>2. QED
      BY <2>1
  <1>3. \A d \in Branch[Parent[b]] : Creates[d] \cap Creates[b] = {}
    BY <1>2, CoinShape
  <1>4. ASSUME NEW c \in Spends[a], c \in Creates[b] PROVE FALSE
    <2>1. PICK d \in Branch[a] : c \in Creates[d]
      BY <1>1, SpentWasCreated
    <2>2. QED
      BY <2>1, <1>1, <1>3, <1>4
  <1>5. QED
    BY <1>3, <1>4

(* Adding a block to storage moves it from one set of unspent coins to the next.  *)
LEMMA UtxoAfterAdd ==
    ASSUME NEW b \in Blocks \ {Genesis}
    PROVE  Utxo(b) = (Utxo(Parent[b]) \cup Creates[b]) \ Spends[b]
  <1>1. Branch[b] = Branch[Parent[b]] \cup {b}
    BY BranchShape
  <1>2. Creates[b] \subseteq Coins
    BY CoinShape
  <1>3. \A c \in Creates[b] : \A a \in Branch[Parent[b]] : c \notin Spends[a]
    BY CreatedIsNew
  <1>4. QED
    BY <1>1, <1>2, <1>3 DEF Utxo

(* Removing it moves storage back: the coins it spent were unspent before it.     *)
LEMMA UtxoAfterRemove ==
    ASSUME NEW b \in Blocks \ {Genesis}
    PROVE  Utxo(Parent[b]) = (Utxo(b) \cup Spends[b]) \ Creates[b]
  <1>1. Spends[b] \ Creates[b] \subseteq Utxo(Parent[b])
    BY NoDoubleSpend DEF Needs
  <1>2. Utxo(Parent[b]) \cap Creates[b] = {}
    BY CreatedIsNew DEF Utxo
  <1>3. QED
    BY <1>1, <1>2, UtxoAfterAdd

--------------------------------------------------------------------------------
(* Steps that do not touch the part of the state an invariant is about            *)

(* Storage stays correct as long as head and coins do not change.                 *)
LEMMA StorageFrame ==
    ASSUME StorageIsUtxo, UNCHANGED store
    PROVE  StorageIsUtxo'
  BY DEF StorageIsUtxo, store, Utxo

(* The counts stay exact while the table and the waits do not change.             *)
LEMMA ListenersFrame ==
    ASSUME ListenersExact, UNCHANGED <<waiter, listening>>
    PROVE  ListenersExact'
  BY DEF ListenersExact, Waits

--------------------------------------------------------------------------------
(* What the critical sections of the wait table do                                *)

(* Join keeps a table a table and makes sure that the entry exists.               *)
LEMMA JoinDomain ==
    ASSUME NEW table, IsTable(table, Txs), NEW t \in Txs, NEW h \in Nat,
           NEW j, j = Join(table, t, h)
    PROVE  DOMAIN j = DOMAIN table \cup {t} /\ IsTable(j, Txs)
  <1>1. CASE t \in DOMAIN table
    <2>1. PICK n \in Nat : n = table[t].listeners + 1
      BY <1>1 DEF Entry, IsTable
    <2>2. PICK k \in Nat : k = IF table[t].earliest > h THEN h ELSE table[t].earliest
      BY <1>1 DEF Entry, IsTable
    <2>3. PICK r \in Entry : r = table[t]
      BY <1>1 DEF IsTable
    <2>4. PICK e : e = [r EXCEPT !.listeners = n, !.earliest = k]
      OBVIOUS
    <2>5. j = Set(table, t, e)
      BY <1>1, <2>1, <2>2, <2>3, <2>4 DEF Join
    <2>6. e \in Entry
      BY <2>4 DEF Entry
    <2>7. QED
      BY <1>1, <2>5, <2>6 DEF Set, IsTable
  <1>2. CASE t \notin DOMAIN table
    BY <1>2 DEF Join, Set, Entry, IsTable
  <1>3. QED
    BY <1>1, <1>2

(* Join leaves the other entries alone.                                           *)
LEMMA JoinOthers ==
    ASSUME NEW table, NEW t, NEW h, NEW j, j = Join(table, t, h)
    PROVE  \A s \in DOMAIN table \ {t} : j[s] = table[s]
  BY DEF Join, Set

(* Join counts one more listener.                                                 *)
LEMMA JoinCount ==
    ASSUME NEW table, IsTable(table, Txs), NEW t \in Txs, NEW h \in Nat,
           NEW j, j = Join(table, t, h)
    PROVE  j[t].listeners = IF t \in DOMAIN table THEN table[t].listeners + 1 ELSE 1
  BY DEF Join, Set, Entry, IsTable

(* Leave keeps a table a table and deletes the entry of the last listener.        *)
LEMMA LeaveDomain ==
    ASSUME NEW table, IsTable(table, Txs), NEW t \in DOMAIN table,
           table[t].listeners \in Nat \ {0}, NEW l, l = Leave(table, t)
    PROVE  /\ DOMAIN l = IF table[t].listeners = 1 THEN DOMAIN table \ {t}
                         ELSE DOMAIN table
           /\ IsTable(l, Txs)
  <1>1. CASE table[t].listeners = 1
    BY <1>1 DEF Leave, Delete, IsTable
  <1>2. CASE table[t].listeners # 1
    <2>1. PICK n \in Nat : n = table[t].listeners - 1
      OBVIOUS
    <2>2. PICK r \in Entry : r = table[t]
      BY DEF IsTable
    <2>3. PICK e : e = [r EXCEPT !.listeners = n]
      OBVIOUS
    <2>4. l = Set(table, t, e)
      BY <1>2, <2>1, <2>2, <2>3 DEF Leave
    <2>5. e \in Entry
      BY <2>3 DEF Entry
    <2>6. QED
      BY <1>2, <2>4, <2>5 DEF Set, IsTable
  <1>3. QED
    BY <1>1, <1>2

(* Leave leaves the other entries alone.                                          *)
LEMMA LeaveOthers ==
    ASSUME NEW table, NEW t, NEW l, l = Leave(table, t)
    PROVE  \A s \in DOMAIN table \ {t} : l[s] = table[s]
  BY DEF Leave, Set, Delete

(* Leave counts one listener less.                                                *)
LEMMA LeaveCount ==
    ASSUME NEW table, IsTable(table, Txs), NEW t \in DOMAIN table,
           table[t].listeners \in Nat \ {0, 1}, NEW l, l = Leave(table, t)
    PROVE  l[t].listeners = table[t].listeners - 1
  BY DEF Leave, Set, Entry, IsTable

(* Closing and aborting keep every entry and every listener.                      *)
LEMMA CloseFacts ==
    ASSUME NEW table, IsTable(table, Txs),
           NEW txs, NEW h \in Nat
    PROVE  /\ DOMAIN CloseAll(table, txs) = DOMAIN table
           /\ IsTable(CloseAll(table, txs), Txs)
           /\ \A t \in DOMAIN table :
                  CloseAll(table, txs)[t].listeners = table[t].listeners
           /\ DOMAIN AbortNext(table, h) = DOMAIN table
           /\ IsTable(AbortNext(table, h), Txs)
           /\ \A t \in DOMAIN table :
                  AbortNext(table, h)[t].listeners = table[t].listeners
  <1>1. \A t \in DOMAIN table :
            /\ CloseAll(table, txs)[t] \in Entry
            /\ CloseAll(table, txs)[t].listeners = table[t].listeners
    BY DEF CloseAll, Entry, IsTable
  <1>2. \A t \in DOMAIN table :
            /\ AbortNext(table, h)[t] \in Entry
            /\ AbortNext(table, h)[t].listeners = table[t].listeners
    BY DEF AbortNext, Entry, IsTable
  <1>3. QED
    BY <1>1, <1>2 DEF CloseAll, AbortNext, IsTable

(* There are finitely many waits.                                                 *)
LEMMA WaitsFinite ==
    ASSUME NEW t
    PROVE  IsFiniteSet(Waits(t)) /\ Cardinality(Waits(t)) \in Nat
  <1>1. IsFiniteSet(Procs)
    BY IndexerConstants, FS_AddElement DEF Procs
  <1>2. IsFiniteSet(Procs \X Coins)
    BY <1>1, IndexerConstants, FS_Product
  <1>3. Waits(t) \in SUBSET (Procs \X Coins)
    BY DEF Waits
  <1>4. QED
    BY <1>2, <1>3, FS_Subset, FS_CardinalityType

(* A goroutine that starts or stops to listen for c changes the waits for c's     *)
(* transaction by one and no others.                                              *)
LEMMA WaitsAfterJoin ==
    ASSUME NEW p \in Procs, NEW c \in Coins, NEW t \in Txs,
           listening \in [Procs -> SUBSET Coins],
           listening' = [listening EXCEPT ![p] = @ \cup {c}]
    PROVE  Waits(t)' = IF t = TxOf[c] THEN Waits(t) \cup {<<p, c>>} ELSE Waits(t)
  BY DEF Waits

(* A wait that is given up removes one element, and no other wait.                *)
LEMMA WaitsAfterLeave ==
    ASSUME NEW p \in Procs, NEW c \in Coins, NEW t \in Txs,
           listening \in [Procs -> SUBSET Coins],
           listening' = [listening EXCEPT ![p] = @ \ {c}]
    PROVE  Waits(t)' = IF t = TxOf[c] THEN Waits(t) \ {<<p, c>>} ELSE Waits(t)
  BY DEF Waits

--------------------------------------------------------------------------------
(* Every step preserves the invariant: first the steps of Indexer.Block           *)

(* GetRawBlock gives the goroutine a block of the height it was asked for.        *)
LEMMA GetRawBlockInv ==
    ASSUME Inv, NEW p \in Procs, GetRawBlock(p)
    PROVE  Inv'
  <1> USE DEF Inv
  <1>1. PICK b \in Branch[best] :
            /\ Height[b] = index[p]
            /\ block' = [block EXCEPT ![p] = b]
            /\ pending' = [pending EXCEPT ![p] = Needs(b)]
    BY DEF GetRawBlock
  <1>2. b \in Blocks /\ Needs(b) \subseteq Coins
    BY <1>1, BranchShape, CoinShape DEF TypeOK, Needs
  <1>3. TypeOK'
    BY <1>1, <1>2 DEF GetRawBlock, TypeOK, PCs, node, store, shared, syncer
  <1>4. \A q \in Procs : LocalOK(q)'
    BY <1>1, <1>2 DEF GetRawBlock, TypeOK, LocalOK, Looking
  <1>5. SequencerOK'
    BY DEF GetRawBlock, TypeOK, SequencerOK, nextIndex, store, syncer, Procs
  <1>6. StorageIsUtxo' /\ ListenersExact'
    BY StorageFrame, ListenersFrame DEF GetRawBlock, shared
  <1>7. QED
    BY <1>3, <1>4, <1>5, <1>6

(* checkHeaderMatch starts a pass or ends the fetch; nobody listens yet.          *)
LEMMA CheckHeaderMatchInv ==
    ASSUME Inv, NEW p \in Procs, CheckHeaderMatch(p)
    PROVE  Inv'
  <1> USE DEF Inv
  <1>1. TypeOK' /\ \A q \in Procs : LocalOK(q)'
    <2>1. CASE Disconnected(block[p])
      <3>1. TypeOK'
        BY <2>1 DEF CheckHeaderMatch, TypeOK, PCs, node, store, shared, syncer
      <3>2. \A q \in Procs : LocalOK(q)'
        BY <2>1 DEF CheckHeaderMatch, TypeOK, LocalOK, Looking
      <3>3. QED
        BY <3>1, <3>2
    <2>2. CASE ~Disconnected(block[p])
      <3>1. PICK c \in IF pending[p] # {} THEN pending[p] ELSE {NoCoin} :
                /\ cur' = [cur EXCEPT ![p] = c]
                /\ pc' = [pc EXCEPT ![p] = IF pending[p] # {} THEN "find" ELSE "load"]
        BY <2>2 DEF CheckHeaderMatch, ProceedWith
      <3>2. UNCHANGED <<orphan, pending, index, block, remaining, listening, snap>>
        BY <2>2 DEF CheckHeaderMatch
      <3>3. TypeOK'
        BY <3>1, <3>2 DEF CheckHeaderMatch, TypeOK, PCs, node, store, shared, syncer
      <3>4. \A q \in Procs : LocalOK(q)'
        BY <3>1, <3>2 DEF CheckHeaderMatch, TypeOK, LocalOK, Looking
      <3>5. QED
        BY <3>3, <3>4
    <2>3. QED
      BY <2>1, <2>2
  <1>2. SequencerOK'
    BY DEF CheckHeaderMatch, ProceedWith, TypeOK, SequencerOK, nextIndex, store,
           syncer, Procs
  <1>3. StorageIsUtxo' /\ ListenersExact'
    BY StorageFrame, ListenersFrame DEF CheckHeaderMatch, shared
  <1>4. QED
    BY <1>1, <1>2, <1>3

(* Reading seen changes only what the goroutine remembers.                        *)
LEMMA ReadSeenInv ==
    ASSUME Inv, NEW p \in Procs, ReadSeen(p)
    PROVE  Inv'
  <1> USE DEF Inv
  <1>1. TypeOK'
    BY DEF ReadSeen, TypeOK, PCs, node, store, lookup, syncer
  <1>2. \A q \in Procs : LocalOK(q)'
    BY DEF ReadSeen, TypeOK, LocalOK, Looking, lookup
  <1>3. SequencerOK'
    BY DEF ReadSeen, TypeOK, SequencerOK, nextIndex, store, syncer, Procs
  <1>4. StorageIsUtxo' /\ ListenersExact'
    BY StorageFrame, ListenersFrame DEF ReadSeen, lookup
  <1>5. QED
    BY <1>1, <1>2, <1>3, <1>4

(* A coin that storage has leaves pending and is not waited for.                  *)
LEMMA ReadStorageInv ==
    ASSUME Inv, NEW p \in Procs, ReadStorage(p)
    PROVE  Inv'
  <1> USE DEF Inv
  <1>1. TypeOK'
    BY DEF ReadStorage, Found, ProceedWith, TypeOK, PCs, node, store, shared,
           lookup, syncer
  <1>2. \A q \in Procs : LocalOK(q)'
    BY DEF ReadStorage, Found, ProceedWith, TypeOK, LocalOK, Looking, lookup
  <1>3. SequencerOK'
    BY DEF ReadStorage, Found, ProceedWith, TypeOK, SequencerOK, nextIndex, store,
           syncer, Procs
  <1>4. StorageIsUtxo' /\ ListenersExact'
    BY StorageFrame, ListenersFrame DEF ReadStorage, Found, shared, lookup
  <1>5. QED
    BY <1>1, <1>2, <1>3, <1>4

(* A coin that coinCache has leaves pending and is not waited for.                *)
LEMMA ReadCacheInv ==
    ASSUME Inv, NEW p \in Procs, ReadCache(p)
    PROVE  Inv'
  <1> USE DEF Inv
  <1>1. TypeOK'
    BY DEF ReadCache, Found, ProceedWith, TypeOK, PCs, node, store, shared,
           lookup, syncer
  <1>2. \A q \in Procs : LocalOK(q)'
    BY DEF ReadCache, Found, ProceedWith, TypeOK, LocalOK, Looking, lookup
  <1>3. SequencerOK'
    BY DEF ReadCache, Found, ProceedWith, TypeOK, SequencerOK, nextIndex, store,
           syncer, Procs
  <1>4. StorageIsUtxo' /\ ListenersExact'
    BY StorageFrame, ListenersFrame DEF ReadCache, Found, shared, lookup
  <1>5. QED
    BY <1>1, <1>2, <1>3, <1>4

(* A new listener: its entry counts one more wait, whether or not it was there.   *)
LEMMA RegisterInv ==
    ASSUME Inv, NEW p \in Procs, Register(p)
    PROVE  Inv'
  <1> USE DEF Inv
  <1>1. /\ cur[p] \in pending[p] /\ cur[p] \in Coins /\ TxOf[cur[p]] \in Txs
        /\ block[p] \in Blocks /\ Height[block[p]] \in Nat
        /\ remaining[p] = listening[p] /\ cur[p] \notin listening[p]
    BY CoinShape, TreeShape, IndexerConstants DEF Register, TypeOK, LocalOK, Looking
  <1>2. CASE ~Current(p)
    <2>1. UNCHANGED <<waiter, pending, remaining, listening, cur>>
      BY <1>2 DEF Register
    <2>2. pc' = [pc EXCEPT ![p] = "find"]
      BY <1>2 DEF Register
    <2>3. TypeOK'
      BY <2>1, <2>2 DEF Register, TypeOK, PCs, node, store, syncer
    <2>4. \A q \in Procs : LocalOK(q)'
      BY <2>1, <2>2, <1>1 DEF Register, TypeOK, LocalOK, Looking
    <2>5. SequencerOK'
      BY <2>2 DEF Register, TypeOK, SequencerOK, nextIndex, store, syncer, Procs
    <2>6. StorageIsUtxo' /\ ListenersExact'
      BY <2>1, StorageFrame, ListenersFrame DEF Register
    <2>7. QED
      BY <2>3, <2>4, <2>5, <2>6
  <1>3. CASE Current(p)
    <2> PICK c \in Coins : c = cur[p]
      BY <1>1
    <2> PICK t \in Txs : t = TxOf[c]
      BY <1>1
    <2> DEFINE todo == pending[p] \ {c}
    <2>1. /\ waiter' = Join(waiter, t, Height[block[p]])
          /\ pending' = [pending EXCEPT ![p] = todo]
          /\ remaining' = [remaining EXCEPT ![p] = @ \cup {c}]
          /\ listening' = [listening EXCEPT ![p] = @ \cup {c}]
      BY <1>3 DEF Register
    <2>0. /\ listening \in [Procs -> SUBSET Coins]
          /\ listening' = [listening EXCEPT ![p] = @ \cup {c}]
      BY <2>1 DEF TypeOK
    <2>2. PICK d \in IF todo # {} THEN todo ELSE listening[p] \cup {c} :
              /\ cur' = [cur EXCEPT ![p] = d]
              /\ pc' = [pc EXCEPT ![p] = IF todo # {} THEN "find" ELSE "await"]
      BY <1>3 DEF Register, ProceedWith
    <2>3. /\ DOMAIN waiter' = DOMAIN waiter \cup {t}
          /\ IsTable(waiter', Txs)
          /\ \A s \in DOMAIN waiter \ {t} : waiter'[s] = waiter[s]
          /\ waiter'[t].listeners = IF t \in DOMAIN waiter
                                    THEN waiter[t].listeners + 1 ELSE 1
      <3>1. IsTable(waiter, Txs)
        BY DEF TypeOK
      <3>2. PICK h \in Nat : h = Height[block[p]]
        BY <1>1
      <3>3. waiter' = Join(waiter, t, h)
        BY <2>1, <3>2
      <3>4. DOMAIN waiter' = DOMAIN waiter \cup {t} /\ IsTable(waiter', Txs)
        BY <3>1, <3>3, JoinDomain
      <3>5. \A s \in DOMAIN waiter \ {t} : waiter'[s] = waiter[s]
        BY <3>3, JoinOthers
      <3>6. waiter'[t].listeners = IF t \in DOMAIN waiter
                                   THEN waiter[t].listeners + 1 ELSE 1
        BY <3>1, <3>3, JoinCount
      <3>7. QED
        BY <3>4, <3>5, <3>6
    <2>4. TypeOK'
      BY <1>1, <2>1, <2>2, <2>3 DEF Register, TypeOK, PCs, node, store, syncer
    <2>5. \A q \in Procs : LocalOK(q)'
      BY <1>1, <2>1, <2>2 DEF Register, TypeOK, LocalOK, Looking
    <2>6. SequencerOK'
      BY <2>2 DEF Register, TypeOK, SequencerOK, nextIndex, store, syncer, Procs
    <2>7. StorageIsUtxo'
      BY StorageFrame DEF Register
    <2>8. ListenersExact'
      <3> SUFFICES ASSUME NEW s \in Txs
                   PROVE  /\ s \in DOMAIN waiter' <=> Waits(s)' # {}
                          /\ s \in DOMAIN waiter' =>
                                 waiter'[s].listeners = Cardinality(Waits(s)')
        BY DEF ListenersExact
      <3>1. CASE s # t
        <4>1. Waits(s)' = Waits(s)
          BY <2>0, <3>1, WaitsAfterJoin
        <4>2. QED
          BY <3>1, <4>1, <2>3 DEF ListenersExact
      <3>2. CASE s = t
        <4>1. Waits(t)' = Waits(t) \cup {<<p, c>>}
          BY <2>0, WaitsAfterJoin
        <4>2. <<p, c>> \notin Waits(t)
          BY <1>1 DEF Waits
        <4>3. Cardinality(Waits(t)') = Cardinality(Waits(t)) + 1
          <5>1. IsFiniteSet(Waits(t))
            BY WaitsFinite
          <5>2. Cardinality(Waits(t) \cup {<<p, c>>}) = Cardinality(Waits(t)) + 1
            BY <4>2, <5>1, FS_AddElement
          <5>3. QED
            BY <4>1, <5>2
        <4>4. t \notin DOMAIN waiter => Cardinality(Waits(t)) = 0
          BY <1>1, FS_EmptySet DEF ListenersExact
        <4>5. t \in DOMAIN waiter => waiter[t].listeners = Cardinality(Waits(t))
          BY <1>1 DEF ListenersExact
        <4>6. t \in DOMAIN waiter' /\ Waits(t)' # {}
          BY <4>1, <2>3
        <4>7. waiter'[t].listeners = Cardinality(Waits(t)')
          BY <4>3, <4>4, <4>5, <2>3
        <4>8. QED
          BY <3>2, <4>6, <4>7
      <3>3. QED
        BY <3>1, <3>2
    <2>9. QED
      BY <2>4, <2>5, <2>6, <2>7, <2>8
  <1>4. QED
    BY <1>2, <1>3

(* A goroutine that waits finds its entry, because the entry counts its wait.     *)
LEMMA AwaitInv ==
    ASSUME Inv, NEW p \in Procs, Await(p)
    PROVE  Inv'
  <1> USE DEF Inv
  <1>1. pc[p] = "await" /\ cur[p] \in listening[p] /\ cur[p] \in Coins
    BY IndexerConstants DEF Await, TypeOK, LocalOK
  <1>2. TxOf[cur[p]] \in Txs /\ <<p, cur[p]>> \in Waits(TxOf[cur[p]])
    BY <1>1, CoinShape DEF Waits
  <1>3. pc' = [pc EXCEPT ![p] = "leave"]
    BY <1>2 DEF Await, ListenersExact
  <1>4. TypeOK'
    BY <1>3 DEF Await, TypeOK, PCs, node, store, shared, lookup, syncer
  <1>5. \A q \in Procs : LocalOK(q)'
    BY <1>1, <1>3 DEF Await, TypeOK, LocalOK, Looking, lookup
  <1>6. SequencerOK'
    BY <1>1, <1>3 DEF Await, TypeOK, SequencerOK, nextIndex, store, syncer, Procs
  <1>7. StorageIsUtxo'
    BY StorageFrame DEF Await
  <1>8. ListenersExact'
    BY ListenersFrame DEF Await, shared, lookup
  <1>9. QED
    BY <1>4, <1>5, <1>6, <1>7, <1>8

(* A listener leaves: its entry is there, because it counted this wait.           *)
LEMMA StopListeningInv ==
    ASSUME Inv, NEW p \in Procs, StopListening(p)
    PROVE  Inv'
  <1> USE DEF Inv
  <1>0. /\ pc[p] = "leave" /\ cur[p] \in listening[p] /\ cur[p] \in Coins
        /\ block[p] \in Blocks /\ Height[block[p]] = index[p]
    BY IndexerConstants DEF StopListening, TypeOK, LocalOK
  <1> PICK c \in Coins : c = cur[p]
    BY <1>0
  <1> PICK t \in Txs : t = TxOf[c]
    BY CoinShape
  <1> DEFINE left == listening[p] \ {c}
             abort == orphan[p] \/ waiter[t].aborted
  <1>1. c \in listening[p] /\ left \subseteq Coins
    BY <1>0 DEF TypeOK
  <1>2. <<p, c>> \in Waits(t)
    BY <1>1 DEF Waits
  <1>3. /\ t \in DOMAIN waiter
        /\ waiter[t].listeners = Cardinality(Waits(t))
        /\ waiter[t].aborted \in BOOLEAN
    BY <1>1, <1>2 DEF ListenersExact, TypeOK, IsTable, Entry
  <1>4. waiter[t].listeners \in Nat \ {0}
    BY <1>2, <1>3, WaitsFinite, FS_EmptySet
  <1>5. /\ waiter' = Leave(waiter, t)
        /\ listening' = [listening EXCEPT ![p] = left]
        /\ orphan' = [orphan EXCEPT ![p] = abort]
        /\ pc' = [pc EXCEPT ![p] = IF left # {} THEN "await"
                                   ELSE IF abort THEN "deliver" ELSE "header"]
        /\ pending' = [pending EXCEPT ![p] =
                          IF left = {} /\ ~abort THEN remaining[p] ELSE {}]
        /\ remaining' = [remaining EXCEPT ![p] = IF left = {} THEN {} ELSE @]
    BY <1>3 DEF StopListening
  <1>6. PICK d \in IF left # {} THEN left ELSE {NoCoin} : cur' = [cur EXCEPT ![p] = d]
    BY DEF StopListening
  <1>7. /\ DOMAIN waiter' = IF waiter[t].listeners = 1 THEN DOMAIN waiter \ {t}
                            ELSE DOMAIN waiter
        /\ IsTable(waiter', Txs)
        /\ \A s \in DOMAIN waiter \ {t} : waiter'[s] = waiter[s]
        /\ t \in DOMAIN waiter' => waiter'[t].listeners = waiter[t].listeners - 1
    <2>1. IsTable(waiter, Txs)
      BY DEF TypeOK
    <2>2. waiter' = Leave(waiter, t)
      BY <1>5
    <2>3. /\ DOMAIN waiter' = IF waiter[t].listeners = 1 THEN DOMAIN waiter \ {t}
                              ELSE DOMAIN waiter
          /\ IsTable(waiter', Txs)
      BY <1>3, <1>4, <2>1, <2>2, LeaveDomain
    <2>4. \A s \in DOMAIN waiter \ {t} : waiter'[s] = waiter[s]
      BY <2>2, LeaveOthers
    <2>5. t \in DOMAIN waiter' => waiter'[t].listeners = waiter[t].listeners - 1
      <3>1. CASE waiter[t].listeners = 1
        BY <2>3, <3>1
      <3>2. CASE waiter[t].listeners # 1
        BY <1>3, <1>4, <2>1, <2>2, <3>2, LeaveCount
      <3>3. QED
        BY <3>1, <3>2
    <2>6. QED
      BY <2>3, <2>4, <2>5
  <1>8. TypeOK'
    BY <1>0, <1>1, <1>3, <1>5, <1>6, <1>7 DEF StopListening, TypeOK, PCs, node, store, syncer
  <1>9. \A q \in Procs : LocalOK(q)'
    BY <1>0, <1>1, <1>5, <1>6 DEF StopListening, TypeOK, LocalOK, Looking
  <1>10. SequencerOK'
    BY <1>0, <1>5 DEF StopListening, TypeOK, SequencerOK, nextIndex, store, syncer, Procs
  <1>11. StorageIsUtxo'
    BY StorageFrame DEF StopListening
  <1>12. ListenersExact'
    <2> SUFFICES ASSUME NEW s \in Txs
                 PROVE  /\ s \in DOMAIN waiter' <=> Waits(s)' # {}
                        /\ s \in DOMAIN waiter' =>
                               waiter'[s].listeners = Cardinality(Waits(s)')
      BY DEF ListenersExact
    <2>0. /\ listening \in [Procs -> SUBSET Coins]
          /\ listening' = [listening EXCEPT ![p] = @ \ {c}]
      BY <1>5 DEF TypeOK
    <2>1. CASE s # t
      <3>1. Waits(s)' = Waits(s)
        BY <2>0, <2>1, WaitsAfterLeave
      <3>2. QED
        BY <2>1, <3>1, <1>7 DEF ListenersExact
    <2>2. CASE s = t
      <3>1. Waits(t)' = Waits(t) \ {<<p, c>>}
        BY <2>0, WaitsAfterLeave
      <3>2. /\ Cardinality(Waits(t)') = Cardinality(Waits(t)) - 1
            /\ IsFiniteSet(Waits(t)')
        BY <3>1, <1>2, WaitsFinite, FS_RemoveElement
      <3>3. Cardinality(Waits(t)') = 0 <=> Waits(t)' = {}
        BY <3>2, FS_EmptySet
      <3>4. QED
        BY <2>2, <3>2, <3>3, <1>3, <1>4, <1>7
    <2>3. QED
      BY <2>1, <2>2
  <1>13. QED
    BY <1>8, <1>9, <1>10, <1>11, <1>12

--------------------------------------------------------------------------------
(* The steps of Indexer.BlockSeen                                                 *)

(* Closing or aborting channels changes no count.                                 *)
LEMMA ListenersKept ==
    ASSUME ListenersExact, UNCHANGED listening, DOMAIN waiter' = DOMAIN waiter,
           \A t \in DOMAIN waiter : waiter'[t].listeners = waiter[t].listeners
    PROVE  ListenersExact'
  BY DEF ListenersExact, Waits

(* BlockSeen loads the cache: storage and waits are untouched.                    *)
LEMMA LoadCacheInv ==
    ASSUME Inv, NEW p \in Procs, LoadCache(p)
    PROVE  Inv'
  <1> USE DEF Inv
  <1>1. block[p] \in Blocks /\ Creates[block[p]] \subseteq Coins
    BY CoinShape DEF LoadCache, LocalOK
  <1>2. TypeOK'
    BY <1>1 DEF LoadCache, TypeOK, PCs, node, store, lookup, syncer
  <1>3. \A q \in Procs : LocalOK(q)'
    BY DEF LoadCache, TypeOK, LocalOK, Looking, lookup
  <1>4. SequencerOK'
    BY DEF LoadCache, TypeOK, SequencerOK, nextIndex, store, syncer, Procs
  <1>5. StorageIsUtxo' /\ ListenersExact'
    BY StorageFrame, ListenersFrame DEF LoadCache, lookup
  <1>6. QED
    BY <1>2, <1>3, <1>4, <1>5

(* BlockSeen counts the block: storage and waits are untouched.                   *)
LEMMA CountSeenInv ==
    ASSUME Inv, NEW p \in Procs, CountSeen(p)
    PROVE  Inv'
  <1> USE DEF Inv
  <1>1. TypeOK'
    BY DEF CountSeen, TypeOK, PCs, node, store, lookup, syncer
  <1>2. \A q \in Procs : LocalOK(q)'
    BY DEF CountSeen, TypeOK, LocalOK, Looking, lookup
  <1>3. SequencerOK'
    BY DEF CountSeen, TypeOK, SequencerOK, nextIndex, store, syncer, Procs
  <1>4. StorageIsUtxo' /\ ListenersExact'
    BY StorageFrame, ListenersFrame DEF CountSeen, lookup
  <1>5. QED
    BY <1>1, <1>2, <1>3, <1>4

(* BlockSeen closes channels, which changes no listener count.                    *)
LEMMA CloseChannelsInv ==
    ASSUME Inv, NEW p \in Procs, CloseChannels(p)
    PROVE  Inv'
  <1> USE DEF Inv
  <1>1. /\ IsTable(waiter', Txs)
        /\ DOMAIN waiter' = DOMAIN waiter
        /\ \A t \in DOMAIN waiter : waiter'[t].listeners = waiter[t].listeners
    BY CloseFacts DEF CloseChannels, TypeOK
  <1>2. TypeOK'
    BY <1>1 DEF CloseChannels, TypeOK, PCs, node, store, lookup, syncer
  <1>3. \A q \in Procs : LocalOK(q)'
    BY DEF CloseChannels, TypeOK, LocalOK, Looking, lookup
  <1>4. SequencerOK'
    BY DEF CloseChannels, TypeOK, SequencerOK, nextIndex, store, syncer, Procs
  <1>5. StorageIsUtxo' /\ ListenersExact'
    BY <1>1, StorageFrame, ListenersKept DEF CloseChannels, lookup
  <1>6. QED
    BY <1>2, <1>3, <1>4, <1>5

--------------------------------------------------------------------------------
(* The steps of the syncer                                                        *)

(* A fetcher that takes a height waits for nothing.                               *)
LEMMA TakeIndexInv ==
    ASSUME Inv, NEW f \in Fetchers, TakeIndex(f)
    PROVE  Inv'
  <1> USE DEF Inv
  <1>1. f \in Procs /\ f # Sequencer
    BY IndexerConstants DEF Procs
  <1>2. TypeOK'
    BY <1>1 DEF TakeIndex, TypeOK, PCs, node, store, shared, lookup
  <1>3. \A q \in Procs : LocalOK(q)'
    BY <1>1 DEF TakeIndex, TypeOK, LocalOK, Looking, lookup
  <1>4. SequencerOK'
    BY <1>1 DEF TakeIndex, TypeOK, SequencerOK, nextIndex, store, Procs
  <1>5. StorageIsUtxo' /\ ListenersExact'
    BY StorageFrame, ListenersFrame DEF TakeIndex, shared, lookup
  <1>6. QED
    BY <1>2, <1>3, <1>4, <1>5

(* A goroutine that hands over its result listens for nothing.                    *)
LEMMA ForgetLocal ==
    ASSUME Inv, NEW p \in Procs, pc[p] = "deliver", Forget(p)
    PROVE  /\ pc' \in [Procs -> PCs]
           /\ index' \in [Procs -> Nat]
           /\ block' \in [Procs -> Blocks \cup {NoBlock}]
           /\ orphan' \in [Procs -> BOOLEAN]
           /\ \A q \in Procs : LocalOK(q)'
  <1> USE DEF Inv
  <1>1. /\ pc' \in [Procs -> PCs]
        /\ index' \in [Procs -> Nat]
        /\ block' \in [Procs -> Blocks \cup {NoBlock}]
        /\ orphan' \in [Procs -> BOOLEAN]
    BY DEF Forget, TypeOK, PCs
  <1>2. \A q \in Procs : LocalOK(q)'
    BY DEF Forget, TypeOK, LocalOK, Looking, lookup
  <1>3. QED
    BY <1>1, <1>2

(* A result is an orphan or a block of the height that was asked for.             *)
LEMMA ResultFacts ==
    ASSUME Inv, NEW p \in Procs, pc[p] = "deliver"
    PROVE  /\ Result(p) \in Results
           /\ Result(p) # OrphanHead => Height[Result(p)] = index[p]
  BY DEF Inv, LocalOK, Result, Results

(* A delivered result is filed under the height of its block.                     *)
LEMMA DeliverInv ==
    ASSUME Inv, NEW f \in Fetchers, Deliver(f)
    PROVE  Inv'
  <1> USE DEF Inv
  <1>1. f \in Procs /\ f # Sequencer /\ pc[f] = "deliver" /\ index[f] \in Nat
    BY IndexerConstants DEF Procs, Deliver, TypeOK
  <1>2. /\ Result(f) \in Results
        /\ Result(f) # OrphanHead => Height[Result(f)] = index[f]
    BY <1>1, ResultFacts
  <1>3. PICK r \in Results : r = Result(f)
    BY <1>2
  <1>4. PICK n \in Nat : n = index[f]
    BY <1>1
  <1>5. fetched' = [h \in DOMAIN fetched \cup {n} |-> IF h = n THEN r ELSE fetched[h]]
    BY <1>3, <1>4 DEF Deliver
  <1>6. DOMAIN fetched' \subseteq Nat /\ fetched' \in [DOMAIN fetched' -> Results]
    BY <1>5 DEF TypeOK
  <1>7. TypeOK'
    <2>1. /\ pc' \in [Procs -> PCs]
          /\ index' \in [Procs -> Nat]
          /\ block' \in [Procs -> Blocks \cup {NoBlock}]
          /\ orphan' \in [Procs -> BOOLEAN]
      BY <1>1, ForgetLocal DEF Deliver
    <2>2. UNCHANGED <<best, head, coins, coinCache, waiter, moved, pending, remaining,
                      listening, cur, snap, endIndex, nextFetch, restarts>>
      BY DEF Deliver, Forget, node, store, shared, lookup
    <2>3. seqPc' \in SeqPCs /\ reorgStart' = -1
      BY DEF Deliver, SeqPCs
    <2>4. QED
      BY <2>1, <2>2, <2>3, <1>6 DEF TypeOK
  <1>8. \A q \in Procs : LocalOK(q)'
    BY <1>1, ForgetLocal DEF Deliver
  <1>9. SequencerOK'
    <2>1. \A h \in DOMAIN fetched' :
              fetched'[h] # OrphanHead => Height[fetched'[h]] = h
      BY <1>2, <1>3, <1>4, <1>5 DEF SequencerOK
    <2>2. pc'[Sequencer] = pc[Sequencer]
      BY <1>1 DEF Deliver, Forget, TypeOK, Procs
    <2>3. QED
      BY <2>1, <2>2 DEF Deliver, SequencerOK, TypeOK, SeqPCs
  <1>10. StorageIsUtxo' /\ ListenersExact'
    BY StorageFrame, ListenersFrame DEF Deliver, Forget, shared, lookup
  <1>11. QED
    BY <1>7, <1>8, <1>9, <1>10

--------------------------------------------------------------------------------
(* The steps of processBlocks                                                     *)

(* The heart of StorageIsUtxo: a result of the next height, added to storage or   *)
(* taken as the reason to remove the head, keeps storage the unspent coins of its *)
(* head.                                                                          *)
LEMMA ProcessBlockFacts ==
    ASSUME Inv, NEW r \in Results, r # OrphanHead => Height[r] = nextIndex,
           ProcessBlock(r)
    PROVE  /\ head' \in Blocks \cup {NoBlock}
           /\ coins' \subseteq Coins
           /\ reorgStart' \in Nat \cup {-1}
           /\ seqPc' = "process" \/ (seqPc' = "clean" /\ head' # NoBlock)
           /\ StorageIsUtxo'
  <1> USE DEF Inv
  <1>1. /\ head # NoBlock => head \in Blocks /\ Height[head] \in Nat
        /\ coins = IF head = NoBlock THEN {} ELSE Utxo(head)
        /\ coins \subseteq Coins
    BY TreeShape DEF TypeOK, StorageIsUtxo
  <1>2. nextIndex \in Nat
    BY <1>1 DEF nextIndex
  <1>3. CASE Extends(r)
    <2>1. r \in Blocks /\ r # NoBlock /\ Height[r] = nextIndex
      BY <1>3, IndexerConstants DEF Extends, Results
    <2>2. /\ head' = r
          /\ coins' = (coins \cup Creates[r]) \ Spends[r]
          /\ seqPc' = "clean" /\ reorgStart' = reorgStart
      BY <1>3 DEF ProcessBlock, AddBlock
    <2>3. coins' = Utxo(r)
      <3>1. CASE head = NoBlock
        <4>1. r = Genesis
          BY <2>1, <3>1, OnlyGenesisAtZero DEF nextIndex
        <4>2. QED
          BY <1>1, <2>2, <3>1, <4>1, UtxoGenesis
      <3>2. CASE head # NoBlock
        <4>1. r \in Blocks \ {Genesis}
          BY <2>1, <3>2, <1>1, TreeShape DEF nextIndex
        <4>2. Parent[r] = head
          BY <1>3, <3>2 DEF Extends
        <4>3. QED
          BY <1>1, <2>2, <3>2, <4>1, <4>2, UtxoAfterAdd
      <3>3. QED
        BY <3>1, <3>2
    <2>4. StorageIsUtxo'
      BY <2>1, <2>2, <2>3 DEF StorageIsUtxo, Utxo
    <2>5. coins' \subseteq Coins
      BY <2>3 DEF Utxo
    <2>6. QED
      BY <2>1, <2>2, <2>4, <2>5 DEF TypeOK
  <1>4. CASE ~Extends(r)
    <2>1. /\ head # NoBlock
          /\ head' = IF head = Genesis THEN NoBlock ELSE Parent[head]
          /\ coins' = (coins \cup Spends[head]) \ Creates[head]
          /\ seqPc' = "process"
          /\ reorgStart' = IF reorgStart = -1 THEN nextIndex ELSE reorgStart
      BY <1>4 DEF ProcessBlock, RemoveBlock
    <2>2. StorageIsUtxo' /\ coins' \subseteq Coins /\ head' \in Blocks \cup {NoBlock}
      <3>1. CASE head = Genesis
        <4>1. Spends[Genesis] \subseteq Creates[Genesis]
          BY NoDoubleSpend
        <4>2. coins' = {} /\ head' = NoBlock
          BY <1>1, <2>1, <3>1, <4>1, UtxoGenesis
        <4>3. QED
          BY <4>2 DEF StorageIsUtxo
      <3>2. CASE head # Genesis
        <4>1. head' = Parent[head] /\ head' \in Blocks /\ head' # NoBlock
          BY <1>1, <2>1, <3>2, TreeShape, IndexerConstants
        <4>2. coins' = Utxo(Parent[head])
          BY <1>1, <2>1, <3>2, UtxoAfterRemove
        <4>3. QED
          BY <4>1, <4>2 DEF StorageIsUtxo, Utxo
      <3>3. QED
        BY <3>1, <3>2
    <2>3. reorgStart' \in Nat \cup {-1}
      BY <1>2, <2>1 DEF TypeOK
    <2>4. QED
      BY <2>1, <2>2, <2>3
  <1>5. QED
    BY <1>3, <1>4

(* A result from the syncer's cache has the height of the next block.             *)
LEMMA ProcessCachedInv ==
    ASSUME Inv, ProcessCached
    PROVE  Inv'
  <1> USE DEF Inv
  <1>1. /\ fetched[nextIndex] \in Results
        /\ fetched[nextIndex] # OrphanHead => Height[fetched[nextIndex]] = nextIndex
    BY DEF ProcessCached, TypeOK, SequencerOK
  <1>2. /\ head' \in Blocks \cup {NoBlock}
        /\ coins' \subseteq Coins
        /\ reorgStart' \in Nat \cup {-1}
        /\ seqPc' = "process" \/ (seqPc' = "clean" /\ head' # NoBlock)
        /\ StorageIsUtxo'
    BY <1>1, ProcessBlockFacts DEF ProcessCached
  <1>3. PICK n : n = nextIndex
    OBVIOUS
  <1>4. fetched' = [h \in DOMAIN fetched \ {n} |-> fetched[h]]
    BY <1>3 DEF ProcessCached
  <1>5. UNCHANGED <<node, shared, local, endIndex, nextFetch, restarts>>
    BY DEF ProcessCached
  <1>6. TypeOK'
    BY <1>2, <1>4, <1>5 DEF TypeOK, SeqPCs, node, shared, local, lookup
  <1>7. \A q \in Procs : LocalOK(q)'
    BY <1>5 DEF LocalOK, Looking, local, lookup
  <1>8. SequencerOK'
    <2>1. pc'[Sequencer] = "idle"
      BY <1>5 DEF ProcessCached, SequencerOK, local
    <2>2. \A h \in DOMAIN fetched' :
              fetched'[h] # OrphanHead => Height[fetched'[h]] = h
      BY <1>4 DEF SequencerOK
    <2>3. QED
      BY <1>2, <2>1, <2>2 DEF SequencerOK
  <1>9. ListenersExact'
    BY <1>5, ListenersFrame DEF shared, local, lookup
  <1>10. QED
    BY <1>2, <1>6, <1>7, <1>8, <1>9

(* So has a block the sequencer fetched itself.                                   *)
LEMMA ProcessRefetchedInv ==
    ASSUME Inv, ProcessRefetched
    PROVE  Inv'
  <1> USE DEF Inv
  <1>1. Sequencer \in Procs /\ pc[Sequencer] = "deliver" /\ Forget(Sequencer)
    BY DEF ProcessRefetched, Procs
  <1>2. /\ Result(Sequencer) \in Results
        /\ Result(Sequencer) # OrphanHead => Height[Result(Sequencer)] = nextIndex
    BY <1>1, ResultFacts DEF ProcessRefetched, SequencerOK
  <1>3. /\ head' \in Blocks \cup {NoBlock}
        /\ coins' \subseteq Coins
        /\ reorgStart' \in Nat \cup {-1}
        /\ seqPc' = "process" \/ (seqPc' = "clean" /\ head' # NoBlock)
        /\ StorageIsUtxo'
    BY <1>2, ProcessBlockFacts DEF ProcessRefetched
  <1>4. /\ pc' \in [Procs -> PCs]
        /\ index' \in [Procs -> Nat]
        /\ block' \in [Procs -> Blocks \cup {NoBlock}]
        /\ orphan' \in [Procs -> BOOLEAN]
        /\ \A q \in Procs : LocalOK(q)'
    BY <1>1, ForgetLocal
  <1>5. UNCHANGED <<node, shared, lookup, endIndex, nextFetch, fetched, restarts>>
    BY DEF ProcessRefetched, Forget
  <1>6. TypeOK'
    BY <1>3, <1>4, <1>5 DEF TypeOK, SeqPCs, node, shared, lookup
  <1>7. SequencerOK'
    <2>1. pc'[Sequencer] = "idle"
      BY <1>1 DEF Forget, TypeOK
    <2>2. QED
      BY <1>3, <1>5, <2>1 DEF SequencerOK
  <1>8. ListenersExact'
    BY <1>5, ListenersFrame DEF shared, lookup
  <1>9. QED
    BY <1>3, <1>4, <1>6, <1>7, <1>8

(* The sequencer starts a fetch of the next height.                               *)
LEMMA RefetchInv ==
    ASSUME Inv, Refetch
    PROVE  Inv'
  <1> USE DEF Inv
  <1>1. nextIndex \in Nat /\ Sequencer \in Procs
    BY TreeShape DEF nextIndex, TypeOK, Procs
  <1>2. TypeOK'
    BY <1>1 DEF Refetch, TypeOK, PCs, SeqPCs, node, store, shared, lookup
  <1>3. \A q \in Procs : LocalOK(q)'
    BY <1>1 DEF Refetch, TypeOK, LocalOK, Looking, SequencerOK, lookup
  <1>4. SequencerOK'
    <2>1. nextIndex' = nextIndex
      BY DEF Refetch, nextIndex, store
    <2>2. QED
      BY <1>1, <2>1 DEF Refetch, TypeOK, SequencerOK
  <1>5. StorageIsUtxo' /\ ListenersExact'
    BY StorageFrame, ListenersFrame DEF Refetch, shared, lookup
  <1>6. QED
    BY <1>2, <1>3, <1>4, <1>5

(* The steps of the syncer and the node that touch one or two variables           *)
LEMMA SyncerInv ==
    ASSUME Inv, NodeAdvance \/ StartRange \/ AtTip \/ WaitForResults \/ CleanCache
    PROVE  Inv'
  <1> USE DEF Inv
  <1>1. UNCHANGED <<store, waiter, moved, local, restarts>>
    BY DEF NodeAdvance, StartRange, AtTip, WaitForResults, CleanCache, vars, store,
           shared
  <1>2. StorageIsUtxo' /\ ListenersExact'
    BY <1>1, StorageFrame, ListenersFrame DEF local, lookup
  <1>3. \A q \in Procs : LocalOK(q)'
    BY <1>1 DEF LocalOK, Looking, local, lookup
  <1>4. nextIndex' = nextIndex /\ nextIndex \in Nat
    BY <1>1, TreeShape DEF nextIndex, store, TypeOK
  <1>5. TypeOK' /\ SequencerOK'
    <2>1. CASE NodeAdvance
      BY <1>1, <1>4, <2>1 DEF NodeAdvance, TypeOK, SequencerOK, store, shared, local,
                              lookup, syncer
    <2>2. CASE StartRange
      <3>1. endIndex' \in Nat /\ nextFetch' \in Nat
        BY <1>4, <2>2, TreeShape DEF StartRange, TypeOK
      <3>2. DOMAIN fetched' = {} /\ fetched' \in [DOMAIN fetched' -> Results]
        BY <2>2 DEF StartRange, EmptyTable
      <3>3. QED
        BY <1>1, <1>4, <2>2, <3>1, <3>2
           DEF StartRange, TypeOK, SequencerOK, node, store, shared, local, lookup
    <2>3. CASE AtTip
      BY <1>1, <1>4, <2>3 DEF AtTip, vars, TypeOK, SequencerOK, node, store, shared,
                              local, lookup, syncer
    <2>4. CASE WaitForResults
      BY <1>1, <1>4, <2>4 DEF WaitForResults, TypeOK, SequencerOK, SeqPCs, node, store,
                              shared, local, lookup
    <2>5. CASE CleanCache
      BY <1>1, <1>4, <2>5 DEF CleanCache, TypeOK, SequencerOK, SeqPCs, node, store,
                              local, lookup
    <2>6. QED
      BY <2>1, <2>2, <2>3, <2>4, <2>5
  <1>6. QED
    BY <1>2, <1>3, <1>5

(* BlockAdded aborts waits, which changes no listener count.                      *)
LEMMA AbortWaitsInv ==
    ASSUME Inv, AbortWaits
    PROVE  Inv'
  <1> USE DEF Inv
  <1>1. Height[head] + 1 \in Nat
    BY TreeShape DEF AbortWaits, SequencerOK, TypeOK
  <1>2. /\ IsTable(waiter', Txs)
        /\ DOMAIN waiter' = DOMAIN waiter
        /\ \A t \in DOMAIN waiter : waiter'[t].listeners = waiter[t].listeners
    BY <1>1, CloseFacts DEF AbortWaits, TypeOK
  <1>3. TypeOK'
    BY <1>2 DEF AbortWaits, TypeOK, SeqPCs, node, store, local, lookup
  <1>4. \A q \in Procs : LocalOK(q)'
    BY DEF AbortWaits, LocalOK, Looking, local, lookup
  <1>5. SequencerOK'
    BY DEF AbortWaits, SequencerOK, nextIndex, store, local, lookup
  <1>6. StorageIsUtxo' /\ ListenersExact'
    BY <1>2, StorageFrame, ListenersKept DEF AbortWaits, local, lookup
  <1>7. QED
    BY <1>3, <1>4, <1>5, <1>6

--------------------------------------------------------------------------------
(* A fresh process                                                                *)

(* Nobody waits in a process that has just started.                               *)
LEMMA NoWaits ==
    ASSUME listening = [p \in Procs |-> {}], waiter = EmptyTable
    PROVE  ListenersExact
  BY DEF ListenersExact, Waits, EmptyTable

(* The invariant holds in a new process with an empty database.                   *)
LEMMA InitInv == Init => Inv
  <1> SUFFICES ASSUME Init PROVE Inv
    OBVIOUS
  <1> USE DEF Init
  <1>1. /\ IsTable(waiter, Txs)
        /\ DOMAIN fetched = {} /\ fetched \in [DOMAIN fetched -> Results]
    BY DEF IsTable, EmptyTable
  <1>2. TypeOK
    BY <1>1, IndexerConstants DEF TypeOK, PCs, SeqPCs
  <1>3. \A p \in Procs : LocalOK(p)
    BY DEF LocalOK, Looking
  <1>4. SequencerOK
    BY <1>1 DEF SequencerOK, Procs
  <1>5. StorageIsUtxo
    BY DEF StorageIsUtxo
  <1>6. ListenersExact
    BY NoWaits
  <1>7. QED
    BY <1>2, <1>3, <1>4, <1>5, <1>6 DEF Inv

(* A restart keeps storage and forgets every wait together with its entry.        *)
LEMMA RestartInv ==
    ASSUME Inv, Restart
    PROVE  Inv'
  <1> USE DEF Inv, Restart
  <1>1. /\ IsTable(waiter', Txs)
        /\ DOMAIN fetched' = {} /\ fetched' \in [DOMAIN fetched' -> Results]
    BY DEF IsTable, EmptyTable
  <1>2. TypeOK'
    BY <1>1, IndexerConstants DEF TypeOK, PCs, SeqPCs, node, store
  <1>3. \A p \in Procs : LocalOK(p)'
    BY DEF LocalOK, Looking
  <1>4. SequencerOK'
    BY <1>1 DEF SequencerOK, Procs
  <1>5. StorageIsUtxo'
    BY StorageFrame
  <1>6. ListenersExact'
    BY DEF ListenersExact, Waits, EmptyTable
  <1>7. QED
    BY <1>2, <1>3, <1>4, <1>5, <1>6

--------------------------------------------------------------------------------
(* The theorems                                                                   *)

(* Every action keeps the invariant.                                              *)
LEMMA NextInv == Inv /\ [Next]_vars => Inv'
  <1> SUFFICES ASSUME Inv, [Next]_vars PROVE Inv'
    OBVIOUS
  <1>1. CASE NodeAdvance \/ StartRange \/ AtTip
    BY <1>1, SyncerInv
  <1>2. ASSUME NEW p \in Procs, ProcStep(p) PROVE Inv'
    BY <1>2, GetRawBlockInv, CheckHeaderMatchInv, ReadSeenInv, ReadStorageInv,
       ReadCacheInv, RegisterInv, AwaitInv,
       StopListeningInv, LoadCacheInv, CountSeenInv,
       CloseChannelsInv DEF ProcStep
  <1>3. ASSUME NEW f \in Fetchers, FetcherStep(f) PROVE Inv'
    BY <1>3, TakeIndexInv, DeliverInv DEF FetcherStep
  <1>4. CASE SequencerStep
    BY <1>4, ProcessCachedInv, RefetchInv, ProcessRefetchedInv, SyncerInv,
       AbortWaitsInv DEF SequencerStep
  <1>5. CASE Restart
    BY <1>5, RestartInv
  <1>6. CASE UNCHANGED vars
    <2>1. UNCHANGED <<store, shared, local, syncer, restarts, node>>
      BY <1>6 DEF vars
    <2>2. TypeOK' /\ SequencerOK'
      BY <2>1 DEF Inv, TypeOK, SequencerOK, nextIndex, node, store, shared, local,
                  lookup, syncer
    <2>3. \A q \in Procs : LocalOK(q)'
      BY <2>1 DEF Inv, LocalOK, Looking, local, lookup
    <2>4. StorageIsUtxo' /\ ListenersExact'
      BY <2>1, StorageFrame, ListenersFrame DEF Inv, shared, local, lookup
    <2>5. QED
      BY <2>2, <2>3, <2>4 DEF Inv
  <1>7. QED
    BY <1>1, <1>2, <1>3, <1>4, <1>5, <1>6 DEF Next

(* The inductive invariant holds in every reachable state of the sync pipeline.   *)
THEOREM Invariance == Spec => []Inv
  BY InitInv, NextInv, PTL DEF Spec

(* Every variable keeps its type.                                                 *)
THEOREM TypeCorrect == Spec => []TypeOK
  <1>1. Inv => TypeOK
    BY DEF Inv
  <1>2. QED
    BY <1>1, Invariance, PTL

(* BlockAdded and BlockRemoved keep coin storage exactly the unspent coins of the *)
(* head's branch, whatever the node, the fetchers and crashes do.                 *)
THEOREM StorageCorrect == Spec => []StorageIsUtxo
  <1>1. Inv => StorageIsUtxo
    BY DEF Inv
  <1>2. QED
    BY <1>1, Invariance, PTL

(* findCoin and findCoins count listeners exactly: no entry of the wait table is  *)
(* deleted under a waiting goroutine and none is left behind.                     *)
THEOREM ListenersCorrect == Spec => []ListenersExact
  <1>1. Inv => ListenersExact
    BY DEF Inv
  <1>2. QED
    BY <1>1, Invariance, PTL

(* findCoins never returns "transaction not in waiter".                           *)
THEOREM EntryNeverMissing == Spec => []NoMissingEntry
  <1>1. Inv => NoMissingEntry
    BY DEF Inv, LocalOK, NoMissingEntry
  <1>2. QED
    BY <1>1, Invariance, PTL

--------------------------------------------------------------------------------
(* Steps of Indexer.Block and Indexer.BlockSeen                                   *)

(* A goroutine that runs them changes neither storage nor the syncer's variables, *)
(* stays busy, and moves no other goroutine.                                      *)
LEMMA ProcStepFrame ==
    ASSUME Inv, NEW p \in Procs, ProcStep(p)
    PROVE  /\ UNCHANGED <<best, head, coins, index, seqPc, endIndex, nextFetch, fetched,
                          reorgStart, restarts>>
           /\ pc[p] # "idle" /\ pc'[p] # "idle"
           /\ \A q \in Procs \ {p} : pc'[q] = pc[q]
  <1> USE DEF node, store, syncer, local, lookup
  <1>1. UNCHANGED <<best, head, coins, index, seqPc, endIndex, nextFetch, fetched,
                    reorgStart, restarts>>
    BY DEF ProcStep, GetRawBlock, CheckHeaderMatch, ReadSeen, ReadStorage, ReadCache,
           Register, Await, StopListening, LoadCache, CountSeen, CloseChannels
  <1>2. /\ pc[p] # "idle"
        /\ \E next \in PCs \ {"idle"} : pc' = [pc EXCEPT ![p] = next]
    <2>1. CASE GetRawBlock(p) \/ ReadSeen(p) \/ Await(p) \/ LoadCache(p) \/ CountSeen(p)
               \/ CloseChannels(p)
      BY <2>1 DEF PCs, GetRawBlock, ReadSeen, Await, LoadCache, CountSeen, CloseChannels
    <2>2. CASE CheckHeaderMatch(p)
      BY <2>2 DEF PCs, CheckHeaderMatch, ProceedWith
    <2>3. CASE ReadStorage(p) \/ ReadCache(p)
      BY <2>3 DEF PCs, ReadStorage, ReadCache, Found, ProceedWith
    <2>4. CASE Register(p)
      BY <2>4 DEF PCs, Register, ProceedWith
    <2>5. CASE StopListening(p)
      BY <2>5 DEF PCs, StopListening
    <2> QED
      BY <2>1, <2>2, <2>3, <2>4, <2>5 DEF ProcStep
  <1> QED
    BY <1>1, <1>2 DEF Inv, TypeOK

--------------------------------------------------------------------------------
(* The heights of a range                                                         *)

(* Steps that leave the syncer, the head and the heights being fetched alone.     *)
LEMMA RangeFrame ==
    ASSUME Inv, RangeOK,
           UNCHANGED <<head, index, seqPc, endIndex, nextFetch, fetched, reorgStart>>,
           best' \in Blocks, Height[best'] >= Height[best],
           \A f \in Fetchers : pc'[f] # "idle" => pc[f] # "idle"
    PROVE  RangeOK'
  <1>1. Height[best] \in Nat /\ Height[best'] \in Nat /\ endIndex \in Int
    BY TreeShape DEF Inv, TypeOK
  <1>2. nextIndex' = nextIndex
    BY DEF nextIndex
  <1> QED
    BY <1>1, <1>2 DEF RangeOK, Ahead

(* The next height goes to an idle fetcher.                                       *)
LEMMA TakeIndexRange ==
    ASSUME Inv, RangeOK, NEW f \in Fetchers, TakeIndex(f)
    PROVE  RangeOK'
  <1> USE DEF TakeIndex, node, store, Inv
  <1>1. nextIndex' = nextIndex /\ nextIndex \in Int
    BY TreeShape DEF nextIndex, TypeOK
  <1>2. f \in Procs /\ \A g \in Fetchers : g \in Procs
    BY DEF Procs
  <1>3. ASSUME NEW g \in Fetchers, pc'[g] # "idle"
        PROVE  Ahead(index[g])' /\ index'[g] \notin DOMAIN fetched'
    <2>1. CASE g = f
      <3>1. index'[g] = nextFetch /\ nextFetch' = nextFetch + 1
        BY <2>1, <1>2 DEF TypeOK
      <3>2. nextFetch \notin DOMAIN fetched
        BY DEF RangeOK, Ahead, TypeOK
      <3> QED
        BY <3>1, <3>2, <1>1 DEF RangeOK, Ahead, TypeOK
    <2>2. CASE g # f
      <3>1. index'[g] = index[g] /\ pc[g] # "idle" /\ index[g] \in Nat
        BY <1>2, <1>3, <2>2 DEF TypeOK
      <3> QED
        BY <3>1, <1>1 DEF RangeOK, Ahead, TypeOK
    <2> QED
      BY <2>1, <2>2
  <1>4. ASSUME NEW g \in Fetchers, NEW h \in Fetchers, g # h, pc'[g] # "idle",
               pc'[h] # "idle"
        PROVE  index'[g] # index'[h]
    BY <1>2, <1>4 DEF RangeOK, Ahead, TypeOK
  <1>5. \A h \in DOMAIN fetched' : Ahead(h)'
    BY <1>1 DEF RangeOK, Ahead, TypeOK
  <1> QED
    BY <1>1, <1>3, <1>4, <1>5 DEF RangeOK, TypeOK

(* A result is kept under the height of the fetcher that brings it.               *)
LEMMA DeliverRange ==
    ASSUME Inv, RangeOK, NEW f \in Fetchers, Deliver(f)
    PROVE  RangeOK'
  <1> USE DEF Deliver, Forget, node, store, Inv
  <1>1. nextIndex' = nextIndex /\ nextIndex \in Nat
    BY TreeShape DEF nextIndex, TypeOK
  <1>2. f \in Procs /\ \A g \in Fetchers : g \in Procs
    BY DEF Procs
  <1>3. DOMAIN fetched' = DOMAIN fetched \cup {index[f]}
    OBVIOUS
  <1>4. \A g \in Fetchers : pc'[g] # "idle" =>
            g # f /\ pc[g] # "idle" /\ index'[g] = index[g] /\ index[g] \in Nat
    BY <1>2 DEF TypeOK
  <1>5. \A n \in Nat : Ahead(n) => Ahead(n)'
    BY <1>1 DEF Ahead, TypeOK
  <1>6. Ahead(index[f]) /\ index[f] \in Nat
    BY <1>2 DEF RangeOK, TypeOK
  <1>7. \A g \in Fetchers : pc'[g] # "idle" =>
            Ahead(index[g])' /\ index'[g] \notin DOMAIN fetched'
    BY <1>3, <1>4, <1>5 DEF RangeOK
  <1>8. \A g, h \in Fetchers :
            g # h /\ pc'[g] # "idle" /\ pc'[h] # "idle" => index'[g] # index'[h]
    BY <1>4 DEF RangeOK
  <1>9. \A h \in DOMAIN fetched' : Ahead(h)'
    BY <1>3, <1>5, <1>6 DEF RangeOK, TypeOK
  <1>10. /\ (endIndex <= Height[best])' /\ (reorgStart <= endIndex)'
         /\ (nextFetch <= endIndex => nextIndex <= nextFetch /\ reorgStart < nextFetch)'
    BY <1>1 DEF RangeOK, TypeOK
  <1> QED
    BY <1>7, <1>8, <1>9, <1>10 DEF RangeOK

(* processBlock moves the next height up by one, or down by one; the first block  *)
(* that is removed is where the reorg starts.                                     *)
LEMMA ProcessBlockMoves ==
    ASSUME Inv, NEW r \in Results, r # OrphanHead => Height[r] = nextIndex,
           ProcessBlock(r)
    PROVE  \/ /\ Extends(r) /\ head' = r /\ r \in Blocks
              /\ nextIndex' = nextIndex + 1 /\ reorgStart' = reorgStart
              /\ seqPc' = "clean"
           \/ /\ ~Extends(r) /\ head \in Blocks
              /\ head' = IF head = Genesis THEN NoBlock ELSE Parent[head]
              /\ nextIndex' = nextIndex - 1
              /\ reorgStart' = IF reorgStart = -1 THEN nextIndex ELSE reorgStart
              /\ seqPc' = "process"
  <1> USE DEF Inv
  <1>1. CASE Extends(r)
    <2>1. r \in Blocks /\ r # NoBlock /\ Height[r] = nextIndex
      BY <1>1, IndexerConstants DEF Extends, Results
    <2>2. head' = r /\ seqPc' = "clean" /\ reorgStart' = reorgStart
      BY <1>1 DEF ProcessBlock, AddBlock
    <2> QED
      BY <1>1, <2>1, <2>2 DEF nextIndex
  <1>2. CASE ~Extends(r)
    <2>1. /\ head # NoBlock
          /\ head' = IF head = Genesis THEN NoBlock ELSE Parent[head]
          /\ seqPc' = "process"
          /\ reorgStart' = IF reorgStart = -1 THEN nextIndex ELSE reorgStart
      BY <1>2 DEF ProcessBlock, RemoveBlock
    <2>2. head \in Blocks /\ Height[head] \in Nat
      BY <2>1, TreeShape DEF TypeOK
    <2>3. nextIndex' = nextIndex - 1
      <3>1. CASE head = Genesis
        BY <2>1, <3>1, TreeShape DEF nextIndex
      <3>2. CASE head # Genesis
        <4>1. /\ Parent[head] # NoBlock /\ Height[Parent[head]] \in Nat
              /\ Height[head] = Height[Parent[head]] + 1
          BY <2>2, <3>2, TreeShape, IndexerConstants
        <4> QED
          BY <2>1, <3>2, <4>1 DEF nextIndex
      <3> QED
        BY <3>1, <3>2
    <2> QED
      BY <1>2, <2>1, <2>2, <2>3
  <1> QED
    BY <1>1, <1>2

(* The cached result of the next height.                                          *)
LEMMA CachedResult ==
    ASSUME Inv, nextIndex \in DOMAIN fetched
    PROVE  /\ fetched[nextIndex] \in Results
           /\ fetched[nextIndex] # OrphanHead => Height[fetched[nextIndex]] = nextIndex
  BY DEF Inv, TypeOK, SequencerOK

(* The result the sequencer has fetched for the next height.                      *)
LEMMA RefetchedResult ==
    ASSUME Inv, ProcessRefetched
    PROVE  /\ Result(Sequencer) \in Results
           /\ Result(Sequencer) # OrphanHead => Height[Result(Sequencer)] = nextIndex
  <1>1. Sequencer \in Procs
    BY DEF Procs
  <1> QED
    BY <1>1 DEF ProcessRefetched, Result, Results, Inv, TypeOK, LocalOK, SequencerOK

(* A cached result is used up, so the others are above it.                        *)
LEMMA ProcessCachedRange ==
    ASSUME Inv, RangeOK, ProcessCached
    PROVE  RangeOK'
  <1> USE DEF Inv
  <1>1. PICK n \in Nat : n = nextIndex
    BY TreeShape DEF nextIndex, TypeOK
  <1>2. n \in DOMAIN fetched /\ n <= endIndex /\ ProcessBlock(fetched[n])
    BY <1>1 DEF ProcessCached
  <1>3. /\ fetched' = [h \in DOMAIN fetched \ {n} |-> fetched[h]]
        /\ UNCHANGED <<best, pc, index, endIndex, nextFetch>>
    BY <1>1 DEF ProcessCached, node, local
  <1>4. /\ seqPc' \in {"clean", "process"}
        /\ \/ nextIndex' = n + 1 /\ reorgStart' = reorgStart
           \/ /\ nextIndex' = n - 1
              /\ reorgStart' = IF reorgStart = -1 THEN n ELSE reorgStart
    BY <1>1, <1>2, CachedResult, ProcessBlockMoves
  <1>5. Ahead(n)
    BY <1>2 DEF RangeOK
  <1>6. \A m \in Nat : Ahead(m) /\ m # n => Ahead(m)'
    BY <1>1, <1>3, <1>4 DEF Ahead, TypeOK
  <1>7. \A f \in Fetchers : pc[f] # "idle" => index[f] \in Nat /\ index[f] # n
    BY <1>2 DEF RangeOK, TypeOK, Procs
  <1>8. DOMAIN fetched' = DOMAIN fetched \ {n}
    BY <1>3
  <1>9. \A f \in Fetchers :
            pc'[f] # "idle" => Ahead(index[f])' /\ index'[f] \notin DOMAIN fetched'
    BY <1>3, <1>6, <1>7, <1>8 DEF RangeOK
  <1>10. \A h \in DOMAIN fetched' : Ahead(h)'
    BY <1>6, <1>8 DEF RangeOK, TypeOK
  <1>11. /\ (endIndex <= Height[best])' /\ (reorgStart <= endIndex)'
         /\ (nextFetch <= endIndex => nextIndex <= nextFetch /\ reorgStart < nextFetch)'
    BY <1>1, <1>2, <1>3, <1>4, <1>5 DEF RangeOK, Ahead, TypeOK
  <1>12. \A f, g \in Fetchers :
             f # g /\ pc'[f] # "idle" /\ pc'[g] # "idle" => index'[f] # index'[g]
    BY <1>3 DEF RangeOK
  <1> QED
    BY <1>4, <1>9, <1>10, <1>11, <1>12 DEF RangeOK

(* A height that is fetched again is not above the start of the reorg.            *)
LEMMA ProcessRefetchedRange ==
    ASSUME Inv, RangeOK, ProcessRefetched
    PROVE  RangeOK'
  <1> USE DEF Inv
  <1>1. PICK n \in Nat : n = nextIndex
    BY TreeShape DEF nextIndex, TypeOK
  <1>2. n <= reorgStart /\ reorgStart <= endIndex /\ reorgStart \in Nat
    BY <1>1 DEF ProcessRefetched, RangeOK, TypeOK
  <1>3. UNCHANGED <<best, endIndex, nextFetch, fetched>>
    BY DEF ProcessRefetched, node
  <1>4. /\ seqPc' \in {"clean", "process"} /\ reorgStart' = reorgStart
        /\ nextIndex' \in {n - 1, n + 1}
    BY <1>1, <1>2, RefetchedResult, ProcessBlockMoves DEF ProcessRefetched
  <1>5. \A m \in Nat : Ahead(m) => Ahead(m)'
    BY <1>1, <1>2, <1>3, <1>4 DEF Ahead, TypeOK
  <1>6. \A f \in Fetchers : f \in Procs /\ f # Sequencer
    BY IndexerConstants DEF Procs
  <1>7. \A f \in Fetchers : pc'[f] = pc[f] /\ index'[f] = index[f] /\ index[f] \in Nat
    BY <1>6 DEF ProcessRefetched, Forget, TypeOK, Procs
  <1>8. \A f \in Fetchers :
            pc'[f] # "idle" => Ahead(index[f])' /\ index'[f] \notin DOMAIN fetched'
    BY <1>3, <1>5, <1>7 DEF RangeOK
  <1>9. \A h \in DOMAIN fetched' : Ahead(h)'
    BY <1>3, <1>5 DEF RangeOK, TypeOK
  <1>10. /\ (endIndex <= Height[best])' /\ (reorgStart <= endIndex)'
         /\ (nextFetch <= endIndex => nextIndex <= nextFetch /\ reorgStart < nextFetch)'
    BY <1>1, <1>2, <1>3, <1>4 DEF RangeOK, TypeOK
  <1>11. \A f, g \in Fetchers :
             f # g /\ pc'[f] # "idle" /\ pc'[g] # "idle" => index'[f] # index'[g]
    BY <1>7 DEF RangeOK
  <1> QED
    BY <1>4, <1>8, <1>9, <1>10, <1>11 DEF RangeOK

(* The other steps of the sequencer.                                              *)
LEMMA SequencerRange ==
    ASSUME Inv, RangeOK, Refetch \/ WaitForResults \/ CleanCache \/ AbortWaits
    PROVE  RangeOK'
  <1> USE DEF Inv, node, store, local
  <1>1. UNCHANGED <<best, head, endIndex, nextFetch, fetched, reorgStart>>
    BY DEF Refetch, WaitForResults, CleanCache, AbortWaits
  <1>2. nextIndex' = nextIndex /\ nextIndex \in Nat
    BY <1>1, TreeShape DEF nextIndex, TypeOK
  <1>3. \A f \in Fetchers : pc'[f] = pc[f] /\ index'[f] = index[f]
    BY IndexerConstants DEF Refetch, WaitForResults, CleanCache, AbortWaits, TypeOK, Procs
  <1>4. /\ seqPc' = "recv" => reorgStart < nextIndex
        /\ seqPc' = "fetching" => nextIndex <= reorgStart
    BY <1>2 DEF Refetch, WaitForResults, CleanCache, AbortWaits, TypeOK, RangeOK
  <1>5. \A m : Ahead(m)' <=> Ahead(m)
    BY <1>1, <1>2 DEF Ahead
  <1> QED
    BY <1>1, <1>2, <1>3, <1>4, <1>5 DEF RangeOK

(* A new range starts at the next height, with nothing fetched.                   *)
LEMMA StartRangeRange ==
    ASSUME Inv, RangeOK, StartRange
    PROVE  RangeOK'
  <1> USE DEF Inv, StartRange, node, store, local
  <1>1. nextIndex' = nextIndex /\ nextIndex \in Nat /\ Height[best] \in Nat
    BY TreeShape DEF nextIndex, TypeOK
  <1>2. DOMAIN fetched' = {} /\ \A f \in Fetchers : pc'[f] = "idle"
    BY DEF EmptyTable, RangeDone
  <1>3. seqPc = "recv" /\ seqPc' = "recv" /\ reorgStart < nextIndex
    BY DEF RangeDone, RangeOK
  <1> QED
    BY <1>1, <1>2, <1>3 DEF RangeOK, TypeOK

(* A new process has no range.                                                    *)
LEMMA RestartRange ==
    ASSUME Inv, Restart
    PROVE  RangeOK'
  <1>1. /\ best' \in Blocks /\ endIndex' = -1 /\ nextFetch' = 0 /\ reorgStart' = -1
        /\ seqPc' = "recv" /\ DOMAIN fetched' = {} /\ head' = head
        /\ \A f \in Fetchers : pc'[f] = "idle"
    BY DEF Restart, EmptyTable, Inv, TypeOK, node, store, Procs
  <1>2. nextIndex' \in Nat /\ Height[best'] \in Nat
    BY <1>1, TreeShape DEF nextIndex, Inv, TypeOK
  <1> QED
    BY <1>1, <1>2 DEF RangeOK

(* Every step keeps the heights in order.                                         *)
LEMMA NextRange == ASSUME Inv, RangeOK, [Next]_vars PROVE RangeOK'
  <1> USE DEF node, store, local, syncer
  <1>b. Height[best] \in Nat /\ best \in Blocks
    BY TreeShape DEF Inv, TypeOK
  <1>1. CASE NodeAdvance
    BY <1>1, <1>b, TreeShape, RangeFrame DEF NodeAdvance
  <1>2. ASSUME NEW p \in Procs, ProcStep(p) PROVE RangeOK'
    <2>1. \A f \in Fetchers : pc'[f] # "idle" => pc[f] # "idle"
      BY <1>2, ProcStepFrame DEF Procs
    <2> QED
      BY <1>2, <1>b, <2>1, ProcStepFrame, RangeFrame
  <1>3. ASSUME NEW f \in Fetchers, FetcherStep(f) PROVE RangeOK'
    BY <1>3, TakeIndexRange, DeliverRange DEF FetcherStep
  <1>4. CASE SequencerStep
    BY <1>4, ProcessCachedRange, ProcessRefetchedRange, SequencerRange DEF SequencerStep
  <1>5. CASE StartRange \/ Restart
    BY <1>5, StartRangeRange, RestartRange
  <1>6. CASE UNCHANGED vars
    BY <1>6, <1>b, RangeFrame DEF vars
  <1> QED
    BY <1>1, <1>2, <1>3, <1>4, <1>5, <1>6 DEF Next, AtTip

--------------------------------------------------------------------------------
(* Orphans                                                                        *)

(* The block after genesis extends genesis.                                       *)
LEMMA FirstExtendsGenesis ==
    ASSUME NEW b \in Blocks, Height[b] = 1
    PROVE  b # Genesis /\ Parent[b] = Genesis
  <1>1. b # Genesis
    BY TreeShape
  <1>2. Parent[b] \in Blocks /\ Height[Parent[b]] \in Nat /\ Height[b] = Height[Parent[b]] + 1
    BY <1>1, TreeShape
  <1> QED
    BY <1>1, <1>2, OnlyGenesisAtZero

(* checkHeaderMatch takes only a block above the first two for an orphan.         *)
LEMMA DisconnectedIsHigh ==
    ASSUME Inv, NEW b \in Blocks, Disconnected(b)
    PROVE  Height[b] >= 2
  <1>1. head \in Blocks /\ Height[head] \in Nat /\ Height[b] \in Nat
        /\ Height[b] = Height[head] + 1 /\ Parent[b] # head
    BY TreeShape DEF Inv, TypeOK, Disconnected
  <1>2. Height[head] # 0
    BY <1>1, FirstExtendsGenesis, OnlyGenesisAtZero
  <1> QED
    BY <1>1, <1>2

(* A goroutine works on a height that the head has not reached.                   *)
LEMMA BusyIsAhead ==
    ASSUME Inv, RangeOK, NEW p \in Procs, pc[p] # "idle"
    PROVE  nextIndex <= index[p] /\ index[p] \in Nat /\ nextIndex \in Nat
  <1>1. index[p] \in Nat /\ nextIndex \in Nat
    BY TreeShape DEF Inv, TypeOK, nextIndex
  <1>2. CASE p \in Fetchers
    BY <1>1, <1>2 DEF RangeOK, Ahead
  <1>3. CASE p = Sequencer
    BY <1>1, <1>3 DEF Inv, SequencerOK
  <1> QED
    BY <1>1, <1>2, <1>3 DEF Procs

(* findCoin waits only on behalf of a block above the first two.                  *)
LEMMA WaitsAreHigh ==
    ASSUME Inv, RangeOK, NEW p \in Procs, OrphanOK(p), pc[p] = "register", Current(p)
    PROVE  index[p] >= 2
  <1>1. /\ block[p] \in Blocks /\ Height[block[p]] = index[p]
        /\ cur[p] \in Needs(block[p]) /\ head \in Blocks /\ cur[p] \notin Utxo(head)
    BY DEF Inv, LocalOK, Looking, OrphanOK, Current
  <1>2. /\ Height[head] \in Nat /\ nextIndex = Height[head] + 1
        /\ nextIndex <= index[p] /\ index[p] \in Nat
    BY <1>1, BusyIsAhead, TreeShape, IndexerConstants DEF nextIndex
  <1>3. ASSUME index[p] = 1 PROVE FALSE
    <2>1. head = Genesis
      BY <1>1, <1>2, <1>3, OnlyGenesisAtZero
    <2>2. Needs(block[p]) \subseteq Utxo(Genesis)
      BY <1>1, <1>3, FirstExtendsGenesis, NoDoubleSpend
    <2> QED
      BY <1>1, <2>1, <2>2
  <1> QED
    BY <1>2, <1>3

(* Steps that leave the goroutines and the results alone.                         *)
LEMMA OrphansFrame ==
    ASSUME OrphansOK, UNCHANGED <<local, fetched>>
    PROVE  OrphansOK'
  BY DEF OrphansOK, OrphanOK, local, lookup, Utxo, Needs

(* A goroutine that runs Block or BlockSeen leaves the variables of the others.   *)
LEMMA OthersStay ==
    ASSUME Inv, NEW p \in Procs, ProcStep(p), NEW q \in Procs \ {p}
    PROVE  /\ pc'[q] = pc[q] /\ index'[q] = index[q] /\ block'[q] = block[q]
           /\ orphan'[q] = orphan[q] /\ snap'[q] = snap[q] /\ pending'[q] = pending[q]
           /\ remaining'[q] = remaining[q] /\ listening'[q] = listening[q]
           /\ cur'[q] = cur[q]
  <1>1. pc'[q] = pc[q] /\ index'[q] = index[q]
    BY ProcStepFrame
  <1>2. block'[q] = block[q] /\ orphan'[q] = orphan[q] /\ snap'[q] = snap[q]
    <2> USE DEF local, lookup, Inv, TypeOK
    <2>1. CASE GetRawBlock(p) \/ CheckHeaderMatch(p) \/ ReadSeen(p) \/ Await(p)
      BY <2>1 DEF GetRawBlock, CheckHeaderMatch, ReadSeen, Await
    <2>2. CASE ReadStorage(p) \/ ReadCache(p) \/ Register(p)
      BY <2>2 DEF ReadStorage, ReadCache, Register, Found
    <2>3. CASE StopListening(p) \/ LoadCache(p) \/ CountSeen(p) \/ CloseChannels(p)
      BY <2>3 DEF StopListening, LoadCache, CountSeen, CloseChannels
    <2> QED
      BY <2>1, <2>2, <2>3 DEF ProcStep
  <1>3. /\ pending'[q] = pending[q] /\ remaining'[q] = remaining[q]
        /\ listening'[q] = listening[q] /\ cur'[q] = cur[q]
    <2> USE DEF local, lookup, Inv, TypeOK
    <2>1. CASE GetRawBlock(p) \/ CheckHeaderMatch(p) \/ ReadSeen(p) \/ Await(p)
      BY <2>1 DEF GetRawBlock, CheckHeaderMatch, ReadSeen, Await, ProceedWith
    <2>2. CASE ReadStorage(p) \/ ReadCache(p) \/ Register(p)
      BY <2>2 DEF ReadStorage, ReadCache, Register, Found, ProceedWith
    <2>3. CASE StopListening(p) \/ LoadCache(p) \/ CountSeen(p) \/ CloseChannels(p)
      BY <2>3 DEF StopListening, LoadCache, CountSeen, CloseChannels
    <2> QED
      BY <2>1, <2>2, <2>3 DEF ProcStep
  <1> QED
    BY <1>1, <1>2, <1>3

(* So what holds of them stays.                                                   *)
LEMMA OthersOrphan ==
    ASSUME Inv, NEW p \in Procs, ProcStep(p), NEW q \in Procs \ {p}, OrphanOK(q)
    PROVE  OrphanOK(q)'
  BY OthersStay DEF OrphanOK, Needs, Utxo

(* The steps of Block and BlockSeen themselves.                                   *)
LEMMA OwnOrphan ==
    ASSUME Inv, RangeOK, NEW p \in Procs, ProcStep(p), OrphanOK(p)
    PROVE  OrphanOK(p)'
  <1> USE DEF Inv, local, lookup, Needs, Utxo
  <1>1. CASE GetRawBlock(p)
    BY <1>1 DEF GetRawBlock, OrphanOK, TypeOK, LocalOK, Looking
  <1>2. CASE CheckHeaderMatch(p)
    <2>1. block[p] \in Blocks /\ Height[block[p]] = index[p]
      BY <1>2 DEF CheckHeaderMatch, LocalOK
    <2>2. Disconnected(block[p]) => index[p] >= 2
      BY <2>1, DisconnectedIsHigh
    <2> QED
      BY <1>2, <2>2 DEF CheckHeaderMatch, ProceedWith, OrphanOK, TypeOK
  <1>3. CASE ReadSeen(p) \/ Await(p)
    BY <1>3 DEF ReadSeen, Await, OrphanOK, TypeOK
  <1>4. CASE ReadStorage(p)
    <2>1. CASE Found(p) /\ UNCHANGED <<index, block, orphan, remaining, listening>>
               /\ pc[p] = "storage"
      BY <2>1 DEF Found, ProceedWith, OrphanOK, TypeOK
    <2>2. CASE UNCHANGED <<index, block, orphan, lookup>> /\ pc[p] = "storage"
               /\ pc' = [pc EXCEPT ![p] = "find"]
      BY <2>2 DEF OrphanOK, TypeOK
    <2>3. CASE /\ UNCHANGED <<index, block, orphan, pending, remaining, listening, cur>>
               /\ pc[p] = "storage" /\ head # NoBlock /\ cur[p] \notin coins
               /\ pc' = [pc EXCEPT ![p] = "cache"]
               /\ snap' = [snap EXCEPT ![p] = head]
      <3>1. head \in Blocks /\ coins = Utxo(head)
        BY <2>3 DEF TypeOK, StorageIsUtxo
      <3>2. snap'[p] = head /\ cur'[p] = cur[p] /\ pc'[p] = "cache"
        BY <2>3 DEF TypeOK
      <3>3. snap'[p] \in Blocks /\ cur'[p] \notin Utxo(snap[p])'
        BY <2>3, <3>1, <3>2
      <3> QED
        BY <2>3, <3>2, <3>3 DEF OrphanOK
    <2> QED
      BY <1>4, <2>1, <2>2, <2>3 DEF ReadStorage
  <1>5. CASE ReadCache(p)
    <2>1. CASE Found(p) /\ UNCHANGED <<index, block, orphan, remaining, listening>>
               /\ pc[p] = "cache"
      BY <2>1 DEF Found, ProceedWith, OrphanOK, TypeOK
    <2>2. CASE UNCHANGED <<index, block, orphan, lookup>> /\ pc[p] = "cache"
               /\ pc' = [pc EXCEPT ![p] = "register"]
      BY <2>2 DEF OrphanOK, TypeOK
    <2> QED
      BY <1>5, <2>1, <2>2 DEF ReadCache
  <1>6. CASE Register(p)
    <2>1. Current(p) => index[p] >= 2
      BY <1>6, WaitsAreHigh DEF Register
    <2>2. cur[p] \in Needs(block[p])
      BY <1>6 DEF Register, OrphanOK, LocalOK, Looking
    <2> QED
      BY <1>6, <2>1, <2>2 DEF Register, ProceedWith, OrphanOK, TypeOK
  <1>7. CASE StopListening(p)
    <2>1. cur[p] \in listening[p]
      BY <1>7 DEF StopListening, LocalOK
    <2> QED
      BY <1>7, <2>1 DEF StopListening, OrphanOK, TypeOK
  <1>8. CASE LoadCache(p) \/ CountSeen(p) \/ CloseChannels(p)
    BY <1>8 DEF LoadCache, CountSeen, CloseChannels, OrphanOK, TypeOK
  <1> QED
    BY <1>1, <1>2, <1>3, <1>4, <1>5, <1>6, <1>7, <1>8 DEF ProcStep

(* A fetcher that takes a height has no result yet.                               *)
LEMMA TakeIndexOrphan ==
    ASSUME Inv, OrphansOK, NEW f \in Fetchers, TakeIndex(f)
    PROVE  OrphansOK'
  <1> USE DEF TakeIndex, lookup
  <1>1. f \in Procs /\ listening[f] = {} /\ ~orphan[f]
    BY DEF Procs, Inv, LocalOK, Looking, OrphansOK, OrphanOK
  <1>2. \A q \in Procs \ {f} : pc'[q] = pc[q] /\ index'[q] = index[q]
    BY DEF Inv, TypeOK
  <1>3. pc'[f] = "rawBlock"
    BY <1>1 DEF Inv, TypeOK
  <1>4. \A q \in Procs \ {f} : OrphanOK(q)'
    BY <1>2 DEF OrphansOK, OrphanOK, Needs, Utxo
  <1>5. OrphanOK(f)'
    BY <1>1, <1>3 DEF OrphanOK
  <1> QED
    BY <1>4, <1>5 DEF OrphansOK

(* A goroutine that has handed over its result has no orphan any more.            *)
LEMMA ForgetOrphan ==
    ASSUME Inv, NEW p \in Procs, pc[p] = "deliver", Forget(p),
           \A q \in Procs : OrphanOK(q)
    PROVE  \A q \in Procs : OrphanOK(q)'
  <1> USE DEF Forget, lookup
  <1>1. \A q \in Procs \ {p} : /\ pc'[q] = pc[q] /\ index'[q] = index[q]
                               /\ block'[q] = block[q] /\ orphan'[q] = orphan[q]
    BY DEF Inv, TypeOK
  <1>2. pc'[p] = "idle" /\ orphan'[p] = FALSE /\ listening'[p] = {}
    BY DEF Inv, TypeOK, LocalOK, Looking
  <1>3. \A q \in Procs \ {p} : OrphanOK(q)'
    BY <1>1 DEF OrphanOK, Needs, Utxo
  <1>4. OrphanOK(p)'
    BY <1>2 DEF OrphanOK
  <1> QED
    BY <1>3, <1>4

(* A fetcher's orphan is kept under its height.                                   *)
LEMMA DeliverOrphan ==
    ASSUME Inv, OrphansOK, NEW f \in Fetchers, Deliver(f)
    PROVE  OrphansOK'
  <1> USE DEF Deliver
  <1>1. f \in Procs
    BY DEF Procs
  <1>2. \A q \in Procs : OrphanOK(q)'
    BY <1>1, ForgetOrphan DEF OrphansOK
  <1>3. Result(f) = OrphanHead => index[f] >= 2
    BY <1>1, IndexerConstants DEF Result, Inv, LocalOK, OrphansOK, OrphanOK
  <1> QED
    BY <1>2, <1>3 DEF OrphansOK

(* Every step keeps genesis from being taken for an orphan.                       *)
LEMMA NextOrphans == ASSUME Inv, RangeOK, OrphansOK, [Next]_vars PROVE OrphansOK'
  <1> USE DEF syncer
  <1>1. CASE NodeAdvance \/ AtTip \/ UNCHANGED vars
    BY <1>1, OrphansFrame DEF NodeAdvance, AtTip, vars
  <1>2. ASSUME NEW p \in Procs, ProcStep(p) PROVE OrphansOK'
    <2>1. \A q \in Procs : OrphanOK(q)'
      BY <1>2, OthersOrphan, OwnOrphan DEF OrphansOK
    <2> QED
      BY <1>2, <2>1, ProcStepFrame DEF OrphansOK
  <1>3. ASSUME NEW f \in Fetchers, FetcherStep(f) PROVE OrphansOK'
    BY <1>3, TakeIndexOrphan, DeliverOrphan DEF FetcherStep
  <1>4. CASE WaitForResults \/ CleanCache \/ AbortWaits
    BY <1>4, OrphansFrame DEF WaitForResults, CleanCache, AbortWaits
  <1>5. CASE StartRange
    <2>1. DOMAIN fetched' = {} /\ UNCHANGED local
      BY <1>5 DEF StartRange, EmptyTable
    <2>2. \A p \in Procs : OrphanOK(p)'
      BY <2>1 DEF OrphansOK, OrphanOK, local, lookup, Needs, Utxo
    <2> QED
      BY <2>1, <2>2 DEF OrphansOK
  <1>6. CASE ProcessCached
    <2>1. UNCHANGED local /\ DOMAIN fetched' \subseteq DOMAIN fetched
          /\ \A h \in DOMAIN fetched' : fetched'[h] = fetched[h]
      BY <1>6 DEF ProcessCached
    <2>2. \A p \in Procs : OrphanOK(p)'
      BY <2>1 DEF OrphansOK, OrphanOK, local, lookup, Needs, Utxo
    <2> QED
      BY <2>1, <2>2 DEF OrphansOK
  <1>7. CASE Refetch
    <2> USE <1>7 DEF Refetch, lookup
    <2>1. Sequencer \in Procs /\ listening[Sequencer] = {} /\ ~orphan[Sequencer]
      BY DEF Procs, Inv, LocalOK, Looking, SequencerOK, OrphansOK, OrphanOK
    <2>2. \A q \in Procs \ {Sequencer} : pc'[q] = pc[q] /\ index'[q] = index[q]
      BY DEF Inv, TypeOK
    <2>3. pc'[Sequencer] = "rawBlock"
      BY <2>1 DEF Inv, TypeOK
    <2>4. \A q \in Procs \ {Sequencer} : OrphanOK(q)'
      BY <2>2 DEF OrphansOK, OrphanOK, Needs, Utxo
    <2>5. OrphanOK(Sequencer)'
      BY <2>1, <2>3 DEF OrphanOK
    <2> QED
      BY <2>4, <2>5 DEF OrphansOK
  <1>8. CASE ProcessRefetched
    <2>1. Sequencer \in Procs
      BY DEF Procs
    <2> QED
      BY <1>8, <2>1, ForgetOrphan DEF ProcessRefetched, OrphansOK
  <1>9. CASE Restart
    BY <1>9 DEF Restart, OrphansOK, OrphanOK, EmptyTable
  <1> QED
    BY <1>1, <1>2, <1>3, <1>4, <1>5, <1>6, <1>7, <1>8, <1>9 DEF Next, SequencerStep

--------------------------------------------------------------------------------
(* The storage the indexer writes follows the ledger                              *)

(* A result that removes the head is above the first two blocks, so the head is   *)
(* not genesis.                                                                   *)
LEMMA GenesisStays ==
    ASSUME Inv, NEW r \in Results, r # OrphanHead => Height[r] = nextIndex,
           r = OrphanHead => nextIndex >= 2, head # NoBlock, ~Extends(r)
    PROVE  head \in Blocks \ {Genesis}
  <1>1. head \in Blocks /\ nextIndex = Height[head] + 1 /\ Height[head] \in Nat
    BY TreeShape DEF Inv, TypeOK, nextIndex
  <1>2. ASSUME head = Genesis PROVE FALSE
    <2>1. nextIndex = 1
      BY <1>1, <1>2, TreeShape
    <2>2. r \in Blocks /\ Height[r] = 1 /\ Parent[r] # Genesis
      BY <1>2, <2>1 DEF Extends, Results
    <2> QED
      BY <2>2, FirstExtendsGenesis
  <1> QED
    BY <1>1, <1>2

(* processBlock is a step of the ledger.                                          *)
LEMMA ProcessBlockFollows ==
    ASSUME Inv, NEW r \in Results, r # OrphanHead => Height[r] = nextIndex,
           r = OrphanHead => nextIndex >= 2, ProcessBlock(r)
    PROVE  Promise!LedgerNext
  <1>1. StorageIsUtxo /\ StorageIsUtxo'
    BY ProcessBlockFacts DEF Inv
  <1>2. CASE Extends(r)
    <2>1. head' = r /\ r \in Blocks /\ r # NoBlock /\ Height[r] = nextIndex
      BY <1>2, ProcessBlockMoves, IndexerConstants DEF Extends
    <2>2. coins' = Utxo(r)
      BY <1>1, <2>1 DEF StorageIsUtxo, Utxo
    <2>3. CASE head = NoBlock
      <3>1. r = Genesis
        BY <2>1, <2>3, OnlyGenesisAtZero DEF nextIndex
      <3>2. Needs(r) = {}
        BY <3>1, NoDoubleSpend DEF Needs
      <3> QED
        BY <2>1, <2>2, <2>3, <3>1, <3>2
           DEF Promise!LedgerNext, Promise!Connect, Promise!Needs, Promise!Utxo, Needs, Utxo
    <2>4. CASE head # NoBlock
      <3>1. r # Genesis /\ Parent[r] = head
        BY <1>2, <2>1, <2>4, TreeShape DEF Extends, nextIndex, Inv, TypeOK
      <3>2. Needs(r) \subseteq coins
        BY <1>1, <2>1, <2>4, <3>1, NoDoubleSpend DEF StorageIsUtxo
      <3> QED
        BY <2>1, <2>2, <2>4, <3>1, <3>2
           DEF Promise!LedgerNext, Promise!Connect, Promise!Needs, Promise!Utxo, Needs, Utxo
    <2> QED
      BY <2>3, <2>4
  <1>3. CASE ~Extends(r)
    <2>1. head # NoBlock
      BY <1>3 DEF ProcessBlock
    <2>2. head \in Blocks \ {Genesis}
      BY <1>3, <2>1, GenesisStays
    <2>3. head' = Parent[head] /\ head' # NoBlock
      BY <1>3, <2>2, ProcessBlockMoves, TreeShape, IndexerConstants
    <2>4. coins' = Utxo(Parent[head])
      BY <1>1, <2>3 DEF StorageIsUtxo, Utxo
    <2> QED
      BY <2>1, <2>2, <2>3, <2>4 DEF Promise!LedgerNext, Promise!Disconnect, Promise!Utxo, Utxo
  <1> QED
    BY <1>2, <1>3

(* Every step is a step of the ledger or leaves storage alone.                    *)
LEMMA NextFollows ==
    ASSUME Inv, OrphansOK, [Next]_vars
    PROVE  [Promise!LedgerNext]_<<head, coins>>
  <1> USE DEF node, store
  <1>1. CASE NodeAdvance \/ StartRange \/ AtTip \/ Restart \/ UNCHANGED vars
    BY <1>1 DEF NodeAdvance, StartRange, AtTip, Restart, vars
  <1>2. ASSUME NEW p \in Procs, ProcStep(p) PROVE UNCHANGED <<head, coins>>
    BY <1>2, ProcStepFrame
  <1>3. ASSUME NEW f \in Fetchers, FetcherStep(f) PROVE UNCHANGED <<head, coins>>
    BY <1>3 DEF FetcherStep, TakeIndex, Deliver
  <1>4. CASE Refetch \/ WaitForResults \/ CleanCache \/ AbortWaits
    BY <1>4 DEF Refetch, WaitForResults, CleanCache, AbortWaits
  <1>5. CASE ProcessCached
    BY <1>5, CachedResult, ProcessBlockFollows DEF ProcessCached, OrphansOK
  <1>6. CASE ProcessRefetched
    <2>1. Sequencer \in Procs /\ index[Sequencer] = nextIndex
      BY <1>6 DEF Procs, ProcessRefetched, Inv, SequencerOK
    <2>2. Result(Sequencer) = OrphanHead => nextIndex >= 2
      BY <1>6, <2>1, IndexerConstants
         DEF ProcessRefetched, Result, Inv, LocalOK, OrphansOK, OrphanOK
    <2> QED
      BY <1>6, <2>2, RefetchedResult, ProcessBlockFollows DEF ProcessRefetched
  <1> QED
    BY <1>1, <1>2, <1>3, <1>4, <1>5, <1>6 DEF Next, SequencerStep

--------------------------------------------------------------------------------
(* Wakeups                                                                        *)

(* A goroutine listens only while it looks up coins or waits, and every coin it   *)
(* listens for has an entry.                                                      *)
LEMMA ListenerHasEntry ==
    ASSUME Inv, NEW p \in Procs, NEW c \in listening[p]
    PROVE  /\ c \in Coins /\ TxOf[c] \in Txs /\ <<p, c>> \in Waits(TxOf[c])
           /\ TxOf[c] \in DOMAIN waiter
           /\ pc[p] \in Looking \cup {"await", "leave"}
  <1>1. c \in Coins /\ TxOf[c] \in Txs
    BY CoinShape DEF Inv, TypeOK
  <1>2. <<p, c>> \in Waits(TxOf[c])
    BY <1>1 DEF Waits
  <1> QED
    BY <1>1, <1>2 DEF Inv, ListenersExact, LocalOK

(* Steps that let nobody listen, put nothing into coinCache, open no channel, and *)
(* take nobody out of BlockSeen.                                                  *)
LEMMA WakeupsFrame ==
    ASSUME Inv, WakeupsOK,
           UNCHANGED listening, coinCache' \subseteq coinCache,
           DOMAIN waiter' = DOMAIN waiter,
           \A t \in DOMAIN waiter : /\ waiter[t].closed => waiter'[t].closed
                                    /\ waiter'[t].earliest = waiter[t].earliest,
           \A q \in Procs : listening[q] # {} => block'[q] = block[q],
           \A q \in Procs : pc[q] \in {"count", "close"} =>
                                pc'[q] = pc[q] /\ block'[q] = block[q],
           \A q \in Procs : pc'[q] = "leave" =>
               /\ cur'[q] \in listening[q]
               /\ waiter[TxOf[cur'[q]]].closed \/ (pc[q] = "leave" /\ cur'[q] = cur[q]),
           \A q \in Procs : pc'[q] = "register" =>
               \/ cur'[q] \notin coinCache
               \/ /\ pc[q] = "register" /\ cur'[q] = cur[q]
                  /\ q \notin moved' => q \notin moved
    PROVE  WakeupsOK'
  <1>1. ASSUME NEW p \in Procs PROVE WakeOK(p)'
    <2>1. pc'[p] = "leave" => waiter'[TxOf[cur'[p]]].closed
      BY ListenerHasEntry DEF WakeupsOK, WakeOK
    <2>2. ASSUME pc'[p] = "register", cur'[p] \in coinCache', p \notin moved'
          PROVE  \E q \in Procs : pc'[q] = "count" /\ cur'[p] \in Creates[block'[q]]
      <3>1. pc[p] = "register" /\ cur'[p] = cur[p] /\ p \notin moved /\ cur[p] \in coinCache
        BY <2>2
      <3>2. PICK q \in Procs : pc[q] = "count" /\ cur[p] \in Creates[block[q]]
        BY <3>1 DEF WakeupsOK, WakeOK
      <3> QED
        BY <3>1, <3>2
    <2> QED
      BY <2>1, <2>2 DEF WakeOK
  <1>2. EarliestIsLowest'
    <2>1. ASSUME NEW t \in DOMAIN waiter', ~waiter'[t].closed
          PROVE  /\ \E w \in Waits(t)' : Height[block'[w[1]]] = waiter'[t].earliest
                 /\ \A w \in Waits(t)' : Height[block'[w[1]]] >= waiter'[t].earliest
      <3>1. t \in DOMAIN waiter /\ ~waiter[t].closed /\ waiter'[t].earliest = waiter[t].earliest
        BY <2>1
      <3>2. Waits(t)' = Waits(t)
        BY DEF Waits
      <3>3. \A w \in Waits(t) : block'[w[1]] = block[w[1]]
        BY DEF Waits
      <3> QED
        BY <3>1, <3>2, <3>3 DEF WakeupsOK, EarliestIsLowest
    <2> QED
      BY <2>1 DEF EarliestIsLowest
  <1>3. NoLostWakeup'
    <2>1. ASSUME NEW p \in Procs, NEW c \in listening'[p] \cap coinCache',
                 ~waiter'[TxOf[c]].closed
          PROVE  \E q \in Procs : pc'[q] \in {"count", "close"} /\ c \in Creates[block'[q]]
      <3>1. c \in listening[p] \cap coinCache /\ TxOf[c] \in DOMAIN waiter
        BY <2>1, ListenerHasEntry
      <3>2. ~waiter[TxOf[c]].closed
        BY <2>1, <3>1
      <3>3. PICK q \in Procs : pc[q] \in {"count", "close"} /\ c \in Creates[block[q]]
        BY <3>1, <3>2 DEF WakeupsOK, NoLostWakeup
      <3> QED
        BY <3>3
    <2> QED
      BY <2>1 DEF NoLostWakeup
  <1> QED
    BY <1>1, <1>2, <1>3 DEF WakeupsOK

(* Steps of Block that look something up: only the goroutine itself moves, and it *)
(* may get to the wait table's lock or to the end of a wait.                      *)
LEMMA LookingWakeups ==
    ASSUME Inv, WakeupsOK, NEW p \in Procs,
           UNCHANGED <<coinCache, waiter, listening>>,
           moved \ {p} \subseteq moved',
           pc[p] \notin {"count", "close", "leave", "register"},
           \A q \in Procs \ {p} : pc'[q] = pc[q] /\ cur'[q] = cur[q] /\ block'[q] = block[q],
           listening[p] # {} => block'[p] = block[p],
           pc'[p] = "leave" => cur'[p] \in listening[p] /\ waiter[TxOf[cur'[p]]].closed,
           pc'[p] = "register" => cur'[p] \notin coinCache
    PROVE  WakeupsOK'
  <1>1. \A q \in Procs : pc[q] = "leave" => cur[q] \in listening[q]
    BY DEF Inv, LocalOK
  <1> QED
    BY <1>1, WakeupsFrame

(* Block up to the lock of the wait table, and the end of a wait.                 *)
LEMMA BlockWakeups ==
    ASSUME Inv, WakeupsOK, NEW p \in Procs,
           \/ GetRawBlock(p) \/ CheckHeaderMatch(p) \/ ReadSeen(p) \/ ReadStorage(p)
           \/ ReadCache(p) \/ Await(p)
    PROVE  WakeupsOK'
  <1> USE DEF Inv, shared, lookup
  <1>1. CASE GetRawBlock(p)
    <2>1. /\ listening[p] = {} /\ pc'[p] = "header" /\ pc[p] = "rawBlock"
          /\ UNCHANGED <<coinCache, waiter, listening, moved, cur>>
          /\ \A q \in Procs \ {p} : pc'[q] = pc[q] /\ block'[q] = block[q]
      BY <1>1 DEF GetRawBlock, TypeOK, LocalOK, Looking
    <2> QED
      BY <2>1, LookingWakeups
  <1>2. CASE CheckHeaderMatch(p)
    <2>1. /\ pc'[p] \in {"deliver", "find", "load"} /\ pc[p] = "header"
          /\ UNCHANGED <<coinCache, waiter, listening, moved, block>>
          /\ \A q \in Procs \ {p} : pc'[q] = pc[q] /\ cur'[q] = cur[q]
      BY <1>2 DEF CheckHeaderMatch, ProceedWith, TypeOK
    <2> QED
      BY <2>1, LookingWakeups
  <1>3. CASE ReadSeen(p)
    <2>1. /\ pc'[p] = "storage" /\ pc[p] = "find"
          /\ UNCHANGED <<coinCache, waiter, listening, block, cur>> /\ moved' = moved \ {p}
          /\ \A q \in Procs \ {p} : pc'[q] = pc[q]
      BY <1>3 DEF ReadSeen, TypeOK
    <2> QED
      BY <2>1, LookingWakeups
  <1>4. CASE ReadStorage(p)
    <2>1. /\ pc'[p] \in {"find", "await", "load", "cache"} /\ pc[p] = "storage"
          /\ UNCHANGED <<coinCache, waiter, listening, moved, block>>
          /\ \A q \in Procs \ {p} : pc'[q] = pc[q] /\ cur'[q] = cur[q]
      BY <1>4 DEF ReadStorage, Found, ProceedWith, TypeOK
    <2> QED
      BY <2>1, LookingWakeups
  <1>5. CASE ReadCache(p)
    <2>1. /\ pc'[p] \in {"find", "await", "load", "register"} /\ pc[p] = "cache"
          /\ pc'[p] = "register" => cur'[p] \notin coinCache
          /\ UNCHANGED <<coinCache, waiter, listening, moved, block>>
          /\ \A q \in Procs \ {p} : pc'[q] = pc[q] /\ cur'[q] = cur[q]
      BY <1>5 DEF ReadCache, Found, ProceedWith, TypeOK
    <2> QED
      BY <2>1, LookingWakeups
  <1>6. CASE Await(p)
    <2>1. cur[p] \in listening[p] /\ TxOf[cur[p]] \in DOMAIN waiter
      BY <1>6, ListenerHasEntry DEF Await, LocalOK
    <2>2. /\ pc'[p] = "leave" /\ pc[p] = "await" /\ waiter[TxOf[cur[p]]].closed
          /\ UNCHANGED <<coinCache, waiter, listening, moved, block, cur>>
          /\ \A q \in Procs \ {p} : pc'[q] = pc[q]
      BY <1>6, <2>1 DEF Await, TypeOK
    <2> QED
      BY <2>1, <2>2, LookingWakeups
  <1> QED
    BY <1>1, <1>2, <1>3, <1>4, <1>5, <1>6

(* Join neither opens nor closes a channel that is there; earliestBlock becomes   *)
(* the lower of the two heights.                                                  *)
LEMMA JoinKeeps ==
    ASSUME NEW table, IsTable(table, Txs), NEW t \in Txs, NEW h \in Nat,
           NEW j, j = Join(table, t, h)
    PROVE  /\ \A s \in DOMAIN table : (j[s].closed <=> table[s].closed)
           /\ \A s \in DOMAIN table \ {t} : j[s].earliest = table[s].earliest
           /\ t \in DOMAIN table =>
                  j[t].earliest = IF table[t].earliest > h THEN h ELSE table[t].earliest
           /\ t \notin DOMAIN table => j[t].earliest = h
  <1>1. \A s \in DOMAIN table : table[s] \in Entry
    BY DEF IsTable
  <1>2. CASE t \in DOMAIN table
    BY <1>1, <1>2 DEF Join, Set, Entry
  <1>3. CASE t \notin DOMAIN table
    BY <1>3 DEF Join, Set
  <1> QED
    BY <1>2, <1>3

(* Leave opens, closes and moves no channel that stays.                           *)
LEMMA LeaveKeeps ==
    ASSUME NEW table, IsTable(table, Txs), NEW t \in DOMAIN table,
           NEW l, l = Leave(table, t)
    PROVE  \A s \in DOMAIN l : /\ s \in DOMAIN table
                               /\ (l[s].closed <=> table[s].closed)
                               /\ l[s].earliest = table[s].earliest
  <1>1. \A s \in DOMAIN table : table[s] \in Entry
    BY DEF IsTable
  <1> QED
    BY <1>1 DEF Leave, Set, Delete, Entry

(* Closing and aborting open no channel and keep earliestBlock; closing closes    *)
(* the channels it is asked to.                                                   *)
LEMMA CloseKeeps ==
    ASSUME NEW table, IsTable(table, Txs), NEW txs, NEW h \in Nat
    PROVE  /\ \A t \in DOMAIN table :
                  /\ table[t].closed => CloseAll(table, txs)[t].closed
                  /\ t \in txs => CloseAll(table, txs)[t].closed
                  /\ CloseAll(table, txs)[t].earliest = table[t].earliest
           /\ \A t \in DOMAIN table :
                  /\ table[t].closed => AbortNext(table, h)[t].closed
                  /\ AbortNext(table, h)[t].earliest = table[t].earliest
  <1>1. \A s \in DOMAIN table : table[s] \in Entry
    BY DEF IsTable
  <1> QED
    BY <1>1 DEF CloseAll, AbortNext, Entry

(* findCoin becomes a listener: if the coin got into coinCache since it was       *)
(* looked up there, seen has not changed only because its BlockSeen has yet to    *)
(* change it.                                                                     *)
LEMMA RegisterWakeups ==
    ASSUME Inv, WakeupsOK, NEW p \in Procs, Register(p)
    PROVE  WakeupsOK'
  <1> USE DEF Inv
  <1>1. CASE ~Current(p)
    <2>1. /\ pc'[p] = "find" /\ pc[p] = "register"
          /\ UNCHANGED <<coinCache, waiter, listening, moved, block, cur>>
          /\ \A q \in Procs \ {p} : pc'[q] = pc[q]
      BY <1>1 DEF Register, TypeOK
    <2>2. \A q \in Procs : pc[q] = "leave" => cur[q] \in listening[q]
      BY DEF LocalOK
    <2> QED
      BY <2>1, <2>2, WakeupsFrame
  <1>2. CASE Current(p)
    <2>1. PICK c \in Coins : c = cur[p]
      BY DEF Register, TypeOK, LocalOK, Looking
    <2>2. PICK t \in Txs : t = TxOf[c]
      BY CoinShape
    <2>3. PICK h \in Nat : h = Height[block[p]]
      BY TreeShape DEF Register, LocalOK
    <2>4. /\ pc[p] = "register" /\ p \notin moved /\ pc'[p] \in {"find", "await"}
          /\ waiter' = Join(waiter, t, h)
          /\ listening' = [listening EXCEPT ![p] = @ \cup {c}]
          /\ UNCHANGED <<coinCache, moved, block>>
          /\ \A q \in Procs \ {p} : pc'[q] = pc[q] /\ cur'[q] = cur[q]
      BY <1>2, <2>1, <2>2, <2>3 DEF Register, Current, ProceedWith, TypeOK
    <2> HIDE DEF Register
    <2>5. IsTable(waiter, Txs)
      BY DEF TypeOK
    <2>6. DOMAIN waiter' = DOMAIN waiter \cup {t}
          /\ \A s \in DOMAIN waiter : waiter'[s].closed <=> waiter[s].closed
      <3>0. waiter' = Join(waiter, t, h)
        BY <2>4
      <3>1. DOMAIN waiter' = DOMAIN waiter \cup {t} /\ IsTable(waiter', Txs)
        BY <2>5, <3>0, JoinDomain
      <3>2. \A s \in DOMAIN waiter : waiter'[s].closed <=> waiter[s].closed
        BY <2>4, <2>5, JoinKeeps, Zenon
      <3> QED
        BY <3>1, <3>2, Zenon
    <2>7. ASSUME NEW q \in Procs PROVE WakeOK(q)'
      <3>1. ASSUME pc'[q] = "leave" PROVE waiter'[TxOf[cur'[q]]].closed
        <4>1. q # p /\ pc[q] = "leave" /\ cur'[q] = cur[q] /\ cur[q] \in listening[q]
          BY <2>4, <3>1 DEF LocalOK
        <4> QED
          BY <2>6, <4>1, ListenerHasEntry DEF WakeupsOK, WakeOK
      <3>2. ASSUME pc'[q] = "register", cur'[q] \in coinCache', q \notin moved'
            PROVE  \E r \in Procs : pc'[r] = "count" /\ cur'[q] \in Creates[block'[r]]
        <4>1. q # p /\ pc[q] = "register" /\ cur'[q] = cur[q]
          BY <2>4, <3>2
        <4>2. PICK r \in Procs : pc[r] = "count" /\ cur[q] \in Creates[block[r]]
          BY <2>4, <3>2, <4>1 DEF WakeupsOK, WakeOK
        <4> QED
          BY <2>4, <4>1, <4>2
      <3> QED
        BY <3>1, <3>2 DEF WakeOK
    <2>8. ASSUME NEW s \in DOMAIN waiter', ~waiter'[s].closed
          PROVE  /\ \E w \in Waits(s)' : Height[block'[w[1]]] = waiter'[s].earliest
                 /\ \A w \in Waits(s)' : Height[block'[w[1]]] >= waiter'[s].earliest
      <3>1. s \in Txs
        BY <2>5, <2>6 DEF IsTable
      <3>2. Waits(s)' = IF s = t THEN Waits(s) \cup {<<p, c>>} ELSE Waits(s)
        BY <2>2, <2>4, <3>1, WaitsAfterJoin DEF TypeOK
      <3>3. CASE s # t
        <4>1. s \in DOMAIN waiter /\ waiter'[s].earliest = waiter[s].earliest
          BY <2>4, <2>5, <2>6, <3>3, JoinKeeps
        <4> QED
          BY <2>4, <2>6, <2>8, <3>2, <3>3, <4>1 DEF WakeupsOK, EarliestIsLowest
      <3>4. CASE s = t /\ t \notin DOMAIN waiter
        <4>1. Waits(s)' = {<<p, c>>} /\ waiter'[s].earliest = h
          BY <2>4, <2>5, <3>2, <3>4, JoinKeeps DEF ListenersExact
        <4> QED
          BY <2>3, <2>4, <4>1
      <3>5. CASE s = t /\ t \in DOMAIN waiter
        <4>1. PICK e \in Nat : e = waiter[t].earliest
          BY <2>5, <3>5 DEF IsTable, Entry
        <4>2. waiter'[t].earliest = IF e > h THEN h ELSE e
          BY <2>4, <2>5, <3>5, <4>1, JoinKeeps
        <4>3. /\ \E w \in Waits(t) : Height[block[w[1]]] = e
              /\ \A w \in Waits(t) : Height[block[w[1]]] >= e
          BY <2>6, <2>8, <3>5, <4>1 DEF WakeupsOK, EarliestIsLowest
        <4>4. \A w \in Waits(t) : Height[block[w[1]]] \in Nat
          <5>1. ASSUME NEW w \in Waits(t) PROVE Height[block[w[1]]] \in Nat
            <6>1. w[1] \in Procs /\ w[2] \in listening[w[1]]
              BY DEF Waits
            <6>2. block[w[1]] \in Blocks
              BY <6>1, ListenerHasEntry DEF LocalOK, Looking
            <6> QED
              BY <6>2, TreeShape
          <5> QED
            BY <5>1
        <4>5. Waits(s)' = Waits(t) \cup {<<p, c>>} /\ block' = block
          BY <2>4, <3>2, <3>5
        <4>6. Height[block[<<p, c>>[1]]] = h
          BY <2>3
        <4>7. CASE e > h
          <5>1. \A w \in Waits(s)' : Height[block[w[1]]] >= h
            BY <4>3, <4>4, <4>5, <4>6, <4>7
          <5>2. <<p, c>> \in Waits(s)'
            BY <4>5
          <5> QED
            BY <3>5, <4>2, <4>5, <4>6, <4>7, <5>1, <5>2
        <4>8. CASE ~(e > h)
          <5>1. \A w \in Waits(s)' : Height[block[w[1]]] >= e
            BY <4>3, <4>5, <4>6, <4>8
          <5>2. \E w \in Waits(s)' : Height[block[w[1]]] = e
            BY <4>3, <4>5
          <5> QED
            BY <3>5, <4>2, <4>5, <4>8, <5>1, <5>2
        <4> QED
          BY <4>7, <4>8
      <3> QED
        BY <3>3, <3>4, <3>5
    <2>9. ASSUME NEW q \in Procs, NEW d \in listening'[q] \cap coinCache',
                 ~waiter'[TxOf[d]].closed
          PROVE  \E r \in Procs : pc'[r] \in {"count", "close"} /\ d \in Creates[block'[r]]
      <3>1. CASE q = p /\ d = c
        <4>1. PICK r \in Procs : pc[r] = "count" /\ c \in Creates[block[r]]
          BY <2>1, <2>4, <2>9, <3>1 DEF WakeupsOK, WakeOK
        <4> QED
          BY <2>4, <3>1, <4>1
      <3>2. CASE ~(q = p /\ d = c)
        <4>1. d \in listening[q] /\ d \in coinCache
          BY <2>4, <2>9, <3>2 DEF TypeOK
        <4>2. ~waiter[TxOf[d]].closed
          BY <2>6, <2>9, <4>1, ListenerHasEntry
        <4>3. PICK r \in Procs : pc[r] \in {"count", "close"} /\ d \in Creates[block[r]]
          BY <4>1, <4>2 DEF WakeupsOK, NoLostWakeup
        <4> QED
          BY <2>4, <4>3
      <3> QED
        BY <3>1, <3>2
    <2> QED
      BY <2>7, <2>8, <2>9 DEF WakeupsOK, EarliestIsLowest, NoLostWakeup
  <1> QED
    BY <1>1, <1>2

(* findCoins gives up a listener of a closed channel: the open ones, and those of *)
(* other listeners, stay as they are.                                             *)
LEMMA StopListeningWakeups ==
    ASSUME Inv, WakeupsOK, NEW p \in Procs, StopListening(p)
    PROVE  WakeupsOK'
  <1>i. Inv'
    BY StopListeningInv
  <1> USE DEF Inv
  <1>1. PICK c \in Coins : c = cur[p] /\ c \in listening[p]
    BY ListenerHasEntry DEF StopListening, LocalOK
  <1>2. PICK t \in Txs : t = TxOf[c]
    BY CoinShape
  <1>3. t \in DOMAIN waiter /\ waiter[t].closed
    BY <1>1, <1>2, ListenerHasEntry DEF StopListening, WakeupsOK, WakeOK
  <1>4. /\ pc[p] = "leave" /\ pc'[p] \in {"await", "deliver", "header"}
        /\ waiter' = Leave(waiter, t)
        /\ listening' = [listening EXCEPT ![p] = @ \ {c}]
        /\ UNCHANGED <<coinCache, moved, block>>
        /\ \A q \in Procs \ {p} : pc'[q] = pc[q] /\ cur'[q] = cur[q]
    BY <1>1, <1>2, <1>3 DEF StopListening, TypeOK
  <1>5. IsTable(waiter, Txs)
    BY DEF TypeOK
  <1>6. \A s \in DOMAIN waiter' : /\ s \in DOMAIN waiter
                                  /\ waiter'[s].closed <=> waiter[s].closed
                                  /\ waiter'[s].earliest = waiter[s].earliest
    BY <1>3, <1>4, <1>5, LeaveKeeps
  <1>7. \A q \in Procs : \A d \in listening'[q] : d \in listening[q] /\ d \in Coins
    BY <1>4 DEF TypeOK
  <1>8. \A q \in Procs : \A d \in listening'[q] : TxOf[d] \in DOMAIN waiter'
    <2>1. ASSUME NEW q \in Procs, NEW d \in listening'[q] PROVE TxOf[d] \in DOMAIN waiter'
      <3>1. <<q, d>> \in Waits(TxOf[d])' /\ TxOf[d] \in Txs
        BY <1>7, CoinShape DEF Waits
      <3> QED
        BY <1>i, <3>1 DEF ListenersExact
    <2> QED
      BY <2>1
  <1>9. ASSUME NEW q \in Procs PROVE WakeOK(q)'
    <2>1. ASSUME pc'[q] = "leave" PROVE waiter'[TxOf[cur'[q]]].closed
      <3>1. q # p /\ pc[q] = "leave" /\ cur'[q] = cur[q] /\ waiter[TxOf[cur[q]]].closed
        BY <1>4, <2>1 DEF WakeupsOK, WakeOK
      <3>2. cur[q] \in listening'[q]
        BY <1>4, <3>1 DEF LocalOK, TypeOK
      <3> QED
        BY <1>6, <1>8, <3>1, <3>2
    <2>2. ASSUME pc'[q] = "register", cur'[q] \in coinCache', q \notin moved'
          PROVE  \E r \in Procs : pc'[r] = "count" /\ cur'[q] \in Creates[block'[r]]
      <3>1. q # p /\ pc[q] = "register" /\ cur'[q] = cur[q]
        BY <1>4, <2>2
      <3>2. PICK r \in Procs : pc[r] = "count" /\ cur[q] \in Creates[block[r]]
        BY <1>4, <2>2, <3>1 DEF WakeupsOK, WakeOK
      <3> QED
        BY <1>4, <3>1, <3>2
    <2> QED
      BY <2>1, <2>2 DEF WakeOK
  <1>10. ASSUME NEW s \in DOMAIN waiter', ~waiter'[s].closed
         PROVE  /\ \E w \in Waits(s)' : Height[block'[w[1]]] = waiter'[s].earliest
                /\ \A w \in Waits(s)' : Height[block'[w[1]]] >= waiter'[s].earliest
    <2>1. s \in DOMAIN waiter /\ ~waiter[s].closed /\ waiter'[s].earliest = waiter[s].earliest
      BY <1>6, <1>10
    <2>2. s \in Txs /\ s # t
      BY <1>3, <1>5, <2>1 DEF IsTable
    <2>3. Waits(s)' = Waits(s)
      BY <1>2, <1>4, <2>2, WaitsAfterLeave DEF TypeOK
    <2> QED
      BY <1>4, <2>1, <2>3 DEF WakeupsOK, EarliestIsLowest
  <1>11. ASSUME NEW q \in Procs, NEW d \in listening'[q] \cap coinCache',
                ~waiter'[TxOf[d]].closed
         PROVE  \E r \in Procs : pc'[r] \in {"count", "close"} /\ d \in Creates[block'[r]]
    <2>1. d \in listening[q] \cap coinCache /\ ~waiter[TxOf[d]].closed
      BY <1>4, <1>6, <1>7, <1>8, <1>11
    <2>2. PICK r \in Procs : pc[r] \in {"count", "close"} /\ d \in Creates[block[r]]
      BY <2>1 DEF WakeupsOK, NoLostWakeup
    <2> QED
      BY <1>4, <2>2
  <1> QED
    BY <1>9, <1>10, <1>11 DEF WakeupsOK, EarliestIsLowest, NoLostWakeup

(* BlockSeen puts coins into coinCache before it counts the block and closes the  *)
(* channels of its transactions.                                                  *)
LEMMA LoadCacheWakeups ==
    ASSUME Inv, WakeupsOK, NEW p \in Procs, LoadCache(p)
    PROVE  WakeupsOK'
  <1>1. /\ pc[p] = "load" /\ pc'[p] = "count"
        /\ coinCache' = coinCache \cup Creates[block[p]]
        /\ UNCHANGED <<waiter, moved, block, listening, cur>>
        /\ \A q \in Procs \ {p} : pc'[q] = pc[q]
    BY DEF LoadCache, Inv, TypeOK, lookup
  <1> HIDE DEF LoadCache
  <1>2. ASSUME NEW q \in Procs PROVE WakeOK(q)'
    BY <1>1 DEF WakeupsOK, WakeOK
  <1>3. EarliestIsLowest'
    BY <1>1 DEF WakeupsOK, EarliestIsLowest, Waits
  <1>4. NoLostWakeup'
    BY <1>1 DEF WakeupsOK, NoLostWakeup
  <1> QED
    BY <1>2, <1>3, <1>4 DEF WakeupsOK

(* Counting the block makes everyone look again who has not registered yet.       *)
LEMMA CountSeenWakeups ==
    ASSUME Inv, WakeupsOK, NEW p \in Procs, CountSeen(p)
    PROVE  WakeupsOK'
  <1>1. /\ pc[p] = "count" /\ pc'[p] = "close" /\ moved' = Procs
        /\ UNCHANGED <<waiter, coinCache, block, listening, cur>>
        /\ \A q \in Procs \ {p} : pc'[q] = pc[q]
    BY DEF CountSeen, Inv, TypeOK, lookup
  <1> HIDE DEF CountSeen
  <1>2. ASSUME NEW q \in Procs PROVE WakeOK(q)'
    BY <1>1 DEF WakeupsOK, WakeOK
  <1>3. EarliestIsLowest'
    BY <1>1 DEF WakeupsOK, EarliestIsLowest, Waits
  <1>4. NoLostWakeup'
    BY <1>1 DEF WakeupsOK, NoLostWakeup
  <1> QED
    BY <1>2, <1>3, <1>4 DEF WakeupsOK

(* Closing the channels wakes everyone who waits for a transaction of the block.  *)
LEMMA CloseChannelsWakeups ==
    ASSUME Inv, WakeupsOK, NEW p \in Procs, CloseChannels(p)
    PROVE  WakeupsOK'
  <1>1. /\ pc[p] = "close" /\ pc'[p] = "deliver" /\ block[p] \in Blocks
        /\ waiter' = CloseAll(waiter, TxsIn(block[p]))
        /\ UNCHANGED <<coinCache, moved, block, listening, cur>>
        /\ \A q \in Procs \ {p} : pc'[q] = pc[q]
    BY DEF CloseChannels, Inv, TypeOK, LocalOK, lookup
  <1> HIDE DEF CloseChannels
  <1>2. IsTable(waiter, Txs) /\ 0 \in Nat
    BY DEF Inv, TypeOK
  <1>3. DOMAIN waiter' = DOMAIN waiter
    BY <1>1, <1>2, CloseFacts
  <1>4. \A t \in DOMAIN waiter : /\ waiter[t].closed => waiter'[t].closed
                                 /\ t \in TxsIn(block[p]) => waiter'[t].closed
                                 /\ waiter'[t].earliest = waiter[t].earliest
    BY <1>1, <1>2, CloseKeeps
  <1>5. ASSUME NEW q \in Procs PROVE WakeOK(q)'
    <2>1. pc[q] = "leave" => TxOf[cur[q]] \in DOMAIN waiter
      BY ListenerHasEntry DEF Inv, LocalOK
    <2> QED
      BY <1>1, <1>4, <2>1 DEF WakeupsOK, WakeOK
  <1>6. EarliestIsLowest'
    <2>1. \A t : Waits(t)' = Waits(t)
      BY <1>1 DEF Waits
    <2> QED
      BY <1>1, <1>3, <1>4, <2>1 DEF WakeupsOK, EarliestIsLowest
  <1>7. ASSUME NEW q \in Procs, NEW d \in listening'[q] \cap coinCache',
               ~waiter'[TxOf[d]].closed
        PROVE  \E r \in Procs : pc'[r] \in {"count", "close"} /\ d \in Creates[block'[r]]
    <2>1. d \in listening[q] \cap coinCache /\ TxOf[d] \in DOMAIN waiter
      BY <1>1, <1>7, ListenerHasEntry
    <2>2. ~waiter[TxOf[d]].closed /\ TxOf[d] \notin TxsIn(block[p])
      BY <1>4, <1>7, <2>1
    <2>3. d \notin Creates[block[p]]
      BY <2>2 DEF TxsIn
    <2>4. PICK r \in Procs : pc[r] \in {"count", "close"} /\ d \in Creates[block[r]]
      BY <2>1, <2>2 DEF WakeupsOK, NoLostWakeup
    <2> QED
      BY <1>1, <2>3, <2>4
  <1> QED
    BY <1>5, <1>6, <1>7 DEF WakeupsOK, NoLostWakeup

(* The steps of the syncer open no channel and lose no BlockSeen.                 *)
LEMMA SyncerWakeups ==
    ASSUME Inv, WakeupsOK,
           \/ NodeAdvance \/ SequencerStep \/ StartRange \/ AtTip \/ UNCHANGED vars
           \/ \E f \in Fetchers : FetcherStep(f)
    PROVE  WakeupsOK'
  <1> USE DEF shared, local, lookup
  <1>l. \A q \in Procs : /\ pc[q] = "leave" => cur[q] \in listening[q]
                         /\ pc[q] \in {"idle", "deliver"} => listening[q] = {}
    BY DEF Inv, LocalOK, Looking
  <1>1. CASE \/ NodeAdvance \/ StartRange \/ AtTip \/ UNCHANGED vars
             \/ ProcessCached \/ WaitForResults
    <2>1. UNCHANGED <<coinCache, waiter, moved, pc, block, listening, cur>>
      BY <1>1 DEF NodeAdvance, StartRange, AtTip, vars, ProcessCached, WaitForResults
    <2> QED
      BY <1>l, <2>1, WakeupsFrame
  <1>2. CASE CleanCache
    <2>1. /\ UNCHANGED <<waiter, moved, pc, block, listening, cur>>
          /\ coinCache' \subseteq coinCache
      BY <1>2 DEF CleanCache
    <2> QED
      BY <1>l, <2>1, WakeupsFrame
  <1>3. CASE AbortWaits
    <2>1. UNCHANGED <<coinCache, moved, pc, block, listening, cur>>
      BY <1>3 DEF AbortWaits
    <2>2. PICK h \in Nat : h = Height[head] + 1
      BY <1>3, TreeShape DEF AbortWaits, Inv, TypeOK, SequencerOK
    <2>3. IsTable(waiter, Txs) /\ waiter' = AbortNext(waiter, h)
      BY <1>3, <2>2 DEF AbortWaits, Inv, TypeOK
    <2>4. /\ DOMAIN waiter' = DOMAIN waiter
          /\ \A t \in DOMAIN waiter : /\ waiter[t].closed => waiter'[t].closed
                                      /\ waiter'[t].earliest = waiter[t].earliest
      BY <2>2, <2>3, CloseFacts, CloseKeeps
    <2> QED
      BY <1>l, <2>1, <2>4, WakeupsFrame
  <1>4. ASSUME NEW p \in Procs, pc[p] \in {"idle", "deliver"}, pc'[p] \in {"idle", "rawBlock"},
               \A q \in Procs \ {p} : pc'[q] = pc[q] /\ block'[q] = block[q],
               UNCHANGED <<coinCache, waiter, moved, listening, cur>>
        PROVE  WakeupsOK'
    BY <1>4, <1>l, WakeupsFrame
  <1>5. ASSUME NEW f \in Fetchers, FetcherStep(f) PROVE WakeupsOK'
    <2>1. f \in Procs
      BY DEF Procs
    <2> QED
      BY <1>4, <1>5, <2>1 DEF FetcherStep, TakeIndex, Deliver, Forget, Inv, TypeOK
  <1>6. CASE Refetch
    <2>1. Sequencer \in Procs /\ pc[Sequencer] = "idle"
      BY <1>6 DEF Procs, Refetch, Inv, SequencerOK
    <2> QED
      BY <1>4, <1>6, <2>1 DEF Refetch, Inv, TypeOK
  <1>7. CASE ProcessRefetched
    <2>1. Sequencer \in Procs
      BY DEF Procs
    <2> QED
      BY <1>4, <1>7, <2>1 DEF ProcessRefetched, Forget, Inv, TypeOK
  <1> QED
    BY <1>1, <1>2, <1>3, <1>5, <1>6, <1>7 DEF SequencerStep

(* Every step keeps the wakeups.                                                  *)
LEMMA NextWakeups == ASSUME Inv, WakeupsOK, [Next]_vars PROVE WakeupsOK'
  <1>1. ASSUME NEW p \in Procs, ProcStep(p) PROVE WakeupsOK'
    BY <1>1, BlockWakeups, RegisterWakeups, StopListeningWakeups, LoadCacheWakeups,
       CountSeenWakeups, CloseChannelsWakeups DEF ProcStep
  <1>2. CASE Restart
    <2>1. /\ DOMAIN waiter' = {} /\ coinCache' = {}
          /\ \A p \in Procs : pc'[p] = "idle" /\ listening'[p] = {}
      BY <1>2 DEF Restart, EmptyTable
    <2> QED
      BY <2>1 DEF WakeupsOK, WakeOK, EarliestIsLowest, NoLostWakeup
  <1> QED
    BY <1>1, <1>2, SyncerWakeups DEF Next

--------------------------------------------------------------------------------
(* The theorems                                                                   *)

(* The process starts with nothing fetched, nobody waiting and storage empty.     *)
LEMMA PipelineInit == Init => PipelineInv /\ Promise!LedgerInit
  <1> SUFFICES ASSUME Init PROVE PipelineInv /\ Promise!LedgerInit
    OBVIOUS
  <1>1. Inv
    BY InitInv
  <1>2. /\ DOMAIN fetched = {} /\ DOMAIN waiter = {} /\ best \in Blocks
        /\ \A p \in Procs : pc[p] = "idle" /\ listening[p] = {} /\ orphan[p] = FALSE
    BY DEF Init, EmptyTable
  <1>3. endIndex = -1 /\ nextFetch = 0 /\ reorgStart = -1 /\ seqPc = "recv" /\ head = NoBlock
    BY DEF Init
  <1>4. RangeOK
    BY <1>2, <1>3, TreeShape DEF RangeOK, nextIndex, Procs
  <1>5. OrphansOK
    BY <1>2 DEF OrphansOK, OrphanOK
  <1>6. WakeupsOK
    BY <1>2 DEF WakeupsOK, WakeOK, EarliestIsLowest, NoLostWakeup
  <1> QED
    BY <1>1, <1>4, <1>5, <1>6 DEF PipelineInv, Init, Promise!LedgerInit

(* Every step keeps the invariant.                                                *)
LEMMA PipelineNext == PipelineInv /\ [Next]_vars => PipelineInv'
  BY NextInv, NextRange, NextOrphans, NextWakeups DEF PipelineInv

(* The invariant of heights, orphans and wakeups holds in every reachable state,  *)
(* for every block tree, any number of fetchers and restarts.                     *)
THEOREM PipelineInvariance == Spec => []PipelineInv
  BY PipelineInit, PipelineNext, PTL DEF Spec

(* No result can be applied to a chain that has passed its height: everything     *)
(* that is being fetched, or was fetched and kept, is ahead of the head.          *)
THEOREM FetchesStayAhead == Spec => []FetchesAreAhead
  <1>1. PipelineInv => FetchesAreAhead
    BY DEF PipelineInv, RangeOK, Ahead, FetchesAreAhead
  <1> QED
    BY <1>1, PipelineInvariance, PTL

(* earliestBlock of an open channel is the lowest height that waits for it, so    *)
(* BlockAdded aborts exactly the waits of the block after the one it added.       *)
THEOREM EarliestCorrect == Spec => []EarliestIsLowest
  <1>1. PipelineInv => EarliestIsLowest
    BY DEF PipelineInv, WakeupsOK
  <1> QED
    BY <1>1, PipelineInvariance, PTL

(* No wakeup is lost between findCoin's look into coinCache and its registration  *)
(* in the wait table.                                                             *)
THEOREM WakeupsArrive == Spec => []NoLostWakeup
  <1>1. PipelineInv => NoLostWakeup
    BY DEF PipelineInv, WakeupsOK
  <1> QED
    BY <1>1, PipelineInvariance, PTL

(* The sync pipeline implements the ledger: storage changes by connecting one     *)
(* block to the head, or by disconnecting it, and never loses genesis.            *)
THEOREM PipelineFollowsLedger == Spec => FollowsLedger
  <1>1. PipelineInv /\ [Next]_vars => [Promise!LedgerNext]_<<head, coins>>
    BY NextFollows DEF PipelineInv
  <1> QED
    BY <1>1, PipelineInit, PipelineInvariance, PTL DEF Spec, FollowsLedger, Promise!LedgerSpec

--------------------------------------------------------------------------------
(* A chain without forks, of any length and with any coins: facts about it        *)

(* A lower block is an ancestor.                                                  *)
LEMMA LinearBranch ==
    ASSUME NoForks, NEW a \in Blocks, NEW b \in Blocks, Height[a] <= Height[b]
    PROVE  a \in Branch[b]
  <1>1. Height[a] \in Nat /\ Height[b] \in Nat
    BY TreeShape
  <1>2. PICK d \in Branch[b] : Height[d] = Height[a]
    BY <1>1, BranchShape
  <1>3. d \in Blocks
    BY <1>2, BranchShape
  <1> QED
    BY <1>2, <1>3 DEF NoForks

(* The block after a extends a.                                                   *)
LEMMA LinearParent ==
    ASSUME NoForks, NEW a \in Blocks, NEW b \in Blocks, Height[b] = Height[a] + 1
    PROVE  b # Genesis /\ Parent[b] = a
  <1>1. Height[a] \in Nat /\ b # Genesis
    BY TreeShape
  <1>2. Parent[b] \in Blocks /\ Height[Parent[b]] \in Nat /\ Height[b] = Height[Parent[b]] + 1
    BY <1>1, TreeShape
  <1>3. Height[Parent[b]] = Height[a]
    BY <1>1, <1>2
  <1> QED
    BY <1>1, <1>2, <1>3 DEF NoForks

(* No two blocks create the same coin.                                            *)
LEMMA LinearCreates ==
    ASSUME NoForks, NEW a \in Blocks, NEW b \in Blocks, a # b
    PROVE  Creates[a] \cap Creates[b] = {}
  <1>1. Height[a] \in Nat /\ Height[b] \in Nat
    BY TreeShape
  <1>2. a \in Branch[b] \/ b \in Branch[a]
    BY <1>1, LinearBranch
  <1> QED
    BY <1>2, CoinShape

(* What a block needs was created below it.                                       *)
LEMMA NeededIsBelow ==
    ASSUME NEW b \in Blocks, NEW c \in Needs(b)
    PROVE  b # Genesis /\ \E a \in Blocks : c \in Creates[a] /\ Height[a] < Height[b]
  <1>1. b # Genesis
    BY NoDoubleSpend DEF Needs
  <1>2. /\ Parent[b] \in Blocks /\ Height[Parent[b]] \in Nat
        /\ Height[b] = Height[Parent[b]] + 1
    BY <1>1, TreeShape
  <1>3. PICK a \in Branch[Parent[b]] : c \in Creates[a]
    BY <1>1, NoDoubleSpend DEF Utxo
  <1>4. a \in Blocks /\ Height[a] \in Nat /\ (a = Parent[b] \/ Height[a] < Height[Parent[b]])
    BY <1>2, BranchShape, TreeShape
  <1> QED
    BY <1>1, <1>2, <1>3, <1>4

(* What a later block needs and storage does not have was created above the head. *)
LEMMA MissingIsAbove ==
    ASSUME NoForks, NEW b \in Blocks, NEW h \in Blocks, Height[h] < Height[b],
           NEW c \in Needs(b), c \notin Utxo(h), NEW a \in Blocks, c \in Creates[a]
    PROVE  Height[h] < Height[a]
  <1>1. Height[h] \in Nat /\ Height[a] \in Nat
    BY TreeShape
  <1>2. b # Genesis /\ c \in Utxo(Parent[b])
    BY NeededIsBelow, NoDoubleSpend
  <1>3. /\ Parent[b] \in Blocks /\ Height[Parent[b]] \in Nat
        /\ Height[b] = Height[Parent[b]] + 1
    BY <1>2, TreeShape
  <1>4. h \in Branch[Parent[b]]
    BY <1>1, <1>3, LinearBranch
  <1>5. Branch[h] \subseteq Branch[Parent[b]]
    BY <1>3, <1>4, BranchShape
  <1>6. \A d \in Branch[h] : c \notin Spends[d] /\ c \in Coins
    BY <1>2, <1>5 DEF Utxo
  <1>7. a \notin Branch[h]
    BY <1>6, BranchShape DEF Utxo
  <1> QED
    BY <1>1, <1>7, LinearBranch

--------------------------------------------------------------------------------
(* What is left when a range is done                                              *)

(* Nobody fetches, so nobody listens, nothing is kept and nothing is cached.      *)
LEMMA DoneIsClean ==
    ASSUME LinearInv, RangeDone
    PROVE  waiter = EmptyTable /\ coinCache = {} /\ fetched = EmptyTable
  <1> USE DEF LinearInv, PipelineInv
  <1>1. \A p \in Procs : pc[p] = "idle"
    BY DEF RangeDone, NoOrphans, Procs
  <1>2. \A p \in Procs : listening[p] = {}
    BY <1>1 DEF Inv, LocalOK, Looking
  <1>3. DOMAIN waiter = {}
    <2>1. \A t \in Txs : Waits(t) = {}
      BY <1>2 DEF Waits
    <2> QED
      BY <2>1 DEF Inv, TypeOK, IsTable, ListenersExact
  <1>4. DOMAIN fetched = {}
    <2>1. nextIndex \in Nat /\ endIndex \in Int /\ nextFetch \in Nat
      BY TreeShape DEF nextIndex, Inv, TypeOK
    <2>2. endIndex < nextIndex
      <3>1. ASSUME nextIndex <= endIndex PROVE FALSE
        <4>1. nextIndex \in nextIndex .. endIndex /\ nextIndex < nextFetch
          BY <2>1, <3>1 DEF RangeDone
        <4>2. nextIndex \in DOMAIN fetched
          BY <1>1, <2>1, <4>1 DEF RangeIsCovered, Procs
        <4> QED
          BY <3>1, <4>2 DEF RangeIsCovered, RangeDone
      <3> QED
        BY <2>1, <3>1
    <2>3. \A h \in DOMAIN fetched : h \in Nat /\ nextIndex <= h /\ h <= endIndex
      BY DEF RangeOK, Ahead, Inv, TypeOK
    <2>4. ASSUME NEW h \in DOMAIN fetched PROVE FALSE
      BY <2>1, <2>2, <2>3
    <2> QED
      BY <2>4
  <1>5. coinCache = {}
    BY <1>1, <1>4 DEF CacheIsExact, Loaded, RangeDone
  <1>6. waiter = EmptyTable
    BY <1>3 DEF Inv, TypeOK, IsTable, EmptyTable
  <1>7. fetched = EmptyTable
    BY <1>4 DEF Inv, TypeOK, EmptyTable
  <1> QED
    BY <1>5, <1>6, <1>7

--------------------------------------------------------------------------------
(* Steps that do not touch the part of the state an invariant is about            *)

(* No wait starts, no channel opens and nobody gets further in BlockSeen.         *)
LEMMA JustifiedFrame ==
    ASSUME WaitsAreJustified, UNCHANGED <<head, fetched>>,
           \A q \in Procs : \A c \in listening'[q] :
               ~waiter'[TxOf[c]].closed => c \in listening[q] /\ ~waiter[TxOf[c]].closed,
           \A q \in Procs : pc'[q] \in {"close", "deliver"} =>
               pc'[q] = pc[q] /\ block'[q] = block[q],
           \A q \in Procs : pc'[q] = "register" =>
               \/ /\ pc[q] = "register" /\ cur'[q] = cur[q] /\ snap'[q] = snap[q]
                  /\ q \notin moved' => q \notin moved
               \/ NotSeen(cur'[q], {"close", "deliver"}),
           \A q \in Procs : pc'[q] \in {"cache", "register"} =>
               \/ pc[q] \in {"cache", "register"} /\ snap'[q] = snap[q]
               \/ Height[snap'[q]] < nextIndex
    PROVE  WaitsAreJustified'
  <1>1. ASSUME NEW c, NEW late \in SUBSET {"close", "deliver"}, NotSeen(c, late)
        PROVE  NotSeen(c, late)'
    BY <1>1 DEF NotSeen
  <1>2. nextIndex' = nextIndex
    BY DEF nextIndex
  <1>3. ASSUME NEW p \in Procs, NEW c \in listening'[p], ~waiter'[TxOf[c]].closed
        PROVE  /\ NotSeen(c, {"deliver"})'
               /\ \A a \in Blocks : c \in Creates[a] => Height[a] >= nextIndex'
    BY <1>1, <1>2, <1>3 DEF WaitsAreJustified
  <1>4. ASSUME NEW p \in Procs, pc'[p] = "register", Current(p)'
        PROVE  NotSeen(cur[p], {"close", "deliver"})'
    <2>1. PICK c : c = cur'[p]
      OBVIOUS
    <2>2. NotSeen(c, {"close", "deliver"})
      BY <1>4, <2>1 DEF WaitsAreJustified, Current
    <2>3. NotSeen(c, {"close", "deliver"})'
      BY <1>1, <2>2
    <2> QED
      BY <2>1, <2>3 DEF NotSeen
  <1>5. ASSUME NEW p \in Procs, pc'[p] \in {"cache", "register"}
        PROVE  Height[snap'[p]] < nextIndex'
    BY <1>2, <1>5 DEF WaitsAreJustified
  <1> QED
    BY <1>3, <1>4, <1>5 DEF WaitsAreJustified

(* The cache, the results and who has loaded its coins stay.                      *)
LEMMA CacheFrame ==
    ASSUME CacheIsExact, UNCHANGED <<coinCache, fetched, head>>,
           seqPc = "clean" => seqPc' = "clean",
           \A q \in Procs : /\ pc'[q] \in Loaded <=> pc[q] \in Loaded
                            /\ pc[q] \in Loaded => block'[q] = block[q]
    PROVE  CacheIsExact'
  BY DEF CacheIsExact, SeenCoinsAreCached

(* The heights that are being fetched stay.                                       *)
LEMMA CoveredFrame ==
    ASSUME RangeIsCovered, UNCHANGED <<head, endIndex, nextFetch, fetched, index>>,
           \A f \in Fetchers : pc[f] # "idle" => pc'[f] # "idle",
           seqPc' = "recv" => seqPc = "recv" \/ nextIndex > endIndex \/ nextIndex \notin DOMAIN fetched,
           Inv
    PROVE  RangeIsCovered'
  <1>1. nextIndex' = nextIndex /\ nextIndex \in Nat /\ endIndex \in Int
    BY TreeShape DEF nextIndex, Inv, TypeOK
  <1> QED
    BY <1>1 DEF RangeIsCovered

--------------------------------------------------------------------------------
(* No orphans                                                                     *)

(* Joining, leaving and closing abort no wait.                                    *)
LEMMA NoAbort ==
    ASSUME NEW table, IsTable(table, Txs), \A s \in DOMAIN table : ~table[s].aborted,
           NEW t \in Txs, NEW h \in Nat, NEW txs, NEW new,
           \/ new = Join(table, t, h)
           \/ t \in DOMAIN table /\ new = Leave(table, t)
           \/ new = CloseAll(table, txs)
    PROVE  \A s \in DOMAIN new : ~new[s].aborted
  <1>1. \A s \in DOMAIN table : table[s] \in Entry
    BY DEF IsTable
  <1>2. CASE t \in DOMAIN table /\ new = Join(table, t, h)
    BY <1>1, <1>2 DEF Join, Set, Entry
  <1>3. CASE t \notin DOMAIN table /\ new = Join(table, t, h)
    BY <1>1, <1>3 DEF Join, Set, Entry
  <1>4. CASE t \in DOMAIN table /\ new = Leave(table, t)
    BY <1>1, <1>4 DEF Leave, Set, Delete, Entry
  <1>5. CASE new = CloseAll(table, txs)
    BY <1>1, <1>5 DEF CloseAll, Entry
  <1> QED
    BY <1>2, <1>3, <1>4, <1>5

(* Every later block extends the head or is above its successor.                  *)
LEMMA NeverDisconnected ==
    ASSUME NoForks, Inv, NEW b \in Blocks
    PROVE  ~Disconnected(b)
  BY LinearParent DEF Disconnected, Inv, TypeOK

(* Block and BlockSeen make no orphan and abort no wait.                          *)
LEMMA ProcNoOrphans ==
    ASSUME NoForks, LinearInv, NEW p \in Procs, ProcStep(p)
    PROVE  NoOrphans' /\ p # Sequencer
  <1> USE DEF LinearInv, PipelineInv
  <1>1. p # Sequencer
    BY ProcStepFrame DEF NoOrphans
  <1>2. /\ pc'[Sequencer] = pc[Sequencer] /\ UNCHANGED <<reorgStart, fetched>>
        /\ \A q \in Procs \ {p} : orphan'[q] = orphan[q]
    BY <1>1, ProcStepFrame, OthersStay DEF Procs
  <1>3. /\ orphan'[p] = FALSE
        /\ \A t \in DOMAIN waiter' : ~waiter'[t].aborted
    <2> USE DEF Inv, shared, NoOrphans
    <2>t. IsTable(waiter, Txs)
      BY DEF TypeOK
    <2>o. orphan \in [Procs -> BOOLEAN] /\ orphan[p] = FALSE
      BY DEF TypeOK
    <2>1. CASE GetRawBlock(p) \/ ReadSeen(p) \/ ReadStorage(p) \/ ReadCache(p) \/ Await(p)
               \/ LoadCache(p) \/ CountSeen(p)
      BY <2>1, <2>o DEF GetRawBlock, ReadSeen, ReadStorage, ReadCache, Await, LoadCache,
                        CountSeen
    <2>2. CASE CheckHeaderMatch(p)
      <3>1. ~Disconnected(block[p])
        BY <2>2, NeverDisconnected DEF CheckHeaderMatch, LocalOK
      <3> QED
        BY <2>2, <2>o, <3>1 DEF CheckHeaderMatch
    <2>3. CASE Register(p)
      <3>1. orphan' = orphan
        BY <2>3 DEF Register
      <3>2. CASE waiter' = waiter
        BY <3>1, <3>2, <2>o
      <3>3. CASE waiter' # waiter
        <4>1. PICK h \in Nat : h = Height[block[p]]
          BY <2>3, TreeShape DEF Register, LocalOK
        <4>2. PICK t \in Txs : t = TxOf[cur[p]]
          BY <2>3, CoinShape DEF Register, LocalOK, Looking, TypeOK
        <4>3. waiter' = Join(waiter, t, h)
          BY <2>3, <3>3, <4>1, <4>2 DEF Register
        <4> QED
          BY <2>t, <2>o, <3>1, <4>3, NoAbort
      <3> QED
        BY <3>2, <3>3
    <2>4. CASE StopListening(p)
      <3>1. PICK t \in Txs : t = TxOf[cur[p]] /\ t \in DOMAIN waiter
        BY <2>4, ListenerHasEntry DEF StopListening, LocalOK
      <3>2. waiter' = Leave(waiter, t)
        BY <2>4, <3>1 DEF StopListening
      <3>3. orphan' = [orphan EXCEPT ![p] = orphan[p] \/ waiter[t].aborted]
        BY <2>4, <3>1 DEF StopListening
      <3>4. orphan'[p] = (orphan[p] \/ waiter[t].aborted)
        BY <2>o, <3>3
      <3>5. orphan'[p] = FALSE
        BY <2>o, <3>1, <3>4, Zenon
      <3>6. 0 \in Nat
        OBVIOUS
      <3>7. \A s \in DOMAIN waiter' : ~waiter'[s].aborted
        BY <2>t, <3>1, <3>2, <3>6, NoAbort
      <3> QED
        BY <3>5, <3>7
    <2>5. CASE CloseChannels(p)
      <3>1. orphan' = orphan /\ waiter' = CloseAll(waiter, TxsIn(block[p]))
        BY <2>5 DEF CloseChannels
      <3>2. PICK txs : txs = TxsIn(block[p])
        OBVIOUS
      <3>3. \A s \in DOMAIN waiter' : ~waiter'[s].aborted
        BY <2>t, <3>1, <3>2 DEF CloseAll, IsTable, Entry
      <3> QED
        BY <2>o, <3>1, <3>3
    <2> QED
      BY <2>1, <2>2, <2>3, <2>4, <2>5 DEF ProcStep
  <1> QED
    BY <1>1, <1>2, <1>3 DEF NoOrphans

(* Every next result extends the head.                                            *)
LEMMA NextExtends ==
    ASSUME NoForks, LinearInv, ProcessCached
    PROVE  /\ nextIndex \in DOMAIN fetched /\ nextIndex \in Nat
           /\ fetched[nextIndex] \in Blocks /\ head' = fetched[nextIndex]
           /\ Height[fetched[nextIndex]] = nextIndex
           /\ nextIndex' = nextIndex + 1
           /\ reorgStart' = reorgStart /\ seqPc = "process" /\ seqPc' = "clean"
           /\ fetched' = [h \in DOMAIN fetched \ {nextIndex} |-> fetched[h]]
           /\ UNCHANGED <<best, shared, local, endIndex, nextFetch>>
  <1> USE DEF LinearInv, PipelineInv
  <1>1. PICK n \in Nat : n = nextIndex
    BY TreeShape DEF nextIndex, Inv, TypeOK
  <1>2. n \in DOMAIN fetched /\ ProcessBlock(fetched[n])
    BY <1>1 DEF ProcessCached
  <1>3. PICK r \in Blocks : r = fetched[n] /\ Height[r] = n
    BY <1>1, <1>2, CachedResult DEF NoOrphans, Results
  <1>4. Extends(r)
    BY <1>1, <1>3, LinearParent, IndexerConstants DEF Extends, nextIndex, Inv, TypeOK
  <1>5. head' = r /\ nextIndex' = n + 1 /\ reorgStart' = reorgStart /\ seqPc' = "clean"
    BY <1>1, <1>2, <1>3, <1>4, ProcessBlockMoves DEF Results
  <1> QED
    BY <1>1, <1>2, <1>3, <1>5 DEF ProcessCached, node

(* Nothing is fetched again.                                                      *)
LEMMA NeverRefetches ==
    ASSUME LinearInv
    PROVE  ~Refetch /\ ~ProcessRefetched
  <1>1. nextIndex \in Nat
    BY TreeShape DEF nextIndex, LinearInv, PipelineInv, Inv, TypeOK
  <1> QED
    BY <1>1 DEF Refetch, ProcessRefetched, LinearInv, NoOrphans, PipelineInv, Inv, SequencerOK

(* The wait of the block after the head is for a coin that was created below it,  *)
(* so there is none to abort.                                                     *)
LEMMA NothingToAbort ==
    ASSUME LinearInv, AbortWaits
    PROVE  UNCHANGED waiter
  <1> USE DEF LinearInv, PipelineInv
  <1>1. PICK h \in Nat : h = Height[head] + 1 /\ h = nextIndex
    BY TreeShape, IndexerConstants DEF AbortWaits, Inv, SequencerOK, TypeOK, nextIndex
  <1>2. ASSUME NEW t \in DOMAIN waiter, waiter[t].earliest = h, ~waiter[t].closed
        PROVE  FALSE
    <2>1. PICK w \in Waits(t) : Height[block[w[1]]] = h
      BY <1>2 DEF WakeupsOK, EarliestIsLowest
    <2>2. PICK p \in Procs, c \in Coins : c \in listening[p] /\ TxOf[c] = t /\ p = w[1]
      BY <2>1 DEF Waits
    <2>3. pc[p] \in Looking \cup {"await", "leave"}
      BY <2>2, ListenerHasEntry
    <2>4. block[p] \in Blocks /\ c \in Needs(block[p])
      BY <2>2, <2>3 DEF Inv, LocalOK, Looking, OrphansOK, OrphanOK
    <2>5. PICK a \in Blocks : c \in Creates[a] /\ Height[a] < h
      BY <2>1, <2>2, <2>4, NeededIsBelow
    <2>6. Height[a] >= h
      BY <1>1, <1>2, <2>2, <2>5 DEF WaitsAreJustified
    <2> QED
      BY <1>1, <2>5, <2>6, TreeShape
  <1>3. waiter' = AbortNext(waiter, h)
    BY <1>1 DEF AbortWaits
  <1> QED
    BY <1>2, <1>3 DEF AbortNext, Inv, TypeOK, IsTable

(* Every step keeps the chain free of orphans.                                    *)
LEMMA NextNoOrphans == ASSUME NoForks, LinearInv, [Next]_vars PROVE NoOrphans'
  <1> USE DEF LinearInv, PipelineInv, NoOrphans, shared, local, syncer
  <1>1. CASE \/ NodeAdvance \/ AtTip \/ UNCHANGED vars \/ WaitForResults \/ CleanCache
    BY <1>1 DEF NodeAdvance, AtTip, vars, WaitForResults, CleanCache
  <1>2. ASSUME NEW p \in Procs, ProcStep(p) PROVE NoOrphans'
    BY <1>2, ProcNoOrphans
  <1>3. ASSUME NEW f \in Fetchers, TakeIndex(f) PROVE NoOrphans'
    BY <1>3, IndexerConstants DEF TakeIndex, Inv, TypeOK, Procs
  <1>4. ASSUME NEW f \in Fetchers, Deliver(f) PROVE NoOrphans'
    <2>1. f \in Procs /\ f # Sequencer
      BY IndexerConstants DEF Procs
    <2>2. Result(f) # OrphanHead
      BY <1>4, <2>1, IndexerConstants DEF Deliver, Result, Inv, LocalOK
    <2>3. /\ reorgStart' = -1 /\ waiter' = waiter
          /\ pc'[Sequencer] = pc[Sequencer]
          /\ \A h \in DOMAIN fetched' : fetched'[h] \in {Result(f)} \cup {fetched[g] : g \in DOMAIN fetched}
      BY <1>4, <2>1 DEF Deliver, Forget, Inv, TypeOK, Procs
    <2>4. \A q \in Procs : orphan'[q] = FALSE \/ orphan'[q] = orphan[q]
      BY <1>4 DEF Deliver, Forget, Inv, TypeOK
    <2> QED
      BY <2>2, <2>3, <2>4
  <1>5. CASE ProcessCached
    BY <1>5, NextExtends
  <1>6. CASE AbortWaits
    BY <1>6, NothingToAbort DEF AbortWaits
  <1>7. CASE StartRange
    BY <1>7 DEF StartRange, EmptyTable
  <1>8. CASE Restart
    BY <1>8 DEF Restart, EmptyTable, Procs
  <1> QED
    BY <1>1, <1>2, <1>3, <1>4, <1>5, <1>6, <1>7, <1>8, NeverRefetches
       DEF Next, FetcherStep, SequencerStep

--------------------------------------------------------------------------------
(* Waits are justified                                                            *)

(* A goroutine that looks something up in Block.                                  *)
LEMMA LookJustified ==
    ASSUME NoForks, LinearInv, NEW p \in Procs, NoOrphans',
           \/ GetRawBlock(p) \/ CheckHeaderMatch(p) \/ ReadSeen(p) \/ ReadStorage(p)
           \/ ReadCache(p) \/ Await(p) \/ LoadCache(p)
    PROVE  WaitsAreJustified'
  <1> USE DEF LinearInv, PipelineInv
  <1>0. ProcStep(p)
    BY DEF ProcStep
  <1>1. UNCHANGED <<head, fetched, waiter, listening>>
    BY DEF GetRawBlock, CheckHeaderMatch, ReadSeen, ReadStorage, ReadCache, Await, LoadCache,
           Found, store, shared, lookup, syncer
  <1>2. \A q \in Procs : q \notin moved' => q \notin moved \/ (q = p /\ pc'[p] = "storage")
    BY DEF GetRawBlock, CheckHeaderMatch, ReadSeen, ReadStorage, ReadCache, Await, LoadCache,
           shared, Inv, TypeOK
  <1>3. \A q \in Procs \ {p} : /\ pc'[q] = pc[q] /\ block'[q] = block[q]
                               /\ cur'[q] = cur[q] /\ snap'[q] = snap[q]
    BY <1>0, OthersStay
  <1>4. pc'[p] \notin {"close", "deliver"}
    <2>1. CASE CheckHeaderMatch(p)
      <3>1. ~Disconnected(block[p])
        BY <2>1, NeverDisconnected DEF CheckHeaderMatch, Inv, LocalOK
      <3> QED
        BY <2>1, <3>1 DEF CheckHeaderMatch, ProceedWith, Inv, TypeOK
    <2> QED
      BY <2>1 DEF GetRawBlock, ReadSeen, ReadStorage, ReadCache, Await, LoadCache, Found,
                  ProceedWith, Inv, TypeOK
  <1>5. CASE pc'[p] \notin {"cache", "register"}
    BY <1>1, <1>2, <1>3, <1>4, <1>5, JustifiedFrame
  <1>6. CASE pc'[p] = "cache"
    <2>1. snap'[p] = head /\ head # NoBlock
      BY <1>6 DEF GetRawBlock, CheckHeaderMatch, ReadSeen, ReadStorage, ReadCache, Await,
                  LoadCache, Found, ProceedWith, Inv, TypeOK
    <2>2. Height[snap'[p]] < nextIndex
      BY <2>1, TreeShape DEF nextIndex, Inv, TypeOK
    <2> QED
      BY <1>1, <1>2, <1>3, <1>4, <1>6, <2>2, JustifiedFrame
  <1>7. CASE pc'[p] = "register"
    <2>1. /\ pc[p] = "cache" /\ cur[p] \notin coinCache /\ cur'[p] = cur[p]
          /\ snap'[p] = snap[p]
      BY <1>7 DEF GetRawBlock, CheckHeaderMatch, ReadSeen, ReadStorage, ReadCache, Await,
                  LoadCache, Found, ProceedWith, Inv, TypeOK, lookup
    <2>2. NotSeen(cur[p], {"close", "deliver"})
      BY <2>1 DEF NotSeen, CacheIsExact, SeenCoinsAreCached, Loaded, NoOrphans
    <2>3. NotSeen(cur'[p], {"close", "deliver"})
      BY <2>1, <2>2
    <2> QED
      BY <1>1, <1>2, <1>3, <1>4, <1>7, <2>1, <2>3, JustifiedFrame
  <1> QED
    BY <1>5, <1>6, <1>7

(* findCoin starts to wait for a coin that nobody has seen yet.                   *)
LEMMA RegisterJustified ==
    ASSUME NoForks, LinearInv, NEW p \in Procs, Register(p)
    PROVE  WaitsAreJustified'
  <1> USE DEF LinearInv, PipelineInv
  <1>0. ProcStep(p)
    BY DEF ProcStep
  <1>1. \A q \in Procs \ {p} : /\ pc'[q] = pc[q] /\ block'[q] = block[q] /\ cur'[q] = cur[q]
                               /\ snap'[q] = snap[q] /\ listening'[q] = listening[q]
    BY <1>0, OthersStay
  <1>2. /\ UNCHANGED <<head, fetched, moved>> /\ pc[p] = "register"
        /\ pc'[p] \notin {"close", "deliver", "cache", "register"}
    BY DEF Register, ProceedWith, store, syncer, Inv, TypeOK
  <1>3. CASE ~Current(p)
    <2>1. listening' = listening /\ waiter' = waiter
      BY <1>3 DEF Register
    <2> QED
      BY <1>1, <1>2, <2>1, JustifiedFrame
  <1>4. CASE Current(p)
    <2>1. PICK c \in Coins : c = cur[p] /\ c \in Needs(block[p]) /\ c \notin Utxo(head)
      BY <1>2, <1>4 DEF Inv, TypeOK, LocalOK, Looking, OrphansOK, OrphanOK, Current
    <2>2. /\ block[p] \in Blocks /\ head \in Blocks /\ Height[head] \in Nat
          /\ nextIndex = Height[head] + 1 /\ Height[head] < Height[block[p]]
      BY <1>2, <1>4, BusyIsAhead, TreeShape, IndexerConstants
         DEF Inv, LocalOK, OrphansOK, OrphanOK, Current, nextIndex
    <2>3. \A a \in Blocks : c \in Creates[a] => Height[a] >= nextIndex
      BY <2>1, <2>2, MissingIsAbove, TreeShape
    <2>4. NotSeen(c, {"deliver"})
      BY <1>2, <1>4, <2>1 DEF WaitsAreJustified, NotSeen
    <2>5. PICK h \in Nat : h = Height[block[p]]
      BY <2>2, TreeShape
    <2>6. PICK t \in Txs : t = TxOf[c]
      BY CoinShape
    <2>7. /\ waiter' = Join(waiter, t, h)
          /\ listening' = [listening EXCEPT ![p] = @ \cup {c}]
      BY <1>4, <2>1, <2>5, <2>6 DEF Register
    <2>8. \A s \in DOMAIN waiter : waiter'[s].closed <=> waiter[s].closed
      BY <2>7, JoinKeeps DEF Inv, TypeOK
    <2>9. nextIndex' = nextIndex
      BY <1>2 DEF nextIndex
    <2>10. ASSUME NEW d, NEW late \in SUBSET {"close", "deliver"}, NotSeen(d, late)
           PROVE  NotSeen(d, late)'
      BY <1>1, <1>2, <2>10 DEF NotSeen
    <2>11. ASSUME NEW q \in Procs, NEW d \in listening'[q], ~waiter'[TxOf[d]].closed
           PROVE  /\ NotSeen(d, {"deliver"})'
                  /\ \A a \in Blocks : d \in Creates[a] => Height[a] >= nextIndex'
      <3>1. CASE d \in listening[q]
        <4>1. ~waiter[TxOf[d]].closed
          BY <2>8, <2>11, <3>1, ListenerHasEntry
        <4> QED
          BY <2>9, <2>10, <3>1, <4>1 DEF WaitsAreJustified
      <3>2. CASE d \notin listening[q]
        <4>1. d = c
          BY <2>7, <2>11, <3>2 DEF Inv, TypeOK
        <4> QED
          BY <2>3, <2>4, <2>9, <2>10, <4>1
      <3> QED
        BY <3>1, <3>2
    <2>12. ASSUME NEW q \in Procs, pc'[q] = "register", Current(q)'
           PROVE  NotSeen(cur[q], {"close", "deliver"})'
      <3>1. PICK d : d = cur'[q] /\ d = cur[q] /\ pc[q] = "register" /\ Current(q)
        BY <1>1, <1>2, <2>12 DEF Current
      <3>2. NotSeen(d, {"close", "deliver"})'
        BY <2>10, <3>1 DEF WaitsAreJustified
      <3> QED
        BY <3>1, <3>2 DEF NotSeen
    <2>13. ASSUME NEW q \in Procs, pc'[q] \in {"cache", "register"}
           PROVE  Height[snap'[q]] < nextIndex'
      BY <1>1, <1>2, <2>9, <2>13 DEF WaitsAreJustified
    <2> QED
      BY <2>11, <2>12, <2>13 DEF WaitsAreJustified
  <1> QED
    BY <1>3, <1>4

(* The other waits stay when one is given up.                                     *)
LEMMA StopListeningJustified ==
    ASSUME NoForks, LinearInv, NEW p \in Procs, StopListening(p), NoOrphans'
    PROVE  WaitsAreJustified'
  <1> USE DEF LinearInv, PipelineInv
  <1>0. ProcStep(p)
    BY DEF ProcStep
  <1>1. \A q \in Procs \ {p} : /\ pc'[q] = pc[q] /\ block'[q] = block[q] /\ cur'[q] = cur[q]
                               /\ snap'[q] = snap[q] /\ listening'[q] = listening[q]
    BY <1>0, OthersStay
  <1>2. PICK c \in Coins : c = cur[p] /\ c \in listening[p]
    BY ListenerHasEntry DEF StopListening, Inv, LocalOK
  <1>3. PICK t \in Txs : t = TxOf[c] /\ t \in DOMAIN waiter
    BY <1>2, ListenerHasEntry
  <1>4. /\ UNCHANGED <<head, fetched, moved>> /\ pc[p] = "leave"
        /\ waiter' = Leave(waiter, t)
        /\ listening' = [listening EXCEPT ![p] = @ \ {c}]
    BY <1>2, <1>3 DEF StopListening, store, syncer
  <1>5. ~orphan[p] /\ ~waiter[t].aborted
    BY <1>3 DEF NoOrphans
  <1>6. pc'[p] \in {"await", "header"}
    BY <1>2, <1>3, <1>5 DEF StopListening, Inv, TypeOK
  <1>7. \A s \in DOMAIN waiter' : waiter'[s].closed <=> waiter[s].closed
    BY <1>3, <1>4, LeaveKeeps DEF Inv, TypeOK
  <1>8. Inv'
    BY StopListeningInv
  <1>9. ASSUME NEW q \in Procs, NEW d \in listening'[q], ~waiter'[TxOf[d]].closed
        PROVE  d \in listening[q] /\ ~waiter[TxOf[d]].closed
    <2>1. d \in listening[q] /\ d \in Coins /\ TxOf[d] \in Txs
      BY <1>4, <1>9, CoinShape DEF Inv, TypeOK
    <2>2. <<q, d>> \in Waits(TxOf[d])'
      BY <1>9, <2>1 DEF Waits
    <2>3. TxOf[d] \in DOMAIN waiter'
      BY <1>8, <2>1, <2>2 DEF Inv, ListenersExact
    <2> QED
      BY <1>7, <1>9, <2>1, <2>3
  <1> QED
    BY <1>1, <1>4, <1>6, <1>9, JustifiedFrame

(* Counting the block makes everyone look again who has not registered yet.       *)
LEMMA CountSeenJustified ==
    ASSUME LinearInv, NEW p \in Procs, CountSeen(p)
    PROVE  WaitsAreJustified'
  <1> USE DEF LinearInv
  <1>1. /\ UNCHANGED <<head, fetched, waiter, listening, block, cur, snap>>
        /\ moved' = Procs /\ pc'[p] = "close"
        /\ \A q \in Procs \ {p} : pc'[q] = pc[q]
    BY DEF CountSeen, store, syncer, lookup, PipelineInv, Inv, TypeOK
  <1>2. nextIndex' = nextIndex
    BY <1>1 DEF nextIndex
  <1>3. \A q \in Procs : ~Current(q)'
    BY <1>1 DEF Current
  <1>4. \A d : NotSeen(d, {"deliver"}) => NotSeen(d, {"deliver"})'
    BY <1>1 DEF NotSeen
  <1> QED
    BY <1>1, <1>2, <1>3, <1>4 DEF WaitsAreJustified

(* Whoever waits for a coin of the block is woken before the block is delivered.  *)
LEMMA CloseChannelsJustified ==
    ASSUME LinearInv, NEW p \in Procs, CloseChannels(p)
    PROVE  WaitsAreJustified'
  <1> USE DEF LinearInv, PipelineInv
  <1>1. /\ UNCHANGED <<head, fetched, moved, listening, block, cur, snap>>
        /\ pc[p] = "close" /\ pc'[p] = "deliver"
        /\ waiter' = CloseAll(waiter, TxsIn(block[p]))
        /\ \A q \in Procs \ {p} : pc'[q] = pc[q]
    BY DEF CloseChannels, store, syncer, lookup, Inv, TypeOK
  <1> HIDE DEF CloseChannels
  <1>2. nextIndex' = nextIndex
    BY <1>1 DEF nextIndex
  <1>3. \A t \in DOMAIN waiter : /\ waiter[t].closed => waiter'[t].closed
                                 /\ t \in TxsIn(block[p]) => waiter'[t].closed
    <2>1. IsTable(waiter, Txs) /\ 0 \in Nat
      BY DEF Inv, TypeOK
    <2> QED
      BY <1>1, <2>1, CloseKeeps
  <1>4. ASSUME NEW q \in Procs, NEW d \in listening'[q], ~waiter'[TxOf[d]].closed
        PROVE  /\ NotSeen(d, {"deliver"})'
               /\ \A a \in Blocks : d \in Creates[a] => Height[a] >= nextIndex'
    <2>1. d \in listening[q] /\ TxOf[d] \in DOMAIN waiter
      BY <1>1, <1>4, ListenerHasEntry
    <2>2. ~waiter[TxOf[d]].closed /\ TxOf[d] \notin TxsIn(block[p])
      BY <1>3, <1>4, <2>1
    <2>3. d \notin Creates[block[p]]
      BY <2>2 DEF TxsIn
    <2>4. NotSeen(d, {"deliver"})
      BY <2>1, <2>2 DEF WaitsAreJustified
    <2>5. NotSeen(d, {"deliver"})'
      BY <1>1, <2>3, <2>4 DEF NotSeen
    <2> QED
      BY <1>2, <2>1, <2>2, <2>5 DEF WaitsAreJustified
  <1>5. ASSUME NEW q \in Procs, pc'[q] = "register", Current(q)'
        PROVE  NotSeen(cur[q], {"close", "deliver"})'
    <2>1. pc[q] = "register" /\ Current(q)
      BY <1>1, <1>5 DEF Current
    <2>2. NotSeen(cur[q], {"close", "deliver"})
      BY <2>1 DEF WaitsAreJustified
    <2> QED
      BY <1>1, <2>2 DEF NotSeen
  <1>6. ASSUME NEW q \in Procs, pc'[q] \in {"cache", "register"}
        PROVE  Height[snap'[q]] < nextIndex'
    BY <1>1, <1>2, <1>6 DEF WaitsAreJustified
  <1> QED
    BY <1>4, <1>5, <1>6 DEF WaitsAreJustified

(* A delivered block is kept where its fetcher was.                               *)
LEMMA DeliverJustified ==
    ASSUME LinearInv, NEW f \in Fetchers, Deliver(f)
    PROVE  WaitsAreJustified'
  <1> USE DEF LinearInv, PipelineInv
  <1>1. f \in Procs /\ pc[f] = "deliver" /\ Result(f) = block[f]
    BY DEF Procs, Deliver, Result, NoOrphans
  <1>2. /\ UNCHANGED <<head, waiter, moved, listening, cur, snap>>
        /\ \A h \in DOMAIN fetched' : \/ h \in DOMAIN fetched /\ fetched'[h] = fetched[h]
                                      \/ fetched'[h] = block[f]
        /\ pc'[f] = "idle"
        /\ \A q \in Procs \ {f} : pc'[q] = pc[q] /\ block'[q] = block[q]
    BY <1>1 DEF Deliver, Forget, store, shared, lookup, Inv, TypeOK
  <1>3. nextIndex' = nextIndex
    BY <1>2 DEF nextIndex
  <1>4. ASSUME NEW d, NEW late \in {{"deliver"}, {"close", "deliver"}}, NotSeen(d, late)
        PROVE  NotSeen(d, late)'
    BY <1>1, <1>2, <1>4 DEF NotSeen
  <1>5. ASSUME NEW q \in Procs, pc'[q] = "register", Current(q)'
        PROVE  NotSeen(cur[q], {"close", "deliver"})'
    <2>1. PICK d : d = cur[q] /\ d = cur'[q]
      BY <1>2
    <2>2. NotSeen(d, {"close", "deliver"})'
      BY <1>2, <1>4, <1>5, <2>1 DEF WaitsAreJustified, Current
    <2> QED
      BY <2>1, <2>2 DEF NotSeen
  <1>6. ASSUME NEW q \in Procs, pc'[q] \in {"cache", "register"}
        PROVE  Height[snap'[q]] < nextIndex'
    BY <1>2, <1>3, <1>6 DEF WaitsAreJustified
  <1> QED
    BY <1>2, <1>3, <1>4, <1>5, <1>6 DEF WaitsAreJustified

(* The block that is added has been seen, so nobody waits for its coins.          *)
LEMMA ProcessCachedJustified ==
    ASSUME NoForks, LinearInv, ProcessCached
    PROVE  WaitsAreJustified'
  <1> USE DEF LinearInv, PipelineInv
  <1>1. PICK n \in Nat, r \in Blocks :
          /\ n = nextIndex /\ n \in DOMAIN fetched /\ r = fetched[n] /\ Height[r] = n
          /\ head' = r /\ nextIndex' = n + 1
          /\ fetched' = [h \in DOMAIN fetched \ {n} |-> fetched[h]]
          /\ UNCHANGED <<waiter, moved, pc, block, listening, cur, snap>>
    BY NextExtends DEF shared, local, lookup
  <1>2. \A d, late : NotSeen(d, late) => NotSeen(d, late)'
    BY <1>1 DEF NotSeen
  <1>3. ASSUME NEW q \in Procs, NEW d \in listening'[q], ~waiter'[TxOf[d]].closed
        PROVE  /\ NotSeen(d, {"deliver"})'
               /\ \A a \in Blocks : d \in Creates[a] => Height[a] >= nextIndex'
    <2>1. /\ NotSeen(d, {"deliver"})
          /\ \A a \in Blocks : d \in Creates[a] => Height[a] >= n
      BY <1>1, <1>3 DEF WaitsAreJustified
    <2>2. d \notin Creates[r]
      BY <1>1, <2>1 DEF NotSeen
    <2>3. \A a \in Blocks : d \in Creates[a] => Height[a] # n
      BY <1>1, <2>2 DEF NoForks
    <2> QED
      BY <1>1, <1>2, <2>1, <2>3, TreeShape
  <1>4. ASSUME NEW q \in Procs, pc'[q] \in {"cache", "register"}
        PROVE  Height[snap'[q]] < n /\ snap[q] \in Blocks
    BY <1>1, <1>4 DEF WaitsAreJustified, OrphansOK, OrphanOK
  <1>5. ASSUME NEW q \in Procs, pc'[q] = "register" PROVE ~Current(q)'
    BY <1>1, <1>4, <1>5 DEF Current
  <1>6. ASSUME NEW q \in Procs, pc'[q] \in {"cache", "register"}
        PROVE  Height[snap'[q]] < nextIndex'
    <2>1. Height[snap[q]] \in Nat
      BY <1>4, <1>6, TreeShape
    <2> QED
      BY <1>1, <1>4, <1>6, <2>1
  <1> QED
    BY <1>3, <1>5, <1>6 DEF WaitsAreJustified

(* Every step keeps the waits justified.                                          *)
LEMMA NextJustified ==
    ASSUME NoForks, LinearInv, [Next]_vars, NoOrphans'
    PROVE  WaitsAreJustified'
  <1> USE DEF LinearInv, PipelineInv, store, shared, local, lookup, syncer
  <1>1. CASE \/ NodeAdvance \/ AtTip \/ UNCHANGED vars \/ WaitForResults \/ CleanCache
             \/ AbortWaits
    <2>1. UNCHANGED <<head, fetched, waiter, moved, pc, block, listening, cur, snap>>
      BY <1>1, NothingToAbort
         DEF NodeAdvance, AtTip, vars, WaitForResults, CleanCache, AbortWaits
    <2> QED
      BY <2>1, JustifiedFrame
  <1>2. ASSUME NEW p \in Procs, ProcStep(p) PROVE WaitsAreJustified'
    BY <1>2, LookJustified, RegisterJustified, StopListeningJustified, CountSeenJustified,
       CloseChannelsJustified DEF ProcStep
  <1>3. ASSUME NEW f \in Fetchers, TakeIndex(f) PROVE WaitsAreJustified'
    <2>1. /\ UNCHANGED <<head, fetched, waiter, moved, block, listening, cur, snap>>
          /\ \A q \in Procs : pc'[q] # "rawBlock" => pc'[q] = pc[q]
      BY <1>3 DEF TakeIndex, Inv, TypeOK
    <2> QED
      BY <2>1, JustifiedFrame
  <1>4. CASE StartRange
    <2>1. /\ UNCHANGED <<head, waiter, moved, pc, block, listening, cur, snap>>
          /\ DOMAIN fetched' = {}
      BY <1>4 DEF StartRange, EmptyTable
    <2>2. \A p \in Procs : pc[p] = "idle"
      BY <1>4 DEF StartRange, RangeDone, NoOrphans, Procs
    <2>3. \A p \in Procs : listening[p] = {}
      BY <2>2 DEF Inv, LocalOK, Looking
    <2> QED
      BY <2>1, <2>2, <2>3 DEF WaitsAreJustified
  <1>5. CASE Restart
    BY <1>5 DEF Restart, WaitsAreJustified
  <1> QED
    BY <1>1, <1>2, <1>3, <1>4, <1>5, DeliverJustified, ProcessCachedJustified, NeverRefetches
       DEF Next, FetcherStep, SequencerStep

--------------------------------------------------------------------------------
(* The cache is exact                                                             *)

(* Only LoadCache puts coins into the cache, and only Block and BlockSeen of a    *)
(* fetcher get it to the point where it has.                                      *)
LEMMA ProcCache ==
    ASSUME NoForks, LinearInv, NEW p \in Procs, ProcStep(p)
    PROVE  CacheIsExact'
  <1> USE DEF LinearInv, PipelineInv
  <1>1. UNCHANGED <<head, fetched, seqPc>>
    BY ProcStepFrame
  <1>2. \A q \in Procs \ {p} : pc'[q] = pc[q] /\ block'[q] = block[q]
    BY OthersStay
  <1>3. CASE LoadCache(p)
    <2>1. /\ coinCache' = coinCache \cup Creates[block[p]] /\ block' = block
          /\ pc[p] = "load" /\ pc'[p] = "count"
      BY <1>3 DEF LoadCache, Inv, TypeOK
    <2>2. \A q \in Procs : pc[q] \in Loaded => pc'[q] \in Loaded
      BY <1>2, <2>1 DEF Loaded
    <2>3. \A q \in Procs : pc'[q] \in Loaded => pc[q] \in Loaded \/ q = p
      BY <1>2
    <2>4. pc'[p] \in Loaded
      BY <2>1 DEF Loaded
    <2> QED
      BY <1>1, <2>1, <2>2, <2>3, <2>4 DEF CacheIsExact, SeenCoinsAreCached
  <1>4. CASE ~LoadCache(p)
    <2>1. coinCache' = coinCache
      BY <1>4 DEF ProcStep, GetRawBlock, CheckHeaderMatch, ReadSeen, ReadStorage, ReadCache,
                  Register, Await, StopListening, CountSeen, CloseChannels, shared
    <2>2. /\ pc'[p] \in Loaded <=> pc[p] \in Loaded
          /\ pc[p] \in Loaded => block'[p] = block[p]
      <3>1. CASE CountSeen(p) \/ CloseChannels(p)
        BY <3>1 DEF CountSeen, CloseChannels, Loaded, Inv, TypeOK
      <3>2. CASE CheckHeaderMatch(p)
        <4>1. ~Disconnected(block[p])
          BY <3>2, NeverDisconnected DEF CheckHeaderMatch, Inv, LocalOK
        <4> QED
          BY <3>2, <4>1 DEF CheckHeaderMatch, ProceedWith, Loaded, Inv, TypeOK
      <3>3. CASE StopListening(p)
        <4>1. PICK t \in Txs : t = TxOf[cur[p]] /\ t \in DOMAIN waiter
          BY <3>3, ListenerHasEntry DEF StopListening, Inv, LocalOK
        <4>2. ~orphan[p] /\ ~waiter[t].aborted
          BY <4>1 DEF NoOrphans
        <4> QED
          BY <3>3, <4>1, <4>2 DEF StopListening, Loaded, Inv, TypeOK
      <3>4. CASE \/ GetRawBlock(p) \/ ReadSeen(p) \/ ReadStorage(p) \/ ReadCache(p)
                 \/ Register(p) \/ Await(p)
        BY <3>4 DEF GetRawBlock, ReadSeen, ReadStorage, ReadCache, Register, Await, Found,
                    ProceedWith, Loaded, Inv, TypeOK
      <3> QED
        BY <1>4, <3>1, <3>2, <3>3, <3>4 DEF ProcStep
    <2> QED
      BY <1>1, <1>2, <2>1, <2>2, CacheFrame
  <1> QED
    BY <1>3, <1>4

(* A delivered block keeps its coins in the cache.                                *)
LEMMA DeliverCache ==
    ASSUME LinearInv, NEW f \in Fetchers, Deliver(f)
    PROVE  CacheIsExact'
  <1> USE DEF LinearInv, PipelineInv
  <1>1. f \in Procs /\ pc[f] = "deliver" /\ Result(f) = block[f] /\ index[f] \in Nat
    BY DEF Procs, Deliver, Result, NoOrphans, Inv, TypeOK
  <1>2. index[f] \notin DOMAIN fetched
    BY <1>1 DEF RangeOK
  <1>3. PICK n \in Nat, b \in {block[f]} : n = index[f] /\ b = block[f]
    BY <1>1
  <1>4. /\ fetched' = [h \in DOMAIN fetched \cup {n} |-> IF h = n THEN b ELSE fetched[h]]
        /\ UNCHANGED <<coinCache, head>> /\ pc'[f] = "idle" /\ seqPc = "recv"
        /\ \A q \in Procs \ {f} : pc'[q] = pc[q] /\ block'[q] = block[q]
    BY <1>1, <1>3 DEF Deliver, Forget, store, shared, Inv, TypeOK
  <1> HIDE DEF Deliver
  <1>5. Creates[b] \subseteq coinCache /\ \A h \in DOMAIN fetched : fetched[h] # OrphanHead
    BY <1>1, <1>3 DEF CacheIsExact, Loaded, NoOrphans
  <1>6. SeenCoinsAreCached'
    BY <1>4, <1>5 DEF CacheIsExact, SeenCoinsAreCached
  <1>7. \A q \in Procs : pc'[q] \in Loaded => Creates[block'[q]] \subseteq coinCache'
    BY <1>4 DEF CacheIsExact, Loaded
  <1>8. ASSUME NEW c \in coinCache'
        PROVE  \/ \E h \in DOMAIN fetched' : c \in Creates[fetched'[h]]
               \/ \E q \in Procs : pc'[q] \in Loaded /\ c \in Creates[block'[q]]
    <2>1. CASE \E h \in DOMAIN fetched : c \in Creates[fetched[h]]
      BY <1>2, <1>3, <1>4, <2>1
    <2>2. ASSUME NEW q \in Procs, pc[q] \in Loaded, c \in Creates[block[q]]
          PROVE  \/ \E h \in DOMAIN fetched' : c \in Creates[fetched'[h]]
                 \/ \E s \in Procs : pc'[s] \in Loaded /\ c \in Creates[block'[s]]
      <3>1. CASE q = f
        <4>1. n \in DOMAIN fetched' /\ fetched'[n] = b
          BY <1>4
        <4> QED
          BY <1>3, <2>2, <3>1, <4>1
      <3>2. CASE q # f
        BY <1>4, <2>2, <3>2
      <3> QED
        BY <3>1, <3>2
    <2> QED
      BY <1>4, <1>8, <2>1, <2>2 DEF CacheIsExact
  <1> QED
    BY <1>6, <1>7, <1>8 DEF CacheIsExact

(* The coins of the block that is added are taken out next.                       *)
LEMMA ProcessCachedCache ==
    ASSUME NoForks, LinearInv, ProcessCached
    PROVE  CacheIsExact'
  <1>1. PICK n \in Nat, r \in Blocks :
          /\ n = nextIndex /\ n \in DOMAIN fetched /\ r = fetched[n]
          /\ head' = r /\ seqPc = "process" /\ seqPc' = "clean"
          /\ fetched' = [h \in DOMAIN fetched \ {n} |-> fetched[h]]
          /\ UNCHANGED <<coinCache, pc, block>>
    BY NextExtends DEF shared, local
  <1> QED
    BY <1>1 DEF LinearInv, CacheIsExact, SeenCoinsAreCached

(* Taking out the coins of the added block takes out no other block's.            *)
LEMMA CleanCacheCache ==
    ASSUME NoForks, LinearInv, CleanCache
    PROVE  CacheIsExact'
  <1> USE DEF LinearInv, PipelineInv
  <1>1. /\ coinCache' = coinCache \ Creates[head] /\ UNCHANGED <<head, fetched, pc, block>>
        /\ head \in Blocks /\ Height[head] \in Nat /\ nextIndex = Height[head] + 1
    BY TreeShape, IndexerConstants
       DEF CleanCache, store, local, Inv, TypeOK, SequencerOK, nextIndex
  <1>2. ASSUME NEW h \in DOMAIN fetched
        PROVE  fetched[h] \in Blocks /\ Creates[fetched[h]] \cap Creates[head] = {}
    <2>1. fetched[h] \in Blocks /\ Height[fetched[h]] = h /\ h \in Nat /\ nextIndex <= h
      BY DEF NoOrphans, Inv, TypeOK, Results, SequencerOK, RangeOK, Ahead
    <2>2. fetched[h] # head
      BY <1>1, <2>1
    <2> QED
      BY <1>1, <2>1, <2>2, LinearCreates
  <1>3. ASSUME NEW q \in Procs, pc[q] \in Loaded
        PROVE  Creates[block[q]] \cap Creates[head] = {}
    <2>1. /\ block[q] \in Blocks /\ Height[block[q]] = index[q] /\ nextIndex <= index[q]
          /\ index[q] \in Nat
      BY <1>3, BusyIsAhead DEF Loaded, Inv, LocalOK
    <2>2. block[q] # head
      BY <1>1, <2>1
    <2> QED
      BY <1>1, <2>1, <2>2, LinearCreates
  <1>4. SeenCoinsAreCached'
    BY <1>1, <1>2 DEF CacheIsExact, SeenCoinsAreCached
  <1>5. \A q \in Procs : pc'[q] \in Loaded => Creates[block'[q]] \subseteq coinCache'
    BY <1>1, <1>3 DEF CacheIsExact
  <1> QED
    BY <1>1, <1>4, <1>5 DEF CacheIsExact

(* Every step keeps the cache exact.                                              *)
LEMMA NextCache == ASSUME NoForks, LinearInv, [Next]_vars PROVE CacheIsExact'
  <1> USE DEF LinearInv, PipelineInv, store, shared, local, syncer
  <1>1. CASE NodeAdvance \/ AtTip \/ UNCHANGED vars \/ WaitForResults \/ AbortWaits
    <2>1. /\ UNCHANGED <<head, fetched, coinCache, pc, block>>
          /\ seqPc = "clean" => seqPc' = "clean"
      BY <1>1 DEF NodeAdvance, AtTip, vars, WaitForResults, AbortWaits
    <2> QED
      BY <2>1, CacheFrame
  <1>2. ASSUME NEW p \in Procs, ProcStep(p) PROVE CacheIsExact'
    BY <1>2, ProcCache
  <1>3. ASSUME NEW f \in Fetchers, TakeIndex(f) PROVE CacheIsExact'
    <2>1. /\ UNCHANGED <<head, fetched, coinCache, block, seqPc>>
          /\ \A q \in Procs : pc'[q] = pc[q] \/ (pc[q] = "idle" /\ pc'[q] = "rawBlock")
      BY <1>3 DEF TakeIndex, Inv, TypeOK
    <2> QED
      BY <2>1, CacheFrame DEF Loaded
  <1>4. CASE StartRange
    <2>1. coinCache' = {} /\ DOMAIN fetched' = {} /\ pc' = pc
      BY <1>4, DoneIsClean DEF StartRange, EmptyTable
    <2>2. \A p \in Procs : pc[p] = "idle"
      BY <1>4 DEF StartRange, RangeDone, NoOrphans, Procs
    <2> QED
      BY <2>1, <2>2 DEF CacheIsExact, SeenCoinsAreCached, Loaded
  <1>5. CASE Restart
    BY <1>5 DEF Restart, CacheIsExact, SeenCoinsAreCached, Loaded, EmptyTable
  <1> QED
    BY <1>1, <1>2, <1>3, <1>4, <1>5, DeliverCache, ProcessCachedCache, CleanCacheCache,
       NeverRefetches DEF Next, FetcherStep, SequencerStep

--------------------------------------------------------------------------------
(* The range is covered                                                           *)

(* Every height up to the end of the range is on its way.                         *)
LEMMA NextCovered == ASSUME NoForks, LinearInv, [Next]_vars PROVE RangeIsCovered'
  <1> USE DEF LinearInv, PipelineInv, store, local, syncer
  <1>n. nextIndex \in Nat /\ endIndex \in Int /\ nextFetch \in Nat
    BY TreeShape DEF nextIndex, Inv, TypeOK
  <1>f. \A f \in Fetchers : f \in Procs /\ index[f] \in Nat
    BY DEF Procs, Inv, TypeOK
  <1>1. CASE \/ NodeAdvance \/ AtTip \/ UNCHANGED vars \/ WaitForResults \/ CleanCache
             \/ AbortWaits
    <2>1. /\ UNCHANGED <<head, endIndex, nextFetch, fetched, pc, index>>
          /\ seqPc' = "recv" => \/ seqPc = "recv" \/ nextIndex > endIndex
                                \/ nextIndex \notin DOMAIN fetched
      BY <1>1 DEF NodeAdvance, AtTip, vars, WaitForResults, CleanCache, AbortWaits
    <2> QED
      BY <2>1, CoveredFrame
  <1>2. ASSUME NEW p \in Procs, ProcStep(p) PROVE RangeIsCovered'
    <2>1. \A f \in Fetchers : pc[f] # "idle" => pc'[f] # "idle"
      BY <1>2, <1>f, ProcStepFrame
    <2> QED
      BY <1>2, <2>1, ProcStepFrame, CoveredFrame
  <1>3. ASSUME NEW f \in Fetchers, TakeIndex(f) PROVE RangeIsCovered'
    <2>1. /\ UNCHANGED <<head, endIndex, fetched, seqPc>> /\ nextFetch' = nextFetch + 1
          /\ pc'[f] = "rawBlock" /\ index'[f] = nextFetch /\ pc[f] = "idle"
          /\ \A g \in Fetchers \ {f} : pc'[g] = pc[g] /\ index'[g] = index[g]
      BY <1>3, <1>f DEF TakeIndex, Inv, TypeOK
    <2>2. nextIndex' = nextIndex
      BY <2>1 DEF nextIndex
    <2>3. ASSUME NEW n \in nextIndex .. endIndex
          PROVE  \/ n >= nextFetch'
                 \/ n \in DOMAIN fetched'
                 \/ \E g \in Fetchers : pc'[g] # "idle" /\ index'[g] = n
      <3>1. CASE n >= nextFetch /\ n # nextFetch
        BY <1>n, <2>1, <3>1
      <3>2. CASE n = nextFetch
        BY <2>1, <3>2
      <3>3. CASE ~(n >= nextFetch)
        BY <2>1, <3>3 DEF RangeIsCovered
      <3> QED
        BY <3>1, <3>2, <3>3
    <2> QED
      BY <2>1, <2>2, <2>3 DEF RangeIsCovered
  <1>4. ASSUME NEW f \in Fetchers, Deliver(f) PROVE RangeIsCovered'
    <2>1. /\ UNCHANGED <<head, endIndex, nextFetch>> /\ seqPc' = "process"
          /\ DOMAIN fetched' = DOMAIN fetched \cup {index[f]}
          /\ \A g \in Fetchers \ {f} : pc'[g] = pc[g] /\ index'[g] = index[g]
      BY <1>4, <1>f DEF Deliver, Forget, Inv, TypeOK
    <2>2. nextIndex' = nextIndex
      BY <2>1 DEF nextIndex
    <2> QED
      BY <2>1, <2>2 DEF RangeIsCovered
  <1>5. CASE ProcessCached
    <2>1. /\ nextIndex' = nextIndex + 1 /\ seqPc' = "clean"
          /\ DOMAIN fetched' = DOMAIN fetched \ {nextIndex}
          /\ UNCHANGED <<pc, index, endIndex, nextFetch>>
      BY <1>5, NextExtends
    <2>2. \A n \in nextIndex' .. endIndex' : n \in nextIndex .. endIndex /\ n # nextIndex
      BY <1>n, <2>1
    <2> QED
      BY <2>1, <2>2 DEF RangeIsCovered
  <1>6. CASE StartRange
    <2>1. DOMAIN fetched' = {} /\ nextFetch' = nextIndex /\ head' = head /\ endIndex' \in Int
      BY <1>6, TreeShape DEF StartRange, EmptyTable, Inv, TypeOK
    <2>2. nextIndex' = nextIndex
      BY <2>1 DEF nextIndex
    <2> QED
      BY <1>n, <2>1, <2>2 DEF RangeIsCovered
  <1>7. CASE Restart
    <2>1. DOMAIN fetched' = {} /\ endIndex' = -1 /\ head' = head
      BY <1>7 DEF Restart, EmptyTable
    <2>2. nextIndex' = nextIndex
      BY <2>1 DEF nextIndex
    <2> QED
      BY <1>n, <2>1, <2>2 DEF RangeIsCovered
  <1> QED
    BY <1>1, <1>2, <1>3, <1>4, <1>5, <1>6, <1>7, NeverRefetches
       DEF Next, FetcherStep, SequencerStep

--------------------------------------------------------------------------------
(* The theorems                                                                   *)

(* The process starts with nothing fetched and nobody waiting.                    *)
LEMMA LinearInit == Init => LinearInv
  <1> SUFFICES ASSUME Init PROVE LinearInv
    OBVIOUS
  <1>1. PipelineInv
    BY PipelineInit
  <1>2. /\ DOMAIN fetched = {} /\ DOMAIN waiter = {} /\ coinCache = {}
        /\ \A p \in Procs : pc[p] = "idle" /\ listening[p] = {} /\ orphan[p] = FALSE
        /\ endIndex = -1 /\ reorgStart = -1 /\ head = NoBlock /\ Sequencer \in Procs
    BY DEF Init, EmptyTable, Procs
  <1> HIDE DEF Init
  <1>3. NoOrphans /\ WaitsAreJustified
    BY <1>2 DEF NoOrphans, WaitsAreJustified
  <1>4. CacheIsExact /\ RangeIsCovered
    BY <1>2 DEF CacheIsExact, SeenCoinsAreCached, Loaded, RangeIsCovered, nextIndex
  <1> QED
    BY <1>1, <1>3, <1>4 DEF LinearInv

(* Every step keeps the invariant.                                                *)
LEMMA LinearNext == ASSUME NoForks PROVE LinearInv /\ [Next]_vars => LinearInv'
  <1> SUFFICES ASSUME LinearInv, [Next]_vars PROVE LinearInv'
    OBVIOUS
  <1>1. NoOrphans'
    BY NextNoOrphans
  <1>2. PipelineInv'
    BY PipelineNext DEF LinearInv
  <1> QED
    BY <1>1, <1>2, NextJustified, NextCache, NextCovered DEF LinearInv

(* On a chain without forks nothing is taken for an orphan, nobody waits for a    *)
(* coin that has been seen, coinCache holds exactly the coins of the blocks that  *)
(* are seen and not added, and every height of the range is on its way: for every *)
(* chain, any number of fetchers and restarts.                                    *)
THEOREM LinearInvariance == ASSUME NoForks PROVE Spec => []LinearInv
  BY LinearInit, LinearNext, PTL DEF Spec

(* On a chain without forks the coins of a block that waits to be added are in    *)
(* coinCache, so findCoin finds them there or, once it is added, in storage.      *)
THEOREM SeenCoinsStayCached == ASSUME NoForks PROVE Spec => []SeenCoinsAreCached
  <1>1. LinearInv => SeenCoinsAreCached
    BY DEF LinearInv, CacheIsExact
  <1> QED
    BY <1>1, LinearInvariance, PTL

(* On a chain without forks a range ends with an empty wait table, an empty       *)
(* coinCache and no unused result.                                                *)
THEOREM RangeLeavesNothing == ASSUME NoForks PROVE Spec => []NothingLeftBehind
  <1>1. LinearInv => NothingLeftBehind
    BY DoneIsClean DEF NothingLeftBehind
  <1> QED
    BY <1>1, LinearInvariance, PTL

(* On a chain without forks BlockRemoved is never called: the head never moves    *)
(* back.                                                                          *)
THEOREM HeadMovesForward == ASSUME NoForks PROVE Spec => HeadNeverMovesBack
  <1>1. LinearInv /\ [Next]_vars =>
            [head # NoBlock => head' # NoBlock /\ Height[head'] >= Height[head]]_vars
    <2> SUFFICES ASSUME LinearInv, [Next]_vars, head # NoBlock
                 PROVE  head' # NoBlock /\ Height[head'] >= Height[head]
      OBVIOUS
    <2>1. head \in Blocks /\ Height[head] \in Nat
      BY TreeShape DEF LinearInv, PipelineInv, Inv, TypeOK
    <2>2. CASE head' = head
      BY <2>1, <2>2
    <2>3. CASE ProcessCached
      <3>1. /\ head' \in Blocks /\ Height[head'] = nextIndex
        BY <2>3, NextExtends
      <3> QED
        BY <2>1, <3>1, IndexerConstants DEF nextIndex
    <2>4. CASE ~ProcessCached
      <3>1. ASSUME NEW p \in Procs, ProcStep(p) PROVE head' = head
        BY <3>1, ProcStepFrame DEF LinearInv, PipelineInv
      <3> QED
        BY <2>2, <2>4, <3>1, NeverRefetches
           DEF Next, NodeAdvance, FetcherStep, TakeIndex, Deliver, SequencerStep,
               WaitForResults, CleanCache, AbortWaits, StartRange, AtTip, Restart, vars, store
    <2> QED
      BY <2>3, <2>4
  <1> QED
    BY <1>1, LinearInvariance, PTL DEF Spec, HeadNeverMovesBack

--------------------------------------------------------------------------------
(* The pipeline and the pruner together                                           *)

(* What is proved about the pruner.                                               *)
Proved == INSTANCE PrunerProofs
    WITH tip <- Height[best], head <- HeadHeight, past <- past, request <- request,
         pruned <- pruned, restarts <- restarts, MaxRestarts <- MaxRestarts,
         MaxTip <- TopHeight, Depth <- Depth, MinHeight <- MinHeight,
         PastLimit <- PastLimit

--------------------------------------------------------------------------------
(* Using the proofs about the pruner                                              *)

(* TopHeight is the height of the highest block.                                  *)
LEMMA TopHeightIsHighest == TopHeight \in Nat /\ \A b \in Blocks : Height[b] <= TopHeight
<1>1. PICK n \in {Height[b] : b \in Blocks} : \A b \in Blocks : Height[b] <= n
  BY CompositionConstants
<1>2. /\ TopHeight \in {Height[b] : b \in Blocks}
      /\ \A b \in Blocks : Height[b] <= TopHeight
  BY <1>1 DEF TopHeight
<1> QED
  BY <1>2, TreeShape

(* The two instances of Pruner are the same.                                      *)
LEMMA SameInvariant == /\ Proved!PrunerInv <=> Heights!PrunerInv
                       /\ (Proved!PrunerInv <=> Heights!PrunerInv)'
BY DEF Proved!PrunerInv, Heights!PrunerInv, Proved!TypeOK, Heights!TypeOK,
       Proved!Floor, Heights!Floor, Proved!Reserve, Heights!Reserve, Proved!None,
       Heights!None

(* So are their steps.                                                            *)
LEMMA SameNext == Heights!Next \/ UNCHANGED Heights!vars => [Proved!Next]_(Proved!vars)
<1> USE DEF Proved!None, Heights!None, Proved!AtMostLimit, Heights!AtMostLimit
<1>1. Heights!NodeAdvance => Proved!NodeAdvance
  BY DEF Heights!NodeAdvance, Proved!NodeAdvance
<1>2. Heights!BlockAdded => Proved!BlockAdded
  BY DEF Heights!BlockAdded, Proved!BlockAdded
<1>3. Heights!BlockRemoved => Proved!BlockRemoved
  BY DEF Heights!BlockRemoved, Proved!BlockRemoved
<1>4. Heights!Tick => Proved!Tick
  BY DEF Heights!Tick, Proved!Tick
<1>5. Heights!PruneBlockchain => Proved!PruneBlockchain
  BY DEF Heights!PruneBlockchain, Proved!PruneBlockchain
<1>6. Heights!Restart => Proved!Restart
  BY DEF Heights!Restart, Proved!Restart
<1>7. UNCHANGED Heights!vars => UNCHANGED Proved!vars
  BY DEF Heights!vars, Proved!vars
<1> QED
  BY <1>1, <1>2, <1>3, <1>4, <1>5, <1>6, <1>7 DEF Heights!Next, Proved!Next

(* What the pruner's proof says about a step of the composition.                  *)
LEMMA PrunerStaysOK ==
    ASSUME Heights!PrunerInv, Heights!Next \/ UNCHANGED Heights!vars
    PROVE  Heights!PrunerInv'
<1>1. Proved!PrunerInv /\ [Proved!Next]_(Proved!vars) => Proved!PrunerInv'
  BY Proved!PrunerNextInv, TopHeightIsHighest, CompositionConstants, IndexerConstants
<1> QED
  BY <1>1, SameInvariant, SameNext

--------------------------------------------------------------------------------
(* The pipeline moves the head as the pruner's specification allows               *)

(* A block is added below the node's tip, or one above genesis is removed.        *)
LEMMA HeadMoves ==
    ASSUME PipelineInv, ProcessCached \/ ProcessRefetched
    PROVE  /\ UNCHANGED <<best, restarts>> /\ nextIndex \in Nat
           /\ \/ nextIndex' = nextIndex + 1 /\ nextIndex <= Height[best]
              \/ nextIndex' = nextIndex - 1 /\ nextIndex >= 2
<1>1. PICK r \in Results :
        /\ r # OrphanHead => Height[r] = nextIndex
        /\ r = OrphanHead => nextIndex >= 2
        /\ ProcessBlock(r)
  <2>1. CASE ProcessCached
    <3>1. nextIndex \in DOMAIN fetched /\ ProcessBlock(fetched[nextIndex])
      BY <2>1 DEF ProcessCached
    <3> QED
      BY <3>1, CachedResult DEF PipelineInv, OrphansOK
  <2>2. CASE ProcessRefetched
    <3>1. ProcessBlock(Result(Sequencer)) /\ seqPc = "fetching"
      BY <2>2 DEF ProcessRefetched
    <3>2. Result(Sequencer) = OrphanHead => nextIndex >= 2
      <4>1. index[Sequencer] = nextIndex
        BY <3>1 DEF PipelineInv, Inv, SequencerOK
      <4>2. OrphanOK(Sequencer) /\ block[Sequencer] \in Blocks \cup {NoBlock}
        BY DEF PipelineInv, OrphansOK, Procs, Inv, TypeOK
      <4> QED
        BY <4>1, <4>2, IndexerConstants DEF OrphanOK, Result
    <3> QED
      BY <3>1, <3>2, <2>2, RefetchedResult DEF PipelineInv
  <2> QED
    BY <2>1, <2>2
<1>2. UNCHANGED <<best, restarts>> /\ nextIndex \in Nat /\ best \in Blocks
  BY TreeShape DEF ProcessCached, ProcessRefetched, node, PipelineInv, Inv, TypeOK,
                   nextIndex
<1>3. nextIndex <= Height[best]
  <2>1. /\ endIndex \in Int /\ reorgStart \in Int /\ Height[best] \in Int
        /\ endIndex <= Height[best] /\ reorgStart <= endIndex
        /\ seqPc = "fetching" => nextIndex <= reorgStart
    BY TreeShape DEF PipelineInv, Inv, TypeOK, RangeOK
  <2>2. nextIndex <= endIndex
    BY <2>1, <1>2 DEF ProcessCached, ProcessRefetched
  <2> QED
    BY <2>1, <2>2, <1>2
<1>4. Inv
  BY DEF PipelineInv
<1>5. CASE nextIndex' = nextIndex + 1
  BY <1>5, <1>2, <1>3
<1>6. CASE ~Extends(r) /\ head \in Blocks /\ nextIndex' = nextIndex - 1
  <2>1. head \in Blocks \ {Genesis}
    BY <1>1, <1>4, <1>6, GenesisStays, IndexerConstants
  <2>2. Height[head] # 0 /\ Height[head] \in Nat
    BY <2>1, OnlyGenesisAtZero, TreeShape
  <2>3. nextIndex = Height[head] + 1
    BY <2>1, IndexerConstants DEF nextIndex
  <2> QED
    BY <1>6, <1>2, <2>2, <2>3
<1> QED
  BY <1>1, <1>4, <1>5, <1>6, ProcessBlockMoves

(* Every other step, except for a restart, leaves the head alone and does not     *)
(* lower the node's tip.                                                          *)
LEMMA HeadStays ==
    ASSUME PipelineInv, Next, ~ProcessCached, ~ProcessRefetched, ~Restart
    PROVE  /\ UNCHANGED <<head, restarts>>
           /\ best' = best \/ (best' \in Blocks /\ Height[best'] > Height[best])
<1>1. CASE NodeAdvance
  BY <1>1 DEF NodeAdvance, store
<1>2. ASSUME NEW p \in Procs, ProcStep(p) PROVE UNCHANGED <<best, head, restarts>>
  BY <1>2, ProcStepFrame DEF PipelineInv
<1>3. ASSUME NEW f \in Fetchers, FetcherStep(f) PROVE UNCHANGED <<best, head, restarts>>
  BY <1>3 DEF FetcherStep, TakeIndex, Deliver, store, node
<1>4. ASSUME SequencerStep \/ StartRange \/ AtTip PROVE UNCHANGED <<best, head, restarts>>
  BY <1>4 DEF SequencerStep, Refetch, WaitForResults, CleanCache, AbortWaits,
              StartRange, AtTip, vars, store, node
<1> QED
  BY <1>1, <1>2, <1>3, <1>4 DEF Next

(* nextIndex depends on the head only.                                            *)
LEMMA HeadHeightStays == ASSUME UNCHANGED head PROVE nextIndex' = nextIndex
BY DEF nextIndex

(* Every step of the composition is one of the pruner's specification.            *)
LEMMA PipelineStepMaps ==
    ASSUME PipelineInv, Heights!PrunerInv, PipelineStep
    PROVE  Heights!Next \/ UNCHANGED Heights!vars
<1>1. nextIndex \in Nat /\ Height[best] \in Nat /\ restarts \in Nat /\ past \in Nat
  BY TreeShape, CompositionConstants
     DEF PipelineInv, Inv, TypeOK, nextIndex, Heights!PrunerInv, Heights!TypeOK
<1>2. past <= PastLimit /\ PastLimit \in Nat
  BY CompositionConstants DEF Heights!PrunerInv, Heights!TypeOK
<1>3. /\ Next /\ PastBlocks /\ pruned' = pruned
      /\ request' = IF restarts' # restarts THEN Heights!None ELSE request
  BY DEF PipelineStep
<1>4. CASE Restart
  <2>1. /\ restarts < MaxRestarts /\ restarts' = restarts + 1 /\ head' = head
        /\ best' = best
    BY <1>4 DEF Restart, store, node
  <2>2. nextIndex' = nextIndex
    BY <2>1, HeadHeightStays
  <2>3. past' = CreateBlockCache /\ request' = Heights!None
    BY <2>1, <2>2, <1>1, <1>3 DEF PastBlocks
  <2>4. Heights!Restart
    BY <2>1, <2>2, <2>3, <1>1, <1>3
       DEF Heights!Restart, HeadHeight, CreateBlockCache, Heights!AtMostLimit
  <2> QED
    BY <2>4 DEF Heights!Next
<1>5. CASE ProcessCached \/ ProcessRefetched
  <2>1. /\ UNCHANGED <<best, restarts>>
        /\ \/ nextIndex' = nextIndex + 1 /\ nextIndex <= Height[best]
           \/ nextIndex' = nextIndex - 1 /\ nextIndex >= 2
    BY <1>5, HeadMoves
  <2>2. request' = request
    BY <2>1, <1>3
  <2>3. CASE nextIndex' = nextIndex + 1 /\ nextIndex <= Height[best]
    <3>1. past' = IF past = PastLimit THEN past ELSE past + 1
      BY <2>1, <2>3, <1>1, <1>3 DEF PastBlocks
    <3>2. Heights!BlockAdded
      BY <2>1, <2>2, <2>3, <3>1, <1>1, <1>2, <1>3
         DEF Heights!BlockAdded, HeadHeight, Heights!AtMostLimit
    <3> QED
      BY <3>2 DEF Heights!Next
  <2>4. CASE nextIndex' = nextIndex - 1 /\ nextIndex >= 2
    <3>1. past > 0 /\ past' = past - 1
      BY <2>1, <2>4, <1>1, <1>3 DEF PastBlocks
    <3>2. Heights!BlockRemoved
      BY <2>1, <2>2, <2>4, <3>1, <1>1, <1>3 DEF Heights!BlockRemoved, HeadHeight
    <3> QED
      BY <3>2 DEF Heights!Next
  <2> QED
    BY <2>1, <2>3, <2>4
<1>6. CASE ~(ProcessCached \/ ProcessRefetched) /\ ~Restart
  <2>1. /\ UNCHANGED <<head, restarts>>
        /\ best' = best \/ (best' \in Blocks /\ Height[best'] > Height[best])
    BY <1>3, <1>6, HeadStays
  <2>2. nextIndex' = nextIndex
    BY <2>1, HeadHeightStays
  <2>3. past' = past /\ request' = request
    BY <2>1, <2>2, <1>1, <1>3 DEF PastBlocks
  <2>4. CASE best' = best
    BY <2>1, <2>2, <2>3, <2>4, <1>3 DEF Heights!vars, HeadHeight
  <2>5. CASE best' \in Blocks /\ Height[best'] > Height[best]
    <3>1. Height[best'] \in Height[best] + 1 .. TopHeight
      BY <2>5, <1>1, TopHeightIsHighest, TreeShape
    <3>2. Heights!NodeAdvance
      BY <2>1, <2>2, <2>3, <3>1, <1>3 DEF Heights!NodeAdvance, HeadHeight
    <3> QED
      BY <3>2 DEF Heights!Next
  <2> QED
    BY <2>1, <2>4, <2>5
<1> QED
  BY <1>4, <1>5, <1>6

--------------------------------------------------------------------------------
(* The invariant of the composition: what is proved of each part, and nothing     *)
(* more.                                                                          *)
Together == PipelineInv /\ Heights!PrunerInv

(* Both parts start as their specifications say.                                  *)
LEMMA PrunedInitOK == PrunedInit => Together /\ Heights!Init
<1> SUFFICES ASSUME PrunedInit PROVE Together /\ Heights!Init
  OBVIOUS
<1>1. Init /\ past = 0 /\ request = -1 /\ pruned = -1
  BY DEF PrunedInit, Heights!None
<1>2. PipelineInv
  BY <1>1, PipelineInit
<1>3. nextIndex = 0 /\ restarts = 0 /\ best \in Blocks
  BY <1>1 DEF Init, nextIndex
<1>4. Height[best] \in 0 .. TopHeight
  BY <1>3, TopHeightIsHighest, TreeShape
<1>5. Heights!Init
  BY <1>1, <1>3, <1>4 DEF Heights!Init, Heights!None, HeadHeight
<1>6. Heights!PrunerInv
  BY <1>1, <1>3, <1>4, CompositionConstants, IndexerConstants, TopHeightIsHighest
     DEF Heights!PrunerInv, Heights!TypeOK, Heights!Floor, Heights!None, HeadHeight
<1> QED
  BY <1>2, <1>5, <1>6 DEF Together

(* Every step keeps both invariants and maps to a step of the pruner or to none.  *)
LEMMA PrunedNextOK ==
    Together /\ [PrunedNext]_allVars => Together' /\ [Heights!Next]_(Heights!vars)
<1> SUFFICES ASSUME Together, [PrunedNext]_allVars
             PROVE  Together' /\ [Heights!Next]_(Heights!vars)
  OBVIOUS
<1>1. PipelineInv'
  BY PipelineNext DEF Together, PrunedNext, PipelineStep, PrunerStep, allVars
<1>2. Heights!Next \/ UNCHANGED Heights!vars
  <2>1. CASE PipelineStep
    BY <2>1, PipelineStepMaps DEF Together
  <2>2. CASE PrunerStep
    BY <2>2 DEF PrunerStep, Heights!Next
  <2>3. CASE UNCHANGED allVars
    <3>1. UNCHANGED <<best, head, restarts, past, request, pruned>>
      BY <2>3 DEF allVars, vars, node, store
    <3> QED
      BY <3>1, HeadHeightStays DEF Heights!vars, HeadHeight
  <2> QED
    BY <2>1, <2>2, <2>3 DEF PrunedNext
<1>3. Heights!PrunerInv'
  BY <1>2, PrunerStaysOK DEF Together
<1> QED
  BY <1>1, <1>2, <1>3 DEF Together

(* Pipeline and pruner keep their invariants when they run together.              *)
THEOREM TogetherInvariance == PrunedSpec => []Together
BY PrunedInitOK, PrunedNextOK, PTL DEF PrunedSpec

(* The composition implements the pruner's specification: syncer and node move    *)
(* head and tip in no other way than the one assumed there, so that what is       *)
(* proved of Pruner is true of the running process.                               *)
THEOREM CompositionFollowsPruner == PrunedSpec => FollowsPruner
BY PrunedInitOK, PrunedNextOK, PTL DEF PrunedSpec, FollowsPruner, Heights!Spec

(* No GetRawBlock, for a block far ahead of the head or again during a reorg,     *)
(* asks bitcoind for a block that Prune has made it delete.                       *)
THEOREM FetchesStayServed == PrunedSpec => []FetchesAreServed
<1>1. Together => FetchesAreServed
  <2> SUFFICES ASSUME Together, NEW p \in Procs, pc[p] = "rawBlock"
               PROVE  index[p] > pruned
    BY DEF FetchesAreServed
  <2>1. nextIndex <= index[p] /\ index[p] \in Nat /\ nextIndex \in Nat
    BY BusyIsAhead DEF Together, PipelineInv
  <2>2. pruned \in Int /\ pruned <= nextIndex - 1
    BY <2>1, CompositionConstants
       DEF Together, Heights!PrunerInv, Heights!TypeOK, Heights!Floor, Heights!None,
           HeadHeight
  <2> QED
    BY <2>1, <2>2
<1> QED
  BY <1>1, TogetherInvariance, PTL
================================================================================
