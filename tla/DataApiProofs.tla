----------------------------- MODULE DataApiProofs -----------------------------
(* The data endpoints answer consistently on every block tree, whatever the       *)
(* syncer does between their reads.                                               *)
EXTENDS DataApi, TLAPS

(* What is stored are blocks.                                                     *)
LEMMA StoredAreBlocks == ASSUME NEW h \in Blocks \cup {NoBlock}
                         PROVE  Stored(h) \subseteq Blocks
BY BranchShape DEF Stored

(* The transactions of a block are transactions.                                  *)
LEMMA TxsOfBlock == ASSUME NEW b \in Blocks PROVE TxsIn(b) \subseteq Txs
BY CoinShape DEF TxsIn

(* What a lookup finds is a block.  Only a hash names one that was not added.     *)
LEMMA LookupFinds ==
    ASSUME NEW s \in Storages, NEW i \in Identifiers, NEW b \in Lookup(s, i)
    PROVE  b \in Blocks /\ (i.by # "hash" => b \in Stored(s.head))
<1>1. i.by # "hash" => b = s.head \/ b \in Stored(s.head)
  BY DEF Lookup
<1>2. b \in Blocks /\ b # NoBlock
  BY DataApiConstants DEF Lookup
<1>3. b \in Branch[b]
  <2>1. CASE b = Genesis
    BY <2>1, BranchShape
  <2>2. CASE b # Genesis
    BY <2>2, <1>2, BranchShape
  <2> QED
    BY <2>1, <2>2
<1> QED
  BY <1>1, <1>2, <1>3 DEF Stored

(* A block that has been added is the last one up to its height.                  *)
LEMMA LastIsItself ==
    ASSUME NEW s \in Storages, NEW b \in Stored(s.head)
    PROVE  LastUpTo(s, Height[b]) = {b}
<1>1. s.head \in Blocks /\ b \in Branch[s.head] /\ b \in Blocks
  BY StoredAreBlocks DEF Stored, Storages
<1>2. \A d \in Branch[s.head] : d \in Blocks /\ (Height[d] = Height[b] => d = b)
  BY <1>1, BranchShape
<1>3. \A d \in Branch[s.head] : Height[d] \in Nat
  BY <1>2, TreeShape
<1>4. Stored(s.head) = Branch[s.head]
  BY <1>1, DataApiConstants DEF Stored
<1>5. b \in LastUpTo(s, Height[b])
  BY <1>1, <1>3, <1>4 DEF LastUpTo
<1>6. ASSUME NEW d \in LastUpTo(s, Height[b]) PROVE d = b
  <2>1. d \in Branch[s.head] /\ Height[d] <= Height[b] /\ Height[b] <= Height[d]
    BY <1>1, <1>3, <1>4 DEF LastUpTo
  <2> QED
    BY <2>1, <1>1, <1>2, <1>3
<1> QED
  BY <1>5, <1>6

(* The initial state: nobody has read anything.                                   *)
LEMMA DataInitInv == Init => DataInv
BY DEF Init, DataInv, TypeOK, RequestOK, BlockAnswersAreWhole, BalancesMatchBlock,
       BalanceMatches, PCs, Latest, Identifiers, Storages, Empty, Stored

(* Steps that change only what is stored leave what requests have read alone.     *)
LEMMA RequestsStay ==
    ASSUME DataInv, UNCHANGED request, head' \in Blocks \cup {NoBlock}, seen' \subseteq Blocks,
           Stored(head') \subseteq seen'
    PROVE  DataInv'
<1> USE DEF request
<1>1. TypeOK'
  BY DEF DataInv, TypeOK
<1>2. \A q \in Requests : RequestOK(q)'
  BY DEF DataInv, RequestOK, WasAdded, Stored
<1>3. BlockAnswersAreWhole' /\ BalancesMatchBlock'
  BY DEF DataInv, BlockAnswersAreWhole, BalancesMatchBlock, BalanceMatches, WasAdded, Stored
<1>4. (Stored(head) \subseteq seen)'
  BY DEF Stored
<1> QED
  BY <1>1, <1>2, <1>3, <1>4 DEF DataInv

(* A removed block is not among its ancestors.                                    *)
LEMMA ParentBranch ==
    ASSUME NEW b \in Blocks \ {Genesis}
    PROVE  Branch[b] = Branch[Parent[b]] \cup {b} /\ b \notin Branch[Parent[b]]
<1>1. Parent[b] \in Blocks /\ Height[b] = Height[Parent[b]] + 1 /\ Height[Parent[b]] \in Nat
  BY TreeShape
<1>2. ASSUME b \in Branch[Parent[b]] PROVE FALSE
  BY <1>1, <1>2, BranchShape
<1> QED
  BY <1>2, BranchShape

(* The syncer keeps the blocks that have been added.                              *)
LEMMA SyncerInv == DataInv /\ (BlockSeen \/ BlockAdded \/ BlockRemoved) => DataInv'
<1> SUFFICES ASSUME DataInv, BlockSeen \/ BlockAdded \/ BlockRemoved PROVE DataInv'
  OBVIOUS
<1>t. head \in Blocks \cup {NoBlock} /\ seen \subseteq Blocks /\ Stored(head) \subseteq seen
  BY DEF DataInv, TypeOK
<1>1. CASE BlockSeen
  <2>1. UNCHANGED <<head, request>> /\ seen \subseteq seen' /\ seen' \subseteq Blocks
    BY <1>1, <1>t DEF BlockSeen
  <2> QED
    BY <2>1, <1>t, RequestsStay
<1>2. CASE BlockAdded
  <2>1. PICK b \in seen : /\ head' = b /\ UNCHANGED <<seen, request>>
                          /\ IF head = NoBlock THEN b = Genesis
                             ELSE b # Genesis /\ Parent[b] = head
    BY <1>2 DEF BlockAdded
  <2>2. Stored(b) \subseteq seen
    <3>1. CASE head = NoBlock
      BY <3>1, <2>1, BranchShape DEF Stored
    <3>2. CASE head # NoBlock
      BY <3>2, <2>1, <1>t, ParentBranch DEF Stored
    <3> QED
      BY <3>1, <3>2
  <2> QED
    BY <2>1, <2>2, <1>t, RequestsStay
<1>3. CASE BlockRemoved
  <2>1. /\ head \in Blocks \ {Genesis} /\ head' = Parent[head] /\ seen' = seen \ {head}
        /\ UNCHANGED request
    BY <1>3, <1>t DEF BlockRemoved
  <2>2. head' \in Blocks /\ head' # NoBlock
    BY <2>1, TreeShape, DataApiConstants
  <2>3. Stored(head') \subseteq seen'
    BY <2>1, <2>2, <1>t, ParentBranch, DataApiConstants DEF Stored
  <2> QED
    BY <2>1, <2>2, <2>3, <1>t, RequestsStay
<1> QED
  BY <1>1, <1>2, <1>3

(* What r reads changes nothing for the other requests, nor what is stored.       *)
LEMMA OneReads ==
    ASSUME DataInv, NEW r \in Requests, TypeOK', UNCHANGED storage,
           \A q \in Requests \ {r} :
               /\ pc'[q] = pc[q] /\ asked'[q] = asked[q] /\ account'[q] = account[q]
               /\ snap'[q] = snap[q] /\ found'[q] = found[q] /\ todo'[q] = todo[q]
               /\ got'[q] = got[q] /\ coins'[q] = coins[q],
           RequestOK(r)',
           pc'[r] = "whole" => got'[r] = {<<t, found'[r]>> : t \in TxsIn(found'[r])},
           ((asked[r].by = "hash" => WasAdded(r)) => BalanceMatches(r))'
    PROVE  DataInv'
<1>1. ASSUME NEW q \in Requests \ {r} PROVE RequestOK(q)'
  BY DEF DataInv, RequestOK, WasAdded, Stored
<1>2. BlockAnswersAreWhole'
  BY DEF DataInv, BlockAnswersAreWhole
<1>3. BalancesMatchBlock'
  BY DEF DataInv, BalancesMatchBlock, BalanceMatches, WasAdded, Stored, CoinsAt
<1>4. (Stored(head) \subseteq seen)'
  BY DEF DataInv, Stored, storage
<1> QED
  BY <1>1, <1>2, <1>3, <1>4 DEF DataInv

(* A request that arrives has read nothing.                                       *)
LEMMA ArriveInv == ASSUME DataInv, NEW r \in Requests, Arrive(r) PROVE DataInv'
<1>1. \A b \in Blocks : Height[b] \in Nat
  BY TreeShape
<1>2. PICK start \in {"lazy", "begin", "coins"}, i \in Identifiers,
           a \in Accounts \cup {NoAccount} : Ask(r, start, i, a)
  BY <1>1 DEF Arrive, Identifiers
<1> USE <1>2 DEF Ask
<1>3. TypeOK'
  BY DEF DataInv, TypeOK, PCs, storage
<1>4. RequestOK(r)' /\ pc'[r] \notin {"whole", "paid"}
  BY DEF DataInv, TypeOK, RequestOK
<1> QED
  BY <1>3, <1>4, OneReads DEF DataInv, TypeOK, BalanceMatches

(* A request that fails answers nothing.                                          *)
LEMMA FailInv ==
    ASSUME DataInv, NEW r \in Requests, Fail(r), UNCHANGED <<storage, asked, account, snap>>
    PROVE  DataInv'
<1> USE DEF Fail
<1>1. TypeOK'
  BY DEF DataInv, TypeOK, PCs, storage
<1>2. RequestOK(r)' /\ pc'[r] \notin {"whole", "paid"}
  BY DEF DataInv, TypeOK, RequestOK
<1> QED
  BY <1>1, <1>2, OneReads DEF DataInv, TypeOK, BalanceMatches

(* What a database transaction sees is a state of the storage.                    *)
LEMMA NowIsStorage == ASSUME DataInv PROVE Now \in Storages
BY DEF Now, Storages, DataInv, TypeOK

(* /block reads its block: no transaction has been read yet.                      *)
LEMMA GetBlockLazyInv ==
    ASSUME DataInv, NEW r \in Requests, GetBlockLazy(r) PROVE DataInv'
<1>1. CASE Fail(r)
  BY <1>1, FailInv DEF GetBlockLazy
<1>2. CASE ~Fail(r)
  <2>1. PICK b \in Lookup(Now, asked[r]) :
           /\ found' = [found EXCEPT ![r] = b]
           /\ todo' = [todo EXCEPT ![r] = TxsIn(b)]
           /\ pc' = [pc EXCEPT ![r] =
                        IF Cardinality(TxsIn(b)) > inlineFetchLimit THEN "listed"
                        ELSE IF TxsIn(b) = {} THEN "whole" ELSE "txs"]
           /\ UNCHANGED <<got, coins>>
    BY <1>2 DEF GetBlockLazy
  <2>2. b \in Blocks /\ TxsIn(b) \subseteq Txs /\ got[r] = {}
    <3>1. b \in Blocks
      BY NowIsStorage, LookupFinds DEF DataInv, TypeOK
    <3> QED
      BY <3>1, TxsOfBlock DEF DataInv, RequestOK, GetBlockLazy
  <2>3. UNCHANGED <<storage, asked, account, snap>> /\ pc[r] = "lazy"
    BY DEF GetBlockLazy
  <2>4. pc'[r] \in {"listed", "whole", "txs"} /\ (pc'[r] = "whole" => TxsIn(b) = {})
    BY <2>1 DEF DataInv, TypeOK
  <2>5. TypeOK'
    BY <2>1, <2>2, <2>3, <2>4 DEF DataInv, TypeOK, PCs, storage
  <2>6. /\ found'[r] = b /\ todo'[r] = TxsIn(b) /\ got'[r] = {}
        /\ \A q \in Requests \ {r} : /\ pc'[q] = pc[q] /\ found'[q] = found[q]
                                      /\ todo'[q] = todo[q]
    BY <2>1, <2>2 DEF DataInv, TypeOK
  <2>7. RequestOK(r)'
    BY <2>2, <2>4, <2>6 DEF RequestOK
  <2> QED
    BY <2>1, <2>3, <2>4, <2>5, <2>6, <2>7, OneReads DEF BalanceMatches
<1> QED
  BY <1>1, <1>2

(* /block or its caller reads a transaction: it is looked up in the block of the  *)
(* answer.                                                                        *)
LEMMA GetBlockTransactionInv ==
    ASSUME DataInv, NEW r \in Requests, InlineTransaction(r) \/ BlockTransaction(r)
    PROVE  DataInv'
<1> USE DEF InlineTransaction, BlockTransaction
<1>1. CASE Fail(r)
  BY <1>1, FailInv
<1>2. CASE ~Fail(r)
  <2>1. PICK t \in todo[r] : \E b \in TransactionIn(r, t) :
           /\ got' = [got EXCEPT ![r] = @ \cup {<<t, b>>}]
           /\ todo' = [todo EXCEPT ![r] = @ \ {t}]
           /\ pc' = [pc EXCEPT ![r] = IF todo[r] = {t} THEN "whole" ELSE @]
           /\ UNCHANGED <<found, coins>>
    BY <1>2 DEF GetBlockTransaction
  <2>2. UNCHANGED <<storage, asked, account, snap>> /\ pc[r] \in {"txs", "listed"}
    OBVIOUS
  <2>3. /\ found[r] \in Blocks /\ todo[r] \subseteq TxsIn(found[r])
        /\ got[r] = {<<s, found[r]>> : s \in TxsIn(found[r]) \ todo[r]}
        /\ TxsIn(found[r]) \subseteq Txs
    BY <2>2, TxsOfBlock DEF DataInv, RequestOK
  <2>4. got' = [got EXCEPT ![r] = @ \cup {<<t, found[r]>>}]
    BY <2>1 DEF TransactionIn
  <2>5. got'[r] = {<<s, found[r]>> : s \in TxsIn(found[r]) \ (todo[r] \ {t})}
    BY <2>1, <2>3, <2>4 DEF DataInv, TypeOK
  <2>6. /\ pc' = [pc EXCEPT ![r] = IF todo[r] = {t} THEN "whole" ELSE @]
        /\ todo' = [todo EXCEPT ![r] = @ \ {t}]
        /\ UNCHANGED <<found, coins>>
    BY <2>1
  <2>7. TypeOK'
    BY <2>2, <2>3, <2>4, <2>6 DEF DataInv, TypeOK, PCs, storage
  <2>8. /\ pc'[r] = (IF todo[r] = {t} THEN "whole" ELSE pc[r]) /\ todo'[r] = todo[r] \ {t}
        /\ \A q \in Requests \ {r} : /\ pc'[q] = pc[q] /\ todo'[q] = todo[q]
                                      /\ got'[q] = got[q]
    BY <2>4, <2>6 DEF DataInv, TypeOK
  <2>9. RequestOK(r)' /\ pc'[r] # "paid"
    BY <2>2, <2>3, <2>5, <2>6, <2>8 DEF RequestOK
  <2>10. pc'[r] = "whole" => got'[r] = {<<s, found'[r]>> : s \in TxsIn(found'[r])}
    <3> SUFFICES ASSUME pc'[r] = "whole"
                 PROVE  got'[r] = {<<s, found'[r]>> : s \in TxsIn(found'[r])}
      OBVIOUS
    <3>1. todo[r] \ {t} = {}
      BY <2>2, <2>8
    <3> QED
      BY <3>1, <2>5, <2>6
  <2> QED
    BY <2>2, <2>6, <2>7, <2>8, <2>9, <2>10, OneReads DEF BalanceMatches
<1> QED
  BY <1>1, <1>2

(* /account/balance opens its database transaction.                               *)
LEMMA ReadTransactionInv ==
    ASSUME DataInv, NEW r \in Requests, ReadTransaction(r) PROVE DataInv'
<1> USE DEF ReadTransaction
<1>1. TypeOK'
  BY NowIsStorage DEF DataInv, TypeOK, PCs, storage
<1>2. RequestOK(r)' /\ pc'[r] \notin {"whole", "paid"}
  BY DEF DataInv, TypeOK, RequestOK
<1>3. \A q \in Requests \ {r} : pc'[q] = pc[q] /\ snap'[q] = snap[q]
  BY DEF DataInv, TypeOK
<1> QED
  BY <1>1, <1>2, <1>3, OneReads DEF BalanceMatches

(* /account/balance reads its block inside the database transaction.              *)
LEMMA BalanceBlockInv ==
    ASSUME DataInv, NEW r \in Requests, BalanceBlock(r) PROVE DataInv'
<1>1. CASE Fail(r)
  BY <1>1, FailInv DEF BalanceBlock
<1>2. CASE ~Fail(r)
  <2>1. PICK b \in Lookup(snap[r], asked[r]) :
           /\ found' = [found EXCEPT ![r] = b]
           /\ pc' = [pc EXCEPT ![r] = "balance"]
           /\ UNCHANGED <<todo, got, coins>>
    BY <1>2 DEF BalanceBlock
  <2>2. b \in Blocks /\ (asked[r].by # "hash" => b \in Stored(snap[r].head))
    BY LookupFinds DEF DataInv, TypeOK
  <2>3. UNCHANGED <<storage, asked, account, snap>> /\ pc[r] = "block"
    BY DEF BalanceBlock
  <2>4. TypeOK'
    BY <2>1, <2>2, <2>3 DEF DataInv, TypeOK, PCs, storage
  <2>5. /\ found'[r] = b /\ pc'[r] = "balance"
        /\ \A q \in Requests \ {r} : pc'[q] = pc[q] /\ found'[q] = found[q]
    BY <2>1 DEF DataInv, TypeOK
  <2>6. RequestOK(r)'
    BY <2>2, <2>3, <2>5 DEF RequestOK, WasAdded, Stored
  <2> QED
    BY <2>1, <2>3, <2>4, <2>5, <2>6, OneReads DEF BalanceMatches
<1> QED
  BY <1>1, <1>2

(* /account/balance reads the balance up to the height of its block, which is     *)
(* that block's because the database transaction still sees the same chain, if    *)
(* the block is in that chain.                                                    *)
LEMMA GetBalanceInv ==
    ASSUME DataInv, NEW r \in Requests, GetBalance(r) PROVE DataInv'
<1> USE DEF GetBalance
<1>1. snap[r] \in Storages /\ (asked[r].by # "hash" => WasAdded(r))
  BY DEF DataInv, TypeOK, RequestOK
<1>2. ASSUME WasAdded(r) PROVE BalanceInside(r) = CoinsAt(found[r], account[r])
  <2>1. LastUpTo(snap[r], Height[found[r]]) = {found[r]}
    BY <1>1, <1>2, LastIsItself DEF WasAdded
  <2> QED
    BY <2>1 DEF BalanceInside, BalanceIn, CoinsAt, Utxo
<1>3. TypeOK'
  BY DEF DataInv, TypeOK, PCs, BalanceInside, BalanceIn, storage
<1>4. /\ pc'[r] = "paid" /\ coins'[r] = BalanceInside(r)
      /\ \A q \in Requests \ {r} : pc'[q] = pc[q] /\ coins'[q] = coins[q]
  BY DEF DataInv, TypeOK
<1>5. RequestOK(r)'
  BY <1>4 DEF RequestOK
<1>6. ((asked[r].by = "hash" => WasAdded(r)) => BalanceMatches(r))'
  BY <1>1, <1>2, <1>4 DEF BalanceMatches, WasAdded, Stored, CoinsAt
<1> QED
  BY <1>3, <1>4, <1>5, <1>6, OneReads

(* /account/coins reads coins and head at once.                                   *)
LEMMA GetCoinsInv ==
    ASSUME DataInv, NEW r \in Requests, GetCoins(r) PROVE DataInv'
<1>1. CASE Fail(r)
  BY <1>1, FailInv DEF GetCoins
<1>2. CASE ~Fail(r)
  <2>1. /\ head \in Blocks
        /\ found' = [found EXCEPT ![r] = head]
        /\ coins' = [coins EXCEPT ![r] = CoinsAt(head, account[r])]
        /\ pc' = [pc EXCEPT ![r] = "paid"]
        /\ UNCHANGED <<todo, got>>
        /\ UNCHANGED <<storage, asked, account, snap>>
        /\ pc[r] = "coins"
    BY <1>2 DEF GetCoins, DataInv, TypeOK
  <2>2. CoinsAt(head, account[r]) \subseteq Coins
    BY DEF CoinsAt, Utxo
  <2>3. TypeOK'
    BY <2>1, <2>2 DEF DataInv, TypeOK, PCs, storage
  <2>4. /\ pc'[r] = "paid" /\ found'[r] = head /\ coins'[r] = CoinsAt(head, account[r])
        /\ \A q \in Requests \ {r} : /\ pc'[q] = pc[q] /\ found'[q] = found[q]
                                      /\ coins'[q] = coins[q]
    BY <2>1 DEF DataInv, TypeOK
  <2>5. RequestOK(r)' /\ BalanceMatches(r)'
    BY <2>1, <2>4 DEF RequestOK, BalanceMatches, CoinsAt
  <2> QED
    BY <2>1, <2>3, <2>4, <2>5, OneReads
<1> QED
  BY <1>1, <1>2

(* Every step of the syncer and of a request keeps the invariant.                 *)
LEMMA DataNextInv == DataInv /\ [Next]_vars => DataInv'
<1> SUFFICES ASSUME DataInv, [Next]_vars PROVE DataInv'
  OBVIOUS
<1>1. CASE BlockSeen \/ BlockAdded \/ BlockRemoved
  BY <1>1, SyncerInv
<1>2. ASSUME NEW r \in Requests, Arrive(r) PROVE DataInv'
  BY <1>2, ArriveInv
<1>3. ASSUME NEW r \in Requests, Serve(r) PROVE DataInv'
  BY <1>3, GetBlockLazyInv, GetBlockTransactionInv, ReadTransactionInv,
     BalanceBlockInv, GetBalanceInv, GetCoinsInv DEF Serve
<1>4. CASE UNCHANGED vars
  BY <1>4, RequestsStay DEF vars, storage, DataInv, TypeOK, Stored
<1> QED
  BY <1>1, <1>2, <1>3, <1>4 DEF Next

(* What requests have read is consistent in every reachable state.                *)
THEOREM DataInvariance == Spec => []DataInv
BY DataInitInv, DataNextInv, PTL DEF Spec

(* /block never answers with a mixture of two blocks.                             *)
THEOREM BlockAnswersCorrect == Spec => []BlockAnswersAreWhole
<1>1. DataInv => BlockAnswersAreWhole
  BY DEF DataInv
<1> QED
  BY <1>1, DataInvariance, PTL

(* /account/balance and /account/coins answer for the block they name, if it is   *)
(* one that has been added.                                                       *)
THEOREM BalancesCorrect == Spec => []BalancesMatchBlock
<1>1. DataInv => BalancesMatchBlock
  BY DEF DataInv
<1> QED
  BY <1>1, DataInvariance, PTL
================================================================================
