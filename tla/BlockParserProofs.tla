--------------------------- MODULE BlockParserProofs ---------------------------
(* For every valid chain: GetRawBlock asks for coins that storage has, ParseBlock *)
(* knows every coin it needs, coin storage stays the node's set of unspent coins  *)
(* through blocks that are added and removed, and scripts are found again.        *)
EXTENDS BlockParser, Sums

--------------------------------------------------------------------------------
(* The operators                                                                  *)

(* Every coin has an account: an address, the script or the coin itself.          *)
LEMMA AccountType == ASSUME NEW c \in Coins PROVE Account(c) \in Accounts
<1>1. CASE \E a \in Accounts : Addresses[c] = {a}
  <2>1. Account(c) = CHOOSE a \in Accounts : Addresses[c] = {a}
    BY <1>1 DEF Account
  <2> QED
    BY <1>1, <2>1
<1>2. CASE ~\E a \in Accounts : Addresses[c] = {a}
  BY <1>2, ParserConstants DEF Account
<1> QED
  BY <1>1, <1>2

(* The inputs of a transaction are numbered, each once.                           *)
LEMMA NumberedInputs ==
    ASSUME NEW S, S \subseteq Coins
    PROVE  /\ Len(SetToSeq(S)) \in Nat
           /\ SetToSeq(S) \in [1 .. Len(SetToSeq(S)) -> S]
           /\ \A c \in S : \E i \in 1 .. Len(SetToSeq(S)) : SetToSeq(S)[i] = c
           /\ \A i, j \in 1 .. Len(SetToSeq(S)) : SetToSeq(S)[i] = SetToSeq(S)[j] => i = j
<1> DEFINE n == Cardinality(S)
<1>1. IsFiniteSet(S) /\ n \in Nat
  BY ParserConstants, FS_Subset, FS_CardinalityType
<1>2. PICK g \in [1 .. n -> S] : IsInjective(g)
  BY <1>1, FS_CardinalityType DEF ExistsBijection, Bijection, Injection, IsInjective
<1>3. SetToSeq(S) \in [1 .. n -> S] /\ IsInjective(SetToSeq(S))
  BY <1>2 DEF SetToSeq
<1>4. SetToSeq(S) \in Injection(1 .. n, S)
  BY <1>3 DEF Injection, IsInjective
<1>5. IsFiniteSet(1 .. n) /\ Cardinality(1 .. n) = n
  BY <1>1, FS_Interval
<1>6. SetToSeq(S) \in Surjection(1 .. n, S)
  BY <1>1, <1>4, <1>5, FS_Injection
<1>7. Len(SetToSeq(S)) = n
  BY <1>1, <1>3
<1> QED
  BY <1>1, <1>3, <1>6, <1>7 DEF Surjection, IsInjective

(* The coins of the operations with this coin change, successful or not           *)
WithChange(block, change) == CoinsOf({o \in block : o.change = change})

(* What becomes of an input.                                                      *)
LEMMA InputOpOK ==
    ASSUME NEW t \in Txs, NEW c \in Coins, NEW n \in Nat, coinMap[c] = CoinOf(c),
           NEW o, o = InputOp(t, c, n)
    PROVE  /\ o \in Operations
           /\ o.coin = c /\ o.type = "INPUT" /\ o.change = "spent"
           /\ o.account = Account(c) /\ o.amount = -Value[c]
<1>1. coinMap[c].account = Account(c) /\ coinMap[c].value = Value[c]
  BY DEF CoinOf
<1>2. Account(c) \in Accounts /\ Value[c] \in Nat
  BY AccountType, ParserConstants
<1>3. PICK v \in Int : v = -Value[c]
  BY <1>2
<1>4. o = [tx |-> t, type |-> "INPUT", index |-> n, networkIndex |-> n, coin |-> c,
           change |-> "spent", account |-> Account(c), amount |-> v, success |-> TRUE]
  BY <1>1, <1>3 DEF InputOp
<1> QED
  BY <1>2, <1>3, <1>4 DEF Operations

(* What becomes of an output.                                                     *)
LEMMA OutputOpOK ==
    ASSUME NEW c \in Coins, NEW n \in Nat, NEW o, o = OutputOp(c, n)
    PROVE  /\ o \in Operations
           /\ o.coin = c /\ o.type = "OUTPUT" /\ o.tx = TxOf[c]
           /\ o.networkIndex = Vout[c]
           /\ o.change = IF c \in NullData THEN "none" ELSE "created"
           /\ o.account = Account(c) /\ o.amount = Value[c]
<1>1. Account(c) \in Accounts /\ Value[c] \in Nat /\ TxOf[c] \in Txs /\ Vout[c] \in Nat
  BY AccountType, ParserConstants
<1>2. n + Vout[c] \in Nat
  BY <1>1
<1> QED
  BY <1>1, <1>2 DEF OutputOp, Operations

(* The operations of a transaction whose inputs are known say what is true of     *)
(* their coins, and none is missing.                                              *)
LEMMA TxOperationsOK ==
    ASSUME NEW tx \in [hash : Txs, inputs : SUBSET Coins],
           \A c \in tx.inputs : coinMap[c] = CoinOf(c)
    PROVE  /\ TxOperations(tx) \subseteq Operations
           /\ OperationsOK(TxOperations(tx))
           /\ WithChange(TxOperations(tx), "created") = Outputs(tx.hash) \ NullData
           /\ WithChange(TxOperations(tx), "spent") = tx.inputs
<1> DEFINE ins == SetToSeq(tx.inputs)
           n == IF tx.hash \in Coinbases THEN 1 ELSE Len(ins)
           inOps == {InputOp(tx.hash, ins[i], i - 1) : i \in 1 .. Len(ins)}
           outOps == {OutputOp(c, n) : c \in Outputs(tx.hash)}
<1>1. TxOperations(tx) = inOps \cup outOps
  BY DEF TxOperations
<1>2. tx.hash \in Txs /\ tx.inputs \subseteq Coins
  OBVIOUS
<1>3. /\ Len(ins) \in Nat /\ ins \in [1 .. Len(ins) -> tx.inputs]
      /\ \A c \in tx.inputs : \E i \in 1 .. Len(ins) : ins[i] = c
  BY <1>2, NumberedInputs
<1>4. n \in Nat
  BY <1>3
<1>5. ASSUME NEW i \in 1 .. Len(ins), NEW o, o = InputOp(tx.hash, ins[i], i - 1)
      PROVE  /\ o \in Operations /\ o.coin = ins[i] /\ ins[i] \in tx.inputs
             /\ o.type = "INPUT" /\ o.change = "spent"
             /\ o.account = Account(o.coin) /\ o.amount = -Value[o.coin]
  <2>1. ins[i] \in tx.inputs /\ ins[i] \in Coins /\ i - 1 \in Nat
    BY <1>2, <1>3
  <2>2. coinMap[ins[i]] = CoinOf(ins[i])
    BY <2>1
  <2> HIDE DEF ins
  <2> QED
    BY <1>2, <1>5, <2>1, <2>2, InputOpOK
<1>6. ASSUME NEW c \in Outputs(tx.hash), NEW o, o = OutputOp(c, n)
      PROVE  /\ o \in Operations /\ o.coin = c /\ o.type = "OUTPUT" /\ o.tx = TxOf[o.coin]
             /\ o.networkIndex = Vout[o.coin]
             /\ o.change = IF c \in NullData THEN "none" ELSE "created"
             /\ o.account = Account(o.coin) /\ o.amount = Value[o.coin]
  <2>1. c \in Coins
    BY DEF Outputs
  <2> HIDE DEF n
  <2> QED
    BY <1>4, <1>6, <2>1, OutputOpOK
<1> HIDE DEF n, ins
<1>7. \A o \in inOps : /\ o \in Operations /\ o.coin \in tx.inputs
                       /\ o.type = "INPUT" /\ o.change = "spent"
                       /\ o.account = Account(o.coin) /\ o.amount = -Value[o.coin]
  BY <1>5
<1>8. \A o \in outOps :
          /\ o \in Operations /\ o.coin \in Outputs(tx.hash)
          /\ o.type = "OUTPUT" /\ o.tx = TxOf[o.coin]
          /\ o.networkIndex = Vout[o.coin]
          /\ o.change = IF o.coin \in NullData THEN "none" ELSE "created"
          /\ o.account = Account(o.coin) /\ o.amount = Value[o.coin]
  BY <1>6
<1>9. \A c \in tx.inputs : \E o \in inOps : o.coin = c
  BY <1>3, <1>5
<1>10. \A c \in Outputs(tx.hash) : \E o \in outOps : o.coin = c
  BY <1>6
<1> HIDE DEF inOps, outOps
<1>11. OperationsOK(inOps \cup outOps)
  BY <1>7, <1>8 DEF OperationsOK
<1>12. WithChange(inOps \cup outOps, "created") = Outputs(tx.hash) \ NullData
  BY <1>7, <1>8, <1>10 DEF WithChange, CoinsOf
<1>13. WithChange(inOps \cup outOps, "spent") = tx.inputs
  BY <1>7, <1>8, <1>9 DEF WithChange, CoinsOf
<1> QED
  BY <1>1, <1>7, <1>8, <1>11, <1>12, <1>13

(* Operations that are all given the same status                                  *)
Marked(os, b) == {[o EXCEPT !.success = b] : o \in os}

(* Whether the operations of a transaction count does not change what they say.   *)
LEMMA MarkedOK ==
    ASSUME NEW os, os \subseteq Operations, OperationsOK(os),
           NEW b \in BOOLEAN, NEW ts, ts = Marked(os, b)
    PROVE  /\ ts \subseteq Operations
           /\ OperationsOK(ts)
           /\ WithChange(ts, "created") = WithChange(os, "created")
           /\ b = TRUE => /\ Created(ts) = WithChange(os, "created")
                          /\ Spent(ts) = WithChange(os, "spent")
           /\ b = FALSE => Created(ts) = {} /\ Spent(ts) = {}
<1>1. ASSUME NEW o \in os, NEW s, s = [o EXCEPT !.success = b]
      PROVE  /\ s \in Operations /\ s.success = b
             /\ s.coin = o.coin /\ s.change = o.change /\ s.account = o.account
             /\ s.type = o.type /\ s.tx = o.tx /\ s.networkIndex = o.networkIndex
             /\ s.amount = o.amount
  BY <1>1 DEF Operations
<1>2. \A s \in ts : \E o \in os :
          /\ s \in Operations /\ s.success = b
          /\ s.coin = o.coin /\ s.change = o.change /\ s.account = o.account
          /\ s.type = o.type /\ s.tx = o.tx /\ s.networkIndex = o.networkIndex
          /\ s.amount = o.amount
  BY <1>1 DEF Marked
<1>3. \A o \in os : \E s \in ts : s.coin = o.coin /\ s.change = o.change /\ s.success = b
  BY <1>1 DEF Marked
<1>4. ts \subseteq Operations
  BY <1>2
<1>5. OperationsOK(ts)
  BY <1>2 DEF OperationsOK
<1>6. \A change : WithChange(ts, change) = WithChange(os, change)
  BY <1>2, <1>3 DEF WithChange, CoinsOf
<1>7. ASSUME b = TRUE, NEW change PROVE CoinsOf(Changes(ts, change)) = WithChange(ts, change)
  <2>1. \A s \in ts : s.success
    BY <1>7, <1>2, Zenon
  <2>2. Changes(ts, change) = {s \in ts : s.change = change}
    BY <2>1 DEF Changes
  <2> QED
    BY <2>2 DEF WithChange
<1>8. ASSUME b = FALSE, NEW change PROVE CoinsOf(Changes(ts, change)) = {}
  <2>1. \A s \in ts : ~s.success
    BY <1>8, <1>2, Zenon
  <2>2. Changes(ts, change) = {}
    BY <2>1 DEF Changes
  <2> QED
    BY <2>2 DEF CoinsOf
<1> QED
  BY <1>4, <1>5, <1>6, <1>7, <1>8 DEF Created, Spent

(* Operations of several transactions                                             *)
LEMMA UnionOK ==
    ASSUME NEW as, NEW bs, OperationsOK(as), OperationsOK(bs)
    PROVE  /\ OperationsOK(as \cup bs)
           /\ Created(as \cup bs) = Created(as) \cup Created(bs)
           /\ Spent(as \cup bs) = Spent(as) \cup Spent(bs)
<1>1. OperationsOK(as \cup bs)
  BY DEF OperationsOK
<1>2. \A change : Changes(as \cup bs, change) = Changes(as, change) \cup Changes(bs, change)
  BY DEF Changes
<1>3. \A x, y : CoinsOf(x \cup y) = CoinsOf(x) \cup CoinsOf(y)
  BY DEF CoinsOf
<1> QED
  BY <1>1, <1>2, <1>3 DEF Created, Spent

(* parseTransactions remembers every coin that is created, as it is.              *)
LEMMA RememberOK ==
    ASSUME NEW ts, ts \subseteq Operations, OperationsOK(ts),
           \A c \in DOMAIN coinMap : coinMap[c] = CoinOf(c),
           NEW m, m = Remember(ts)
    PROVE  /\ DOMAIN m = DOMAIN coinMap \cup WithChange(ts, "created")
           /\ \A c \in DOMAIN m : m[c] = CoinOf(c)
           /\ m = [c \in DOMAIN m |-> m[c]]
<1> DEFINE created == {o \in ts : o.change = "created"}
           new == {o.coin : o \in created}
<1>1. m = [c \in DOMAIN coinMap \cup new |->
              IF c \in new
              THEN LET o == CHOOSE x \in created : x.coin = c
                   IN [account |-> o.account, value |-> o.amount]
              ELSE coinMap[c]]
  BY DEF Remember
<1>2. new = WithChange(ts, "created")
  BY DEF WithChange, CoinsOf
<1>3. ASSUME NEW c \in new PROVE m[c] = CoinOf(c)
  <2>1. PICK o : o = CHOOSE x \in created : x.coin = c
    OBVIOUS
  <2>2. o \in created /\ o.coin = c
    BY <2>1
  <2>3. m[c] = [account |-> o.account, value |-> o.amount]
    BY <1>1, <2>1
  <2>4. o.account = Account(c) /\ o.amount = Value[c]
    BY <2>2 DEF OperationsOK, Operations
  <2> QED
    BY <2>3, <2>4 DEF CoinOf
<1>4. ASSUME NEW c \in DOMAIN coinMap \ new PROVE m[c] = CoinOf(c)
  BY <1>1, <1>4
<1> QED
  BY <1>1, <1>2, <1>3, <1>4

(* Coin storage takes from an operation what is true of the coin.                 *)
LEMMA UpdateCoinsOK ==
    ASSUME NEW gained, NEW lost, gained \subseteq Operations, OperationsOK(gained),
           \A c \in DOMAIN storage : storage[c] = CoinOf(c),
           NEW m, m = UpdateCoins(gained, lost)
    PROVE  /\ DOMAIN m = (DOMAIN storage \cup CoinsOf(gained)) \ CoinsOf(lost)
           /\ \A c \in DOMAIN m : m[c] = CoinOf(c)
           /\ m = [c \in DOMAIN m |-> m[c]]
<1>1. m = [c \in (DOMAIN storage \cup CoinsOf(gained)) \ CoinsOf(lost) |->
              IF c \in CoinsOf(gained)
              THEN LET o == CHOOSE x \in gained : x.coin = c
                   IN [account |-> o.account,
                       value |-> IF o.amount < 0 THEN -o.amount ELSE o.amount]
              ELSE storage[c]]
  BY DEF UpdateCoins
<1>2. ASSUME NEW c \in CoinsOf(gained), c \in DOMAIN m PROVE m[c] = CoinOf(c)
  <2>1. PICK o : o = CHOOSE x \in gained : x.coin = c
    OBVIOUS
  <2>2. o \in gained /\ o.coin = c
    BY <2>1 DEF CoinsOf
  <2>3. m[c] = [account |-> o.account,
                value |-> IF o.amount < 0 THEN -o.amount ELSE o.amount]
    BY <1>1, <1>2, <2>1
  <2>4. /\ o.account = Account(c) /\ c \in Coins
        /\ o.amount = Value[c] \/ o.amount = -Value[c]
    BY <2>2 DEF OperationsOK, Operations
  <2>5. Value[c] \in Nat
    BY <2>4, ParserConstants
  <2>6. (IF o.amount < 0 THEN -o.amount ELSE o.amount) = Value[c]
    BY <2>4, <2>5
  <2> QED
    BY <2>3, <2>4, <2>6 DEF CoinOf
<1>3. ASSUME NEW c \in DOMAIN m \ CoinsOf(gained) PROVE m[c] = CoinOf(c)
  BY <1>1, <1>3
<1> QED
  BY <1>1, <1>2, <1>3

--------------------------------------------------------------------------------
(* Steps of the client leave node and storage alone                               *)

(* An element of a sequence                                                       *)
LEMMA Element == ASSUME NEW S, NEW s \in Seq(S), NEW i \in 1 .. Len(s) PROVE s[i] \in S
OBVIOUS

(* The transactions of the block                                                  *)
LEMMA RawType ==
    ASSUME TypeOK, NEW i \in 1 .. Len(raw)
    PROVE  raw[i] \in [hash : Txs, inputs : SUBSET Coins]
<1>1. raw \in Seq([hash : Txs, inputs : SUBSET Coins])
  BY DEF TypeOK
<1> QED
  BY <1>1, Element

(* What was true of block i stays true while the blocks up to i stay.             *)
LEMMA LinkFrame ==
    ASSUME NEW i \in Nat \ {0}, LinkOK(i),
           \A j \in 1 .. i : chain'[j] = chain[j] /\ past'[j] = past[j]
    PROVE  LinkOK(i)'
<1>1. chain'[i] = chain[i] /\ past'[i] = past[i]
  OBVIOUS
<1>2. Unspent(i)' = Unspent(i) /\ Mined(i)' = Mined(i)
  BY <1>1 DEF Unspent, Mined
<1>3. Unspent(i - 1)' = Unspent(i - 1)
  BY DEF Unspent
<1>4. OperationsOK(chain[i])' <=> OperationsOK(chain[i])
  BY <1>1 DEF OperationsOK, Account
<1>5. Created(chain[i])' = Created(chain[i]) /\ Spent(chain[i])' = Spent(chain[i])
  BY <1>1 DEF Created, Spent, Changes, CoinsOf
<1>6. \A c \in Unspent(i) : \E j \in 1 .. i : \E o \in chain'[j] : o.type = "OUTPUT" /\ o.coin = c
  BY DEF LinkOK
<1> QED
  BY <1>2, <1>3, <1>4, <1>5, <1>6 DEF LinkOK

(* The history stays while no block is added or removed.                          *)
LEMMA HistoryFrame == ASSUME HistoryOK, UNCHANGED <<past, chain>> PROVE HistoryOK'
<1>1. \A i \in 1 .. Len(chain) : LinkOK(i)'
  BY LinkFrame DEF HistoryOK
<1> QED
  BY <1>1 DEF HistoryOK

(* What a step that changes neither node nor storage preserves                    *)
LEMMA ClientFrame ==
    ASSUME HistoryOK, StorageOK, BlockOK, UNCHANGED <<node, store>>
    PROVE  HistoryOK' /\ StorageOK' /\ BlockOK'
<1>1. UNCHANGED <<raw, unspent, mined, past, chain, storage>>
  BY DEF node, store
<1>2. HistoryOK'
  BY <1>1, HistoryFrame
<1>3. StorageOK'
  BY <1>1 DEF StorageOK, Unspent, Height
<1>4. BlockOK'
  BY <1>1 DEF BlockOK, Unspent, Mined, Height, NewCoins, SpentCoins,
              skipTransactionOperations
<1> QED
  BY <1>2, <1>3, <1>4

(* The block is served: nothing is listed yet.                                    *)
LEMMA GetBlockInv == ASSUME ParserInv, GetBlock PROVE ParserInv'
<1>1. HistoryOK' /\ StorageOK' /\ BlockOK'
  BY ClientFrame DEF ParserInv, GetBlock
<1>2. /\ phase' = "scan" /\ pos' = 1 /\ hashes' = {} /\ coinList' = {}
      /\ UNCHANGED <<raw, unspent, mined, past, coinMap, ops, chain, storage>>
  BY DEF GetBlock, node, store
<1>3. TypeOK'
  BY <1>2 DEF ParserInv, TypeOK
<1>4. Len(raw) \in Nat
  BY DEF ParserInv, TypeOK
<1>5. ScanOK'
  BY <1>2, <1>4 DEF ScanOK
<1>6. ParseOK'
  BY <1>2 DEF ParseOK
<1> QED
  BY <1>1, <1>3, <1>5, <1>6 DEF ParserInv

(* The loop body of GetRawBlock: an input that is not listed is of a transaction  *)
(* before it, and one that is listed was unspent before the block.                *)
LEMMA ScanTxInv == ASSUME ParserInv, ScanTx PROVE ParserInv'
<1>1. HistoryOK' /\ StorageOK' /\ BlockOK'
  BY ClientFrame DEF ParserInv, ScanTx
<1>2. /\ phase = "scan" /\ phase' = "scan" /\ pos \in 1 .. Len(raw) /\ pos' = pos + 1
      /\ hashes' = hashes \cup {raw[pos].hash}
      /\ coinList' = coinList \cup {c \in raw[pos].inputs : TxOf[c] \notin hashes'}
      /\ UNCHANGED <<raw, unspent, mined, past, coinMap, ops, chain, storage>>
      /\ hashes = {raw[i].hash : i \in 1 .. pos - 1}
      /\ \A i \in 1 .. pos - 1 : Listed(i)
      /\ coinList \subseteq Unspent(Height) /\ Len(raw) \in Nat
  BY DEF ScanTx, node, store, ParserInv, ScanOK, TypeOK
<1>3. raw[pos] \in [hash : Txs, inputs : SUBSET Coins]
  BY <1>2, RawType DEF ParserInv
<1>4. TypeOK'
  BY <1>2, <1>3 DEF ParserInv, TypeOK
<1>5. hashes' = {raw[i].hash : i \in 1 .. pos' - 1}
  BY <1>2
<1>6. Unspent(Height)' = Unspent(Height)
  BY <1>2 DEF Unspent, Height
<1>7. coinList' \subseteq Unspent(Height)
  <2> SUFFICES ASSUME NEW c \in raw[pos].inputs, TxOf[c] \notin hashes'
               PROVE  c \in Unspent(Height)
    BY <1>2
  <2>1. c \in Unspent(Height) \cup NewCoins(pos - 1)
    BY <1>2 DEF ParserInv, BlockOK
  <2>2. ~\E i \in 1 .. pos - 1 : TxOf[c] = raw[i].hash
    BY <1>2, <1>5
  <2> QED
    BY <2>1, <2>2 DEF NewCoins
<1>8. ASSUME NEW i \in 1 .. pos' - 1 PROVE Listed(i)'
  <2>1. CASE i \in 1 .. pos - 1
    BY <1>2, <2>1 DEF Listed
  <2>2. CASE i = pos
    <3> SUFFICES ASSUME NEW c \in raw[pos].inputs, c \notin coinList'
                 PROVE  \E j \in 1 .. pos - 1 : TxOf[c] = raw[j].hash
      BY <1>2, <2>2 DEF Listed
    <3>1. TxOf[c] \in hashes' /\ TxOf[c] # raw[pos].hash
      BY <1>2 DEF ParserInv, BlockOK
    <3> QED
      BY <3>1, <1>2
  <2> QED
    BY <1>2, <2>1, <2>2
<1>9. ScanOK'
  BY <1>2, <1>5, <1>6, <1>7, <1>8 DEF ScanOK
<1>10. ParseOK'
  BY <1>2 DEF ParseOK
<1> QED
  BY <1>1, <1>4, <1>9, <1>10 DEF ParserInv

(* The loop of GetRawBlock ends.                                                  *)
LEMMA ScanDoneInv == ASSUME ParserInv, ScanDone PROVE ParserInv'
<1>1. HistoryOK' /\ StorageOK' /\ BlockOK'
  BY ClientFrame DEF ParserInv, ScanDone
<1>2. /\ phase = "scan" /\ phase' = "find" /\ pos > Len(raw) /\ UNCHANGED client
      /\ UNCHANGED <<raw, unspent, mined, past, chain, storage, pos, hashes, coinList,
                     coinMap, ops>>
  BY DEF ScanDone, node, store, client
<1>3. pos - 1 = Len(raw) /\ coinList \subseteq Unspent(Height)
  BY <1>2 DEF ParserInv, ScanOK, TypeOK
<1>4. \A i \in 1 .. Len(raw) : Listed(i)
  BY <1>2, <1>3 DEF ParserInv, ScanOK
<1>5. Unspent(Height)' = Unspent(Height) /\ \A i : Listed(i)' <=> Listed(i)
  BY <1>2 DEF Unspent, Height, Listed
<1>6. TypeOK'
  BY <1>2 DEF ParserInv, TypeOK
<1>7. ScanOK'
  BY <1>2, <1>3, <1>4, <1>5 DEF ScanOK
<1>8. ParseOK'
  BY <1>2 DEF ParseOK
<1> QED
  BY <1>1, <1>6, <1>7, <1>8 DEF ParserInv

(* The coins of the list are brought as storage has them.                         *)
LEMMA FindCoinsInv == ASSUME ParserInv, FindCoins PROVE ParserInv'
<1>1. HistoryOK' /\ StorageOK' /\ BlockOK'
  BY ClientFrame DEF ParserInv, FindCoins
<1>2. /\ phase = "find" /\ phase' = "parse" /\ pos' = 1 /\ ops' = {}
      /\ coinList \subseteq DOMAIN storage /\ coinMap' = [c \in coinList |-> storage[c]]
      /\ UNCHANGED <<raw, unspent, mined, past, chain, storage, hashes, coinList>>
  BY DEF FindCoins, node, store
<1>3. Unspent(Height)' = Unspent(Height) /\ \A i : Listed(i)' <=> Listed(i)
  BY <1>2 DEF Unspent, Height, Listed
<1>4. TypeOK'
  BY <1>2 DEF ParserInv, TypeOK
<1>5. ScanOK'
  BY <1>2, <1>3 DEF ParserInv, ScanOK
<1>6. \A c \in DOMAIN coinMap' : coinMap'[c] = CoinOf(c)
  BY <1>2 DEF ParserInv, StorageOK
<1>7. OperationsOK(ops)' /\ Created(ops)' = {} /\ Spent(ops)' = {}
  BY <1>2 DEF OperationsOK, Created, Spent, Changes, CoinsOf
<1>8. pos' - 1 = 0 /\ NewCoins(pos - 1)' = {} /\ SpentCoins(pos - 1)' = {}
  BY <1>2 DEF NewCoins, SpentCoins
<1>9. Len(raw) \in Nat /\ Len(raw)' = Len(raw)
  BY <1>2 DEF ParserInv, TypeOK
<1>10. \A c : CoinOf(c)' = CoinOf(c)
  BY DEF CoinOf, Account
<1>11. (\A c \in DOMAIN coinMap : coinMap[c] = CoinOf(c))'
  BY <1>6, <1>10
<1>12. pos' \in 1 .. Len(raw) + 1
  BY <1>2, <1>9
<1>13. /\ phase' = "parse" /\ (coinList \subseteq DOMAIN coinMap)'
       /\ \A j : j \notin 1 .. pos' - 1
  BY <1>2, <1>8
<1>14. ParseOK'
  BY <1>13, <1>7, <1>8, <1>9, <1>11, <1>12 DEF ParseOK
<1> QED
  BY <1>1, <1>4, <1>5, <1>14 DEF ParserInv

(* What one more transaction creates and spends                                   *)
LEMMA OneMore ==
    ASSUME NEW n \in Nat
    PROVE  /\ NewCoins(n + 1) = NewCoins(n) \cup
                  IF skipTransactionOperations(raw[n + 1].hash) THEN {}
                  ELSE Outputs(raw[n + 1].hash) \ NullData
           /\ SpentCoins(n + 1) = SpentCoins(n) \cup raw[n + 1].inputs
<1>1. 1 .. n + 1 = (1 .. n) \cup {n + 1}
  OBVIOUS
<1>2. SpentCoins(n + 1) = SpentCoins(n) \cup raw[n + 1].inputs
  BY <1>1 DEF SpentCoins
<1>3. NewCoins(n + 1) = NewCoins(n) \cup
          IF skipTransactionOperations(raw[n + 1].hash) THEN {}
          ELSE Outputs(raw[n + 1].hash) \ NullData
  BY <1>1 DEF NewCoins, Outputs
<1> QED
  BY <1>2, <1>3

(* What was unspent before the block                                              *)
LEMMA UnspentBefore ==
    ASSUME ParserInv, NEW c \in Unspent(Height)
    PROVE  c \in Coins /\ c \notin NullData /\ TxOf[c] \in Mined(Height)
<1>1. c \in Coins
  BY DEF ParserInv, StorageOK, TypeOK
<1>2. Len(chain) \in Nat /\ Height # 0
  BY DEF ParserInv, TypeOK, Unspent, Height
<1>3. Height \in 1 .. Len(chain)
  BY <1>2 DEF Height
<1> QED
  BY <1>1, <1>3 DEF ParserInv, HistoryOK, LinkOK

(* ParseBlock knows every input of the transaction it is at.                      *)
LEMMA InputsKnown ==
    ASSUME ParserInv, phase = "parse", pos \in 1 .. Len(raw)
    PROVE  raw[pos].inputs \subseteq DOMAIN coinMap
<1> SUFFICES ASSUME NEW c \in raw[pos].inputs, c \notin coinList
             PROVE  c \in DOMAIN coinMap
  BY DEF ParserInv, ParseOK
<1>1. PICK j \in 1 .. pos - 1 : TxOf[c] = raw[j].hash
  BY DEF ParserInv, ScanOK, Listed
<1>2. c \in Unspent(Height) \cup NewCoins(pos - 1)
  BY DEF ParserInv, BlockOK
<1>3. c \in Coins /\ c \notin NullData
  BY <1>2, UnspentBefore DEF NewCoins
<1>4. c \in Outputs(raw[j].hash) \ NullData
  BY <1>1, <1>3 DEF Outputs
<1> QED
  BY <1>4 DEF ParserInv, ParseOK

(* The loop body of ParseBlock: the operations of the transaction are added, and  *)
(* what it creates is remembered.  The error is never taken.                      *)
LEMMA ParseTxInv == ASSUME ParserInv, ParseTx PROVE ParserInv'
<1>1. HistoryOK' /\ StorageOK' /\ BlockOK'
  BY ClientFrame DEF ParserInv, ParseTx
<1>2. /\ phase = "parse" /\ pos \in 1 .. Len(raw) /\ Len(raw) \in Nat
      /\ UNCHANGED <<raw, unspent, mined, past, chain, storage, hashes, coinList>>
  <2>1. /\ phase = "parse" /\ pos <= Len(raw)
        /\ UNCHANGED <<raw, unspent, mined, past, chain, storage, hashes, coinList>>
    BY DEF ParseTx, node, store
  <2>2. Len(raw) \in Nat /\ pos \in 1 .. Len(raw) + 1
    BY <2>1 DEF ParserInv, TypeOK, ParseOK
  <2> QED
    BY <2>1, <2>2
<1>3. raw[pos].inputs \subseteq DOMAIN coinMap
  BY <1>2, InputsKnown
<1> DEFINE tx == raw[pos]
           b == ~skipTransactionOperations(tx.hash)
           ts == {[o EXCEPT !.success = b] : o \in TxOperations(tx)}
<1>4. ops' = ops \cup ts /\ coinMap' = Remember(ts) /\ pos' = pos + 1 /\ phase' = phase
  BY <1>3 DEF ParseTx
<1>5. tx \in [hash : Txs, inputs : SUBSET Coins]
  BY <1>2, RawType DEF ParserInv
<1>6. /\ pos \in 1 .. Len(raw) + 1 /\ OperationsOK(ops)
      /\ Created(ops) = NewCoins(pos - 1) /\ Spent(ops) = SpentCoins(pos - 1)
      /\ coinList \subseteq DOMAIN coinMap
      /\ \A j \in 1 .. pos - 1 : Outputs(raw[j].hash) \ NullData \subseteq DOMAIN coinMap
      /\ \A c \in DOMAIN coinMap : coinMap[c] = CoinOf(c)
      /\ ops \subseteq Operations /\ DOMAIN coinMap \subseteq Coins
  BY <1>2 DEF ParserInv, ParseOK, TypeOK
<1>7. /\ TxOperations(tx) \subseteq Operations
      /\ OperationsOK(TxOperations(tx))
      /\ WithChange(TxOperations(tx), "created") = Outputs(tx.hash) \ NullData
      /\ WithChange(TxOperations(tx), "spent") = tx.inputs
  BY <1>3, <1>5, <1>6, TxOperationsOK
<1>8. b \in BOOLEAN
  BY DEF skipTransactionOperations
<1>9. /\ ts \subseteq Operations /\ OperationsOK(ts)
      /\ WithChange(ts, "created") = Outputs(tx.hash) \ NullData
      /\ Created(ts) = IF b THEN Outputs(tx.hash) \ NullData ELSE {}
      /\ Spent(ts) = IF b THEN tx.inputs ELSE {}
  <2> DEFINE os == TxOperations(tx)
  <2>1. ts = Marked(os, b)
    BY DEF Marked
  <2>2. os \subseteq Operations /\ OperationsOK(os)
    BY <1>7
  <2> HIDE DEF ts, os, b
  <2>3. /\ ts \subseteq Operations /\ OperationsOK(ts)
        /\ WithChange(ts, "created") = WithChange(os, "created")
        /\ b = TRUE => /\ Created(ts) = WithChange(os, "created")
                       /\ Spent(ts) = WithChange(os, "spent")
        /\ b = FALSE => Created(ts) = {} /\ Spent(ts) = {}
    BY <2>1, <2>2, <1>8, MarkedOK
  <2> QED
    BY <2>3, <1>7 DEF os
<1>10. ~b => tx.inputs = {}
  BY <1>2 DEF ParserInv, BlockOK
<1> HIDE DEF ts
<1>11. /\ OperationsOK(ops \cup ts)
       /\ Created(ops \cup ts) = Created(ops) \cup Created(ts)
       /\ Spent(ops \cup ts) = Spent(ops) \cup Spent(ts)
  BY <1>6, <1>9, UnionOK
<1>12. Created(ops \cup ts) = NewCoins(pos) /\ Spent(ops \cup ts) = SpentCoins(pos)
  <2>1. pos - 1 \in Nat /\ (pos - 1) + 1 = pos
    BY <1>2
  <2>2. /\ NewCoins(pos) = NewCoins(pos - 1) \cup
              IF skipTransactionOperations(raw[pos].hash) THEN {}
              ELSE Outputs(raw[pos].hash) \ NullData
        /\ SpentCoins(pos) = SpentCoins(pos - 1) \cup raw[pos].inputs
    BY <2>1, OneMore
  <2> QED
    BY <2>2, <1>6, <1>9, <1>10, <1>11
<1>13. /\ DOMAIN coinMap' = DOMAIN coinMap \cup (Outputs(tx.hash) \ NullData)
       /\ \A c \in DOMAIN coinMap' : coinMap'[c] = CoinOf(c)
       /\ coinMap' = [c \in DOMAIN coinMap' |-> coinMap'[c]]
  <2> HIDE DEF tx
  <2> QED
    BY <1>4, <1>6, <1>9, RememberOK
<1>14. TypeOK'
  <2>1. DOMAIN coinMap' \subseteq Coins
    BY <1>6, <1>13 DEF Outputs
  <2>2. \A c \in DOMAIN coinMap' : coinMap'[c] \in AccountCoins
    <3> SUFFICES ASSUME NEW c \in DOMAIN coinMap' PROVE CoinOf(c) \in AccountCoins
      BY <1>13
    <3>1. Account(c) \in Accounts /\ Value[c] \in Int
      BY <2>1, AccountType, ParserConstants
    <3> QED
      BY <3>1 DEF CoinOf, AccountCoins
  <2>3. coinMap' \in [DOMAIN coinMap' -> AccountCoins]
    BY <1>13, <2>2
  <2>4. ops' \subseteq Operations /\ pos' \in Nat
    BY <1>2, <1>4, <1>6, <1>9
  <2> QED
    BY <1>2, <1>4, <2>1, <2>3, <2>4 DEF ParserInv, TypeOK
<1>15. Unspent(Height)' = Unspent(Height) /\ \A i : Listed(i)' <=> Listed(i)
  BY <1>2 DEF Unspent, Height, Listed
<1>16. ScanOK'
  BY <1>2, <1>4, <1>15 DEF ParserInv, ScanOK
<1>17. pos' - 1 = pos /\ pos' \in 1 .. Len(raw) + 1
  BY <1>2, <1>4
<1>18. NewCoins(pos - 1)' = NewCoins(pos) /\ SpentCoins(pos - 1)' = SpentCoins(pos)
  BY <1>2, <1>17 DEF NewCoins, SpentCoins, skipTransactionOperations, Height
<1>19. OperationsOK(ops)' /\ Created(ops)' = NewCoins(pos) /\ Spent(ops)' = SpentCoins(pos)
  BY <1>4, <1>11, <1>12
     DEF OperationsOK, Created, Spent, Changes, CoinsOf, Account
<1>20. \A j \in 1 .. pos : Outputs(raw[j].hash) \ NullData \subseteq DOMAIN coinMap'
  BY <1>2, <1>6, <1>13
<1>21. (\A c \in DOMAIN coinMap : coinMap[c] = CoinOf(c))'
  BY <1>13 DEF CoinOf, Account
<1>22. (coinList \subseteq DOMAIN coinMap)'
  BY <1>2, <1>6, <1>13
<1>23. (\A j \in 1 .. pos - 1 : Outputs(raw[j].hash) \ NullData \subseteq DOMAIN coinMap)'
  BY <1>2, <1>17, <1>20 DEF Outputs
<1>24. phase' = "parse" /\ (pos \in 1 .. Len(raw) + 1)'
  BY <1>2, <1>4, <1>17
<1>25. ParseOK'
  BY <1>18, <1>19, <1>21, <1>22, <1>23, <1>24 DEF ParseOK
<1> QED
  BY <1>1, <1>14, <1>16, <1>25 DEF ParserInv

(* The loop of ParseBlock ends.                                                   *)
LEMMA ParseDoneInv == ASSUME ParserInv, ParseDone PROVE ParserInv'
<1>1. HistoryOK' /\ StorageOK' /\ BlockOK'
  BY ClientFrame DEF ParserInv, ParseDone
<1>2. /\ phase = "parse" /\ phase' = "add" /\ pos > Len(raw)
      /\ UNCHANGED <<raw, unspent, mined, past, chain, storage, pos, hashes, coinList,
                     coinMap, ops>>
  BY DEF ParseDone, node, store, client
<1>3. /\ pos \in 1 .. Len(raw) + 1 /\ Len(raw) \in Nat
      /\ OperationsOK(ops) /\ Created(ops) = NewCoins(pos - 1)
      /\ Spent(ops) = SpentCoins(pos - 1)
  BY <1>2 DEF ParserInv, ParseOK, TypeOK
<1>4. pos = Len(raw) + 1
  BY <1>2, <1>3
<1>5. TypeOK'
  BY <1>2 DEF ParserInv, TypeOK
<1>6. ScanOK'
  BY <1>2 DEF ScanOK
<1>7. /\ OperationsOK(ops)' <=> OperationsOK(ops)
      /\ Created(ops)' = Created(ops) /\ Spent(ops)' = Spent(ops)
      /\ NewCoins(pos - 1)' = NewCoins(pos - 1)
      /\ SpentCoins(pos - 1)' = SpentCoins(pos - 1)
  BY <1>2 DEF OperationsOK, Created, Spent, Changes, CoinsOf, Account, NewCoins,
              SpentCoins, skipTransactionOperations, Height
<1>8. phase' = "add" /\ (pos = Len(raw) + 1)' /\ (pos \in 1 .. Len(raw) + 1)'
  BY <1>2, <1>3, <1>4
<1>9. ParseOK'
  BY <1>3, <1>7, <1>8 DEF ParseOK
<1> QED
  BY <1>1, <1>5, <1>6, <1>9 DEF ParserInv

--------------------------------------------------------------------------------
(* Steps of the node and of storage                                               *)

(* Whatever the node has at hand was mined.                                       *)
LEMMA CoinsWereMined ==
    ASSUME ParserInv,
           NEW c \in Unspent(Height) \cup NewCoins(Len(raw)) \cup SpentCoins(Len(raw))
    PROVE  c \in Coins /\ TxOf[c] \in mined
<1>1. Len(raw) \in Nat
  BY DEF ParserInv, TypeOK
<1>2. mined = Mined(Height) \cup {raw[i].hash : i \in 1 .. Len(raw)}
  BY DEF ParserInv, BlockOK
<1>3. ASSUME c \in Unspent(Height) PROVE c \in Coins /\ TxOf[c] \in mined
  BY <1>2, <1>3, UnspentBefore
<1>4. ASSUME NEW n \in 0 .. Len(raw), c \in NewCoins(n)
      PROVE  c \in Coins /\ TxOf[c] \in mined
  BY <1>1, <1>2, <1>4 DEF NewCoins
<1>5. ASSUME c \in SpentCoins(Len(raw)) PROVE c \in Coins /\ TxOf[c] \in mined
  <2>1. PICK i \in 1 .. Len(raw) : c \in raw[i].inputs
    BY <1>5 DEF SpentCoins
  <2>2. c \in Unspent(Height) \cup NewCoins(i - 1)
    BY <2>1 DEF ParserInv, BlockOK
  <2>3. i - 1 \in 0 .. Len(raw)
    BY <1>1
  <2> QED
    BY <1>3, <1>4, <2>2, <2>3
<1> QED
  BY <1>1, <1>3, <1>4, <1>5

(* A valid transaction spends what is unspent, and creates what never was, unless *)
(* it is a duplicate that changes nothing.                                        *)
LEMMA MineTxInv ==
    ASSUME ParserInv, NEW t \in Txs, NEW ins \in SUBSET unspent, MineTx(t, ins)
    PROVE  ParserInv'
<1>0. PICK n \in Nat : n = Len(raw)
  BY DEF ParserInv, TypeOK
<1>1. /\ phase = "mine" /\ phase' = "mine" /\ ValidHash(t)
      /\ t \in Coinbases => ins = {}
      /\ raw' = Append(raw, [hash |-> t, inputs |-> ins])
      /\ unspent' = (unspent \ ins) \cup (Outputs(t) \ NullData)
      /\ mined' = mined \cup {t}
      /\ UNCHANGED <<past, pos, hashes, coinList, coinMap, ops, chain, storage>>
  BY DEF MineTx, client, store
<1>2. unspent \subseteq Coins /\ ins \subseteq Coins
  BY DEF ParserInv, TypeOK
<1>3. /\ Len(raw') = n + 1 /\ \A i \in 1 .. n : raw'[i] = raw[i]
      /\ raw'[n + 1].hash = t /\ raw'[n + 1].inputs = ins
      /\ raw' \in Seq([hash : Txs, inputs : SUBSET Coins])
  BY <1>0, <1>1, <1>2 DEF ParserInv, TypeOK
<1>4. TypeOK'
  <2>1. unspent' \subseteq Coins /\ mined' \subseteq Txs
    BY <1>1, <1>2 DEF ParserInv, TypeOK, Outputs
  <2> QED
    BY <1>1, <1>3, <2>1 DEF ParserInv, TypeOK
<1>5. HistoryOK'
  BY <1>1, HistoryFrame DEF ParserInv
<1>6. StorageOK'
  BY <1>1 DEF ParserInv, StorageOK, Unspent, Height, CoinOf, Account
<1>7. /\ Unspent(Height)' = Unspent(Height) /\ Mined(Height)' = Mined(Height)
      /\ \A s : skipTransactionOperations(s)' <=> skipTransactionOperations(s)
  BY <1>1 DEF Unspent, Mined, Height, skipTransactionOperations
<1>8. \A k \in 0 .. n : NewCoins(k)' = NewCoins(k) /\ SpentCoins(k)' = SpentCoins(k)
  <2> SUFFICES ASSUME NEW k \in 0 .. n
               PROVE  NewCoins(k)' = NewCoins(k) /\ SpentCoins(k)' = SpentCoins(k)
    OBVIOUS
  <2>1. \A i \in 1 .. k : raw'[i] = raw[i]
    BY <1>2, <1>3
  <2> QED
    BY <2>1, <1>7 DEF NewCoins, SpentCoins
<1>9. /\ NewCoins(n + 1)' = NewCoins(n) \cup
             IF skipTransactionOperations(t) THEN {} ELSE Outputs(t) \ NullData
      /\ SpentCoins(n + 1)' = SpentCoins(n) \cup ins
  <2>1. 1 .. n + 1 = (1 .. n) \cup {n + 1}
    BY <1>2
  <2>2. SpentCoins(n + 1)' = SpentCoins(n)' \cup ins
    BY <1>3, <2>1 DEF SpentCoins
  <2>3. NewCoins(n + 1)' = NewCoins(n)' \cup
            IF skipTransactionOperations(t)' THEN {} ELSE Outputs(t) \ NullData
    BY <1>3, <2>1 DEF NewCoins, Outputs, skipTransactionOperations
  <2> QED
    BY <1>2, <1>7, <1>8, <2>2, <2>3
<1>10. /\ mined = Mined(Height) \cup {raw[i].hash : i \in 1 .. n}
       /\ unspent = (Unspent(Height) \cup NewCoins(n)) \ SpentCoins(n)
       /\ NewCoins(n) \cap Unspent(Height) = {}
       /\ \A i \in 1 .. n :
              /\ skipTransactionOperations(raw[i].hash) => raw[i].inputs = {}
              /\ \A c \in raw[i].inputs : /\ c \in Unspent(Height) \cup NewCoins(i - 1)
                                          /\ TxOf[c] # raw[i].hash
  BY <1>0 DEF ParserInv, BlockOK
<1>11. skipTransactionOperations(t) => ins = {} /\ Outputs(t) \subseteq unspent
  BY <1>1, ParserConstants DEF ValidHash, skipTransactionOperations
<1>12. ~skipTransactionOperations(t) => t \notin mined
  BY <1>1 DEF ValidHash, skipTransactionOperations
<1>13. ~skipTransactionOperations(t) =>
           Outputs(t) \cap (Unspent(Height) \cup NewCoins(n) \cup SpentCoins(n)) = {}
  BY <1>0, <1>12, CoinsWereMined DEF Outputs
<1>14. mined' = Mined(Height)' \cup {raw'[i].hash : i \in 1 .. n + 1}
  <2>1. 1 .. n + 1 = (1 .. n) \cup {n + 1}
    BY <1>2
  <2>2. {raw'[i].hash : i \in 1 .. n + 1} = {raw[i].hash : i \in 1 .. n} \cup {t}
    BY <1>3, <2>1
  <2> QED
    BY <1>1, <1>7, <1>10, <2>2
<1>15. unspent' = (Unspent(Height)' \cup NewCoins(n + 1)') \ SpentCoins(n + 1)'
  BY <1>1, <1>7, <1>9, <1>10, <1>11, <1>13
<1>16. NewCoins(n + 1)' \cap Unspent(Height)' = {}
  BY <1>7, <1>9, <1>10, <1>13
<1>17. ASSUME NEW i \in 1 .. n + 1
       PROVE  /\ skipTransactionOperations(raw'[i].hash) => raw'[i].inputs = {}
              /\ \A c \in raw'[i].inputs : /\ c \in Unspent(Height) \cup NewCoins(i - 1)'
                                           /\ TxOf[c] # raw'[i].hash
  <2>1. CASE i \in 1 .. n
    <3>1. raw'[i] = raw[i] /\ i - 1 \in 0 .. n
      BY <1>3, <2>1
    <3> QED
      BY <3>1, <2>1, <1>8, <1>10
  <2>2. CASE i = n + 1
    <3>1. i - 1 = n /\ NewCoins(i - 1)' = NewCoins(n)
      BY <1>2, <1>8, <2>2
    <3>2. \A c \in ins : c \in Unspent(Height) \cup NewCoins(n) /\ TxOf[c] \in mined
      BY <1>0, <1>10, CoinsWereMined
    <3> QED
      BY <1>3, <1>11, <1>12, <2>2, <3>1, <3>2
  <2> QED
    BY <1>2, <2>1, <2>2
<1>18. BlockOK'
  <2>1. Len(raw)' = n + 1
    BY <1>3
  <2>2. \A i \in 1 .. n + 1 :
            /\ skipTransactionOperations(raw[i].hash)' =>  raw'[i].inputs = {}
            /\ \A c \in raw'[i].inputs : /\ c \in Unspent(Height)' \cup NewCoins(i - 1)'
                                         /\ TxOf[c] # raw'[i].hash
    BY <1>7, <1>17 DEF skipTransactionOperations, Height
  <2> QED
    BY <2>1, <2>2, <1>14, <1>15, <1>16 DEF BlockOK
<1>19. ScanOK' /\ ParseOK'
  BY <1>1 DEF ScanOK, ParseOK
<1> QED
  BY <1>4, <1>5, <1>6, <1>18, <1>19 DEF ParserInv

(* Some of the operations of a block                                              *)
LEMMA ChangesOK ==
    ASSUME NEW block, block \subseteq Operations, OperationsOK(block), NEW change
    PROVE  Changes(block, change) \subseteq Operations /\ OperationsOK(Changes(block, change))
BY DEF Changes, OperationsOK

(* A function whose values are coins as they are has the type of a coin storage.  *)
LEMMA CoinsType ==
    ASSUME NEW m, DOMAIN m \subseteq Coins, m = [c \in DOMAIN m |-> m[c]],
           \A c \in DOMAIN m : m[c] = CoinOf(c)
    PROVE  m \in [DOMAIN m -> AccountCoins]
<1>1. ASSUME NEW c \in DOMAIN m PROVE m[c] \in AccountCoins
  <2>1. Account(c) \in Accounts /\ Value[c] \in Int
    BY AccountType, ParserConstants
  <2> QED
    BY <2>1 DEF CoinOf, AccountCoins
<1> QED
  BY <1>1

(* With an empty block, the node is where its last block has left it.             *)
LEMMA NextBlock ==
    ASSUME raw' = <<>>, unspent' = Unspent(Height)', mined' = Mined(Height)',
           phase' = "mine"
    PROVE  BlockOK' /\ ScanOK' /\ ParseOK'
<1>1. Len(raw') = 0 /\ \A i : i \notin 1 .. Len(raw')
  OBVIOUS
<1>2. NewCoins(Len(raw))' = {} /\ SpentCoins(Len(raw))' = {}
  BY <1>1 DEF NewCoins, SpentCoins
<1>3. BlockOK'
  BY <1>1, <1>2 DEF BlockOK
<1>4. ScanOK' /\ ParseOK'
  BY DEF ScanOK, ParseOK
<1> QED
  BY <1>3, <1>4

(* A sequence grows by one element at its end.                                    *)
LEMMA Grown ==
    ASSUME NEW S, NEW s \in Seq(S), NEW x \in S, NEW t, t = Append(s, x)
    PROVE  /\ t \in Seq(S) /\ Len(t) = Len(s) + 1 /\ t[Len(s) + 1] = x
           /\ \A i \in 1 .. Len(s) : t[i] = s[i]
OBVIOUS

(* A sequence loses its last element.                                             *)
LEMMA Shrunk ==
    ASSUME NEW S, NEW s \in Seq(S), NEW n \in Nat, Len(s) = n + 1,
           NEW t, t = SubSeq(s, 1, n)
    PROVE  t \in Seq(S) /\ Len(t) = n /\ \A i \in 1 .. n : t[i] = s[i]
OBVIOUS

(* Storage applies the operations of the block.                                   *)
LEMMA AddBlockInv == ASSUME ParserInv, AddBlock PROVE ParserInv'
<1>1. PICK h \in Nat : h = Height /\ h = Len(chain) /\ h = Len(past)
  BY DEF ParserInv, TypeOK, HistoryOK, Height
<1>2. /\ phase = "add" /\ phase' = "mine" /\ raw' = <<>>
      /\ chain' = Append(chain, ops)
      /\ past' = Append(past, [unspent |-> unspent, mined |-> mined])
      /\ UNCHANGED <<unspent, mined>>
      /\ pos' = 1 /\ hashes' = {} /\ coinList' = {} /\ coinMap' = NoCoins /\ ops' = {}
      /\ storage' = UpdateCoins(Changes(ops, "created"), Changes(ops, "spent"))
  BY DEF AddBlock
<1>3. /\ ops \subseteq Operations /\ OperationsOK(ops)
      /\ Created(ops) = NewCoins(Len(raw)) /\ Spent(ops) = SpentCoins(Len(raw))
      /\ unspent = (Unspent(h) \cup Created(ops)) \ Spent(ops)
      /\ Created(ops) \cap Unspent(h) = {}
      /\ unspent \subseteq Coins /\ mined \subseteq Txs
  <2>1. pos = Len(raw) + 1 /\ Len(raw) \in Nat
    BY <1>2 DEF ParserInv, ParseOK, TypeOK
  <2>2. pos - 1 = Len(raw)
    BY <2>1
  <2>3. /\ OperationsOK(ops) /\ Created(ops) = NewCoins(pos - 1)
        /\ Spent(ops) = SpentCoins(pos - 1)
    BY <1>2 DEF ParserInv, ParseOK
  <2>4. ops \subseteq Operations /\ unspent \subseteq Coins /\ mined \subseteq Txs
    BY DEF ParserInv, TypeOK
  <2>5. /\ unspent = (Unspent(Height) \cup NewCoins(Len(raw))) \ SpentCoins(Len(raw))
        /\ NewCoins(Len(raw)) \cap Unspent(Height) = {}
    BY DEF ParserInv, BlockOK
  <2> QED
    BY <1>1, <2>2, <2>3, <2>4, <2>5
<1>4. SpentCoins(Len(raw)) \subseteq Unspent(h) \cup Created(ops)
  <2> SUFFICES ASSUME NEW c, c \in SpentCoins(Len(raw))
               PROVE  c \in Unspent(h) \cup NewCoins(Len(raw))
    BY <1>3
  <2>1. PICK i \in 1 .. Len(raw) : c \in raw[i].inputs
    BY DEF SpentCoins
  <2>2. c \in Unspent(h) \cup NewCoins(i - 1)
    BY <1>1, <2>1 DEF ParserInv, BlockOK
  <2>3. Len(raw) \in Nat /\ 1 .. i - 1 \subseteq 1 .. Len(raw)
    BY DEF ParserInv, TypeOK
  <2> QED
    BY <2>2, <2>3 DEF NewCoins
<1>5. /\ Len(chain') = h + 1 /\ Len(past') = h + 1 /\ Height' = h + 1
      /\ \A i \in 1 .. h : chain'[i] = chain[i] /\ past'[i] = past[i]
      /\ chain'[h + 1] = ops
      /\ past'[h + 1].unspent = unspent /\ past'[h + 1].mined = mined
  <2>1. chain \in Seq(SUBSET Operations)
    BY DEF ParserInv, TypeOK
  <2>2. past \in Seq([unspent : SUBSET Coins, mined : SUBSET Txs])
    BY DEF ParserInv, TypeOK
  <2>3. PICK r \in [unspent : SUBSET Coins, mined : SUBSET Txs] :
            r = [unspent |-> unspent, mined |-> mined]
    BY <1>3
  <2>4. past' = Append(past, r)
    BY <1>2, <2>3
  <2>5. /\ Len(past') = h + 1 /\ past'[h + 1] = r
        /\ \A i \in 1 .. h : past'[i] = past[i]
    BY <1>1, <2>2, <2>4, Grown
  <2>6. past'[h + 1].unspent = unspent /\ past'[h + 1].mined = mined
    BY <2>3, <2>5
  <2>7. PICK S : chain \in Seq(S) /\ ops \in S
    BY <1>3, <2>1
  <2>8. /\ Len(chain') = h + 1 /\ chain'[h + 1] = ops
        /\ \A i \in 1 .. h : chain'[i] = chain[i]
    <3>1. chain' = Append(chain, ops) /\ Len(chain) = h
      BY <1>1, <1>2
    <3> QED
      BY <2>7, <3>1, Grown
  <2> QED
    BY <2>5, <2>6, <2>8 DEF Height
<1>6. \A i \in 1 .. h : LinkOK(i)'
  <2> SUFFICES ASSUME NEW i \in 1 .. h PROVE LinkOK(i)'
    OBVIOUS
  <2>1. LinkOK(i) /\ i \in Nat \ {0}
    BY <1>1 DEF ParserInv, HistoryOK
  <2>2. \A j \in 1 .. i : chain'[j] = chain[j] /\ past'[j] = past[j]
    BY <1>5
  <2> QED
    BY <2>1, <2>2, LinkFrame
<1>7. /\ Unspent(h)' = Unspent(h) /\ Unspent(h + 1)' = unspent /\ Mined(h + 1)' = mined
  BY <1>5 DEF Unspent, Mined
<1>8. LinkOK(h + 1)'
  <2>1. (h + 1) - 1 = h
    OBVIOUS
  <2>2. /\ OperationsOK(chain[h + 1])' /\ Created(chain[h + 1])' = Created(ops)
        /\ Spent(chain[h + 1])' = Spent(ops)
    BY <1>3, <1>5 DEF OperationsOK, Account, Created, Spent, Changes, CoinsOf
  <2>3. ASSUME NEW c \in unspent
        PROVE  /\ c \notin NullData /\ TxOf[c] \in mined
               /\ \E j \in 1 .. h + 1 : \E o \in chain'[j] : o.type = "OUTPUT" /\ o.coin = c
    <3>1. TxOf[c] \in mined
      BY <1>1, <1>3, CoinsWereMined
    <3>2. CASE c \in Unspent(h)
      <4>1. c \notin NullData
        BY <1>1, <3>2, UnspentBefore
      <4>2. h \in 1 .. h
        BY <3>2 DEF Unspent
      <4>3. PICK j \in 1 .. h : \E o \in chain[j] : o.type = "OUTPUT" /\ o.coin = c
        BY <1>1, <3>2, <4>2 DEF ParserInv, HistoryOK, LinkOK
      <4> QED
        BY <1>5, <3>1, <4>1, <4>3
    <3>3. CASE c \in Created(ops)
      <4>1. c \notin NullData
        BY <1>3, <3>3 DEF NewCoins
      <4>2. PICK o \in ops : o.change = "created" /\ o.coin = c
        BY <3>3 DEF Created, Changes, CoinsOf
      <4>3. o.type = "OUTPUT"
        BY <1>3, <4>2 DEF OperationsOK, Operations
      <4> QED
        BY <1>5, <3>1, <4>1, <4>2, <4>3
    <3> QED
      BY <1>3, <3>2, <3>3
  <2>4. Unspent((h + 1) - 1)' = Unspent(h)
    BY <1>7, <2>1
  <2> QED
    BY <1>3, <1>4, <1>7, <2>2, <2>3, <2>4 DEF LinkOK
<1>9. HistoryOK'
  <2>1. \A i \in 1 .. h + 1 : i \in 1 .. h \/ i = h + 1
    OBVIOUS
  <2> QED
    BY <1>5, <1>6, <1>8, <2>1 DEF HistoryOK
<1>10. /\ DOMAIN storage' = unspent /\ \A c \in DOMAIN storage' : storage'[c] = CoinOf(c)
       /\ storage' = [c \in DOMAIN storage' |-> storage'[c]]
  <2> DEFINE gained == Changes(ops, "created")
             lost == Changes(ops, "spent")
  <2>1. gained \subseteq Operations /\ OperationsOK(gained)
    BY <1>3, ChangesOK
  <2>2. DOMAIN storage = Unspent(h) /\ \A c \in DOMAIN storage : storage[c] = CoinOf(c)
    BY <1>1 DEF ParserInv, StorageOK
  <2>3. CoinsOf(gained) = Created(ops) /\ CoinsOf(lost) = Spent(ops)
    BY DEF Created, Spent
  <2>4. storage' = UpdateCoins(gained, lost)
    BY <1>2
  <2> HIDE DEF gained, lost
  <2>5. /\ DOMAIN storage' = (DOMAIN storage \cup CoinsOf(gained)) \ CoinsOf(lost)
        /\ \A c \in DOMAIN storage' : storage'[c] = CoinOf(c)
        /\ storage' = [c \in DOMAIN storage' |-> storage'[c]]
    BY <2>1, <2>2, <2>4, UpdateCoinsOK
  <2> QED
    BY <1>3, <2>2, <2>3, <2>5
<1>11. StorageOK'
  <2>1. \A c \in DOMAIN storage' : storage'[c] = CoinOf(c)'
    BY <1>10 DEF CoinOf, Account
  <2> QED
    BY <1>5, <1>7, <1>10, <2>1 DEF StorageOK
<1>12. TypeOK'
  <2>1. storage' \in [DOMAIN storage' -> AccountCoins] /\ DOMAIN storage' \subseteq Coins
    BY <1>3, <1>10, CoinsType
  <2>2. chain' \in Seq(SUBSET Operations)
    BY <1>2, <1>3 DEF ParserInv, TypeOK
  <2>3. past' \in Seq([unspent : SUBSET Coins, mined : SUBSET Txs])
    BY <1>2, <1>3 DEF ParserInv, TypeOK
  <2>4. raw' \in Seq([hash : Txs, inputs : SUBSET Coins])
    BY <1>2
  <2>5. DOMAIN coinMap' \subseteq Coins /\ coinMap' \in [DOMAIN coinMap' -> AccountCoins]
    BY <1>2 DEF NoCoins
  <2> QED
    BY <1>2, <1>3, <2>1, <2>2, <2>3, <2>4, <2>5 DEF TypeOK
<1>13. BlockOK' /\ ScanOK' /\ ParseOK'
  BY <1>2, <1>5, <1>7, NextBlock DEF Unspent, Mined
<1> QED
  BY <1>9, <1>11, <1>12, <1>13 DEF ParserInv

(* Storage takes the last block back, as its operations have it.                  *)
LEMMA RemoveBlockInv == ASSUME ParserInv, RemoveBlock PROVE ParserInv'
<1>1. PICK h \in Nat : h + 1 = Height /\ h + 1 = Len(chain) /\ h + 1 = Len(past)
  <2>1. Len(chain) \in Nat /\ Len(chain) # 0 /\ Len(past) = Len(chain)
    BY DEF ParserInv, TypeOK, HistoryOK, RemoveBlock
  <2>2. Len(chain) - 1 \in Nat /\ (Len(chain) - 1) + 1 = Len(chain)
    BY <2>1
  <2> QED
    BY <2>1, <2>2 DEF Height
<1>2. /\ phase = "mine" /\ raw = <<>> /\ NodeRemovesBlock
      /\ storage' = UpdateCoins(Changes(chain[h + 1], "spent"),
                                Changes(chain[h + 1], "created"))
      /\ chain' = SubSeq(chain, 1, h)
      /\ UNCHANGED <<phase, raw, pos, hashes, coinList, coinMap, ops>>
  BY <1>1 DEF RemoveBlock, client
<1>3. unspent' = Unspent(h) /\ mined' = Mined(h) /\ past' = SubSeq(past, 1, h)
  BY <1>1 DEF RemoveBlock, NodeRemovesBlock, Unspent, Mined
<1>4. /\ chain \in Seq(SUBSET Operations)
      /\ past \in Seq([unspent : SUBSET Coins, mined : SUBSET Txs])
  BY DEF ParserInv, TypeOK
<1>5. /\ Len(chain') = h /\ Len(past') = h
      /\ \A i \in 1 .. h : chain'[i] = chain[i] /\ past'[i] = past[i]
      /\ chain' \in Seq(SUBSET Operations)
      /\ past' \in Seq([unspent : SUBSET Coins, mined : SUBSET Txs])
  <2>1. /\ chain' \in Seq(SUBSET Operations) /\ Len(chain') = h
        /\ \A i \in 1 .. h : chain'[i] = chain[i]
    BY <1>1, <1>2, <1>4, Shrunk
  <2>2. /\ past' \in Seq([unspent : SUBSET Coins, mined : SUBSET Txs]) /\ Len(past') = h
        /\ \A i \in 1 .. h : past'[i] = past[i]
    <3>1. PICK S : S = [unspent : SUBSET Coins, mined : SUBSET Txs]
      OBVIOUS
    <3>2. past \in Seq(S) /\ Len(past) = h + 1 /\ past' = SubSeq(past, 1, h)
      BY <1>1, <1>3, <1>4, <3>1
    <3>3. past' \in Seq(S) /\ Len(past') = h /\ \A i \in 1 .. h : past'[i] = past[i]
      BY <3>2, Shrunk
    <3> QED
      BY <3>1, <3>3
  <2> QED
    BY <2>1, <2>2
<1>6. HistoryOK'
  <2> SUFFICES ASSUME NEW i \in 1 .. h PROVE LinkOK(i)'
    BY <1>5 DEF HistoryOK
  <2>1. LinkOK(i) /\ i \in Nat \ {0}
    BY <1>1 DEF ParserInv, HistoryOK
  <2>2. \A j \in 1 .. i : chain'[j] = chain[j] /\ past'[j] = past[j]
    BY <1>5
  <2> QED
    BY <2>1, <2>2, LinkFrame
<1>7. Height' = h /\ Unspent(h)' = Unspent(h) /\ Mined(h)' = Mined(h)
  BY <1>5 DEF Height, Unspent, Mined
<1>8. Unspent(h) \subseteq Coins /\ Mined(h) \subseteq Txs
  <2>1. CASE h = 0
    BY <2>1 DEF Unspent, Mined
  <2>2. CASE h # 0
    <3>1. h \in 1 .. Len(past)
      BY <1>1, <2>2
    <3>2. past[h] \in [unspent : SUBSET Coins, mined : SUBSET Txs]
      BY <1>4, <3>1, Element
    <3> QED
      BY <2>2, <3>2 DEF Unspent, Mined
  <2> QED
    BY <2>1, <2>2
<1>9. /\ OperationsOK(chain[h + 1]) /\ chain[h + 1] \subseteq Operations
      /\ (Unspent(h + 1) \cup Spent(chain[h + 1])) \ Created(chain[h + 1]) = Unspent(h)
  <2>1. h + 1 \in 1 .. Len(chain) /\ (h + 1) - 1 = h
    BY <1>1
  <2>2. /\ LinkOK(h + 1) /\ chain[h + 1] \in SUBSET Operations
    BY <1>4, <2>1, Element DEF ParserInv, HistoryOK
  <2>3. /\ OperationsOK(chain[h + 1])
        /\ Created(chain[h + 1]) \cap Unspent(h) = {}
        /\ Spent(chain[h + 1]) \subseteq Unspent(h) \cup Created(chain[h + 1])
        /\ Unspent(h + 1) = (Unspent(h) \cup Created(chain[h + 1])) \ Spent(chain[h + 1])
    BY <2>1, <2>2 DEF LinkOK
  <2> QED
    BY <2>2, <2>3
<1>10. /\ DOMAIN storage' = Unspent(h)
       /\ \A c \in DOMAIN storage' : storage'[c] = CoinOf(c)
       /\ storage' = [c \in DOMAIN storage' |-> storage'[c]]
  <2> DEFINE gained == Changes(chain[h + 1], "spent")
             lost == Changes(chain[h + 1], "created")
  <2>1. gained \subseteq Operations /\ OperationsOK(gained)
    BY <1>9, ChangesOK
  <2>2. DOMAIN storage = Unspent(h + 1) /\ \A c \in DOMAIN storage : storage[c] = CoinOf(c)
    BY <1>1 DEF ParserInv, StorageOK
  <2>3. /\ CoinsOf(gained) = Spent(chain[h + 1])
        /\ CoinsOf(lost) = Created(chain[h + 1])
    BY DEF Created, Spent
  <2>4. storage' = UpdateCoins(gained, lost)
    BY <1>2
  <2> HIDE DEF gained, lost
  <2>5. /\ DOMAIN storage' = (DOMAIN storage \cup CoinsOf(gained)) \ CoinsOf(lost)
        /\ \A c \in DOMAIN storage' : storage'[c] = CoinOf(c)
        /\ storage' = [c \in DOMAIN storage' |-> storage'[c]]
    BY <2>1, <2>2, <2>4, UpdateCoinsOK
  <2> QED
    BY <1>9, <2>2, <2>3, <2>5
<1>11. StorageOK'
  <2>1. \A c \in DOMAIN storage' : storage'[c] = CoinOf(c)'
    BY <1>10 DEF CoinOf, Account
  <2>2. Unspent(Height)' = Unspent(h)
    BY <1>7 DEF Unspent
  <2> QED
    BY <1>10, <2>1, <2>2 DEF StorageOK
<1>12. TypeOK'
  <2>1. storage' \in [DOMAIN storage' -> AccountCoins] /\ DOMAIN storage' \subseteq Coins
    BY <1>8, <1>10, CoinsType
  <2> QED
    BY <1>2, <1>3, <1>5, <1>8, <2>1 DEF ParserInv, TypeOK
<1>13. unspent' = Unspent(Height)' /\ mined' = Mined(Height)'
  BY <1>3, <1>7 DEF Unspent, Mined
<1>14. BlockOK' /\ ScanOK' /\ ParseOK'
  BY <1>2, <1>13, NextBlock
<1> QED
  BY <1>6, <1>11, <1>12, <1>14 DEF ParserInv

(* Nothing has happened.                                                          *)
LEMMA ParserInitInv == ASSUME Init PROVE ParserInv
<1>1. /\ phase = "mine" /\ raw = <<>> /\ unspent = {} /\ mined = {} /\ past = <<>>
      /\ pos = 1 /\ hashes = {} /\ coinList = {} /\ coinMap = NoCoins /\ ops = {}
      /\ chain = <<>> /\ storage = NoCoins
  BY DEF Init
<1>2. Len(raw) = 0 /\ Len(chain) = 0 /\ Len(past) = 0 /\ Height = 0
  BY <1>1 DEF Height
<1>3. DOMAIN NoCoins = {} /\ NoCoins \in [{} -> AccountCoins]
  BY DEF NoCoins
<1>4. TypeOK
  <2>1. /\ raw \in Seq([hash : Txs, inputs : SUBSET Coins])
        /\ past \in Seq([unspent : SUBSET Coins, mined : SUBSET Txs])
        /\ chain \in Seq(SUBSET Operations)
    BY <1>1
  <2> QED
    BY <1>1, <1>3, <2>1 DEF TypeOK
<1>5. HistoryOK
  BY <1>2 DEF HistoryOK
<1>6. Unspent(Height) = {} /\ Mined(Height) = {}
  BY <1>2 DEF Unspent, Mined
<1>7. StorageOK
  BY <1>1, <1>3, <1>6 DEF StorageOK
<1>8. NewCoins(Len(raw)) = {} /\ SpentCoins(Len(raw)) = {}
  BY <1>2 DEF NewCoins, SpentCoins
<1>9. BlockOK
  BY <1>1, <1>2, <1>6, <1>8 DEF BlockOK
<1>10. ScanOK /\ ParseOK
  BY <1>1 DEF ScanOK, ParseOK
<1> QED
  BY <1>4, <1>5, <1>7, <1>9, <1>10 DEF ParserInv

(* A step that changes nothing preserves what is true.                            *)
LEMMA ParserStutterInv == ASSUME ParserInv, UNCHANGED vars PROVE ParserInv'
<1>1. /\ UNCHANGED <<phase, raw, unspent, mined, past>>
      /\ UNCHANGED <<pos, hashes, coinList, coinMap, ops, chain, storage>>
      /\ UNCHANGED <<node, store>>
  BY DEF vars, node, client, store
<1>2. HistoryOK' /\ StorageOK' /\ BlockOK'
  BY <1>1, ClientFrame DEF ParserInv
<1>3. TypeOK'
  BY <1>1 DEF ParserInv, TypeOK
<1>4. Unspent(Height)' = Unspent(Height)
  BY <1>1 DEF Unspent, Height
<1>5. ScanOK'
  BY <1>1, <1>4 DEF ParserInv, ScanOK, Listed
<1>6. /\ OperationsOK(ops)' <=> OperationsOK(ops)
      /\ Created(ops)' = Created(ops) /\ Spent(ops)' = Spent(ops)
  BY <1>1 DEF OperationsOK, Account, Created, Spent, Changes, CoinsOf
<1>7. NewCoins(pos - 1)' = NewCoins(pos - 1) /\ SpentCoins(pos - 1)' = SpentCoins(pos - 1)
  BY <1>1 DEF NewCoins, SpentCoins, skipTransactionOperations, Height
<1>8. \A c \in DOMAIN coinMap : CoinOf(c)' = CoinOf(c)
  BY DEF CoinOf, Account
<1>9. ParseOK'
  BY <1>1, <1>6, <1>7, <1>8 DEF ParserInv, ParseOK, Outputs
<1> QED
  BY <1>2, <1>3, <1>5, <1>9 DEF ParserInv

(* Every step preserves the invariant.                                            *)
LEMMA ParserNextInv == ASSUME ParserInv, [Next]_vars PROVE ParserInv'
<1>1. ASSUME NEW t \in Txs, NEW ins \in SUBSET unspent, MineTx(t, ins)
      PROVE  ParserInv'
  BY <1>1, MineTxInv
<1>2. CASE Next
  BY <1>1, <1>2, GetBlockInv, ScanTxInv, ScanDoneInv, FindCoinsInv, ParseTxInv,
     ParseDoneInv, AddBlockInv, RemoveBlockInv DEF Next
<1>3. CASE UNCHANGED vars
  BY <1>3, ParserStutterInv
<1> QED
  BY <1>2, <1>3

--------------------------------------------------------------------------------
(* The theorems                                                                   *)

(* What GetRawBlock and ParseBlock have got so far, and what the history in block *)
(* storage tells of the node, is always right.                                    *)
THEOREM ParserInvariance == Spec => []ParserInv
BY ParserInitInv, ParserNextInv, PTL DEF Spec

(* Every coin GetRawBlock asks for is in storage: findCoins does not wait for a   *)
(* coin of the block itself.                                                      *)
THEOREM CoinsCanBeFound == Spec => []NeverWaitsForItself
<1>1. ParserInv => NeverWaitsForItself
  BY DEF ParserInv, ScanOK, StorageOK, NeverWaitsForItself
<1> QED
  BY <1>1, ParserInvariance, PTL

(* ParseBlock knows every coin that a valid block spends.                         *)
THEOREM ParseSucceeds == Spec => []ParseNeverFails
<1>1. ParserInv => ParseNeverFails
  BY DEF ParserInv, ParseOK, ParseNeverFails
<1> QED
  BY <1>1, ParserInvariance, PTL

(* Between blocks coin storage holds the node's unspent coins, whatever blocks    *)
(* have been added and removed.                                                   *)
THEOREM StorageIsUnspent == Spec => []StorageFollowsNode
<1>1. ASSUME ParserInv, InStep PROVE DOMAIN storage = unspent
  <2>1. Len(raw) = 0
    BY <1>1 DEF InStep
  <2>2. NewCoins(Len(raw)) = {} /\ SpentCoins(Len(raw)) = {}
    BY <2>1 DEF NewCoins, SpentCoins
  <2> QED
    BY <1>1, <2>2 DEF ParserInv, BlockOK, StorageOK
<1>2. ParserInv => StorageFollowsNode
  BY <1>1 DEF StorageFollowsNode
<1> QED
  BY <1>2, ParserInvariance, PTL

(* The operations found for a coin of storage are those of the output that        *)
(* created it, and there is one.                                                  *)
LEMMA ScriptFound ==
    ASSUME ParserInv, NEW c \in DOMAIN storage
    PROVE  CoinsOf(GetScriptPubKey(c, -storage[c].value)) = {c}
<1>1. PICK h \in Nat : h = Height /\ h = Len(chain) /\ h = Len(past)
  BY DEF ParserInv, TypeOK, HistoryOK, Height
<1>2. c \in Coins /\ c \in Unspent(h) /\ storage[c].value = Value[c] /\ Value[c] \in Nat
  BY <1>1, ParserConstants DEF ParserInv, TypeOK, StorageOK, CoinOf
<1>3. PICK v \in Int : v = Value[c] /\ v + (-storage[c].value) = 0
  BY <1>2
<1>4. ASSUME NEW i \in 1 .. h, NEW o \in chain[i]
      PROVE  /\ o \in Operations
             /\ o.type = "OUTPUT" =>
                    o.tx = TxOf[o.coin] /\ o.networkIndex = Vout[o.coin]
                    /\ o.amount = Value[o.coin] /\ o.coin \in Coins
  <2>1. chain \in Seq(SUBSET Operations) /\ i \in 1 .. Len(chain)
    BY <1>1 DEF ParserInv, TypeOK
  <2>2. chain[i] \in SUBSET Operations
    BY <2>1, Element
  <2>3. OperationsOK(chain[i])
    BY <2>1 DEF ParserInv, HistoryOK, LinkOK
  <2>4. o \in Operations /\ o.coin \in Coins
    BY <2>2 DEF Operations
  <2> QED
    BY <2>3, <2>4 DEF OperationsOK
<1>5. ASSUME NEW o \in GetScriptPubKey(c, -storage[c].value) PROVE o.coin = c
  <2>1. /\ o \in FindTransaction(TxOf[c]) /\ o.type = "OUTPUT" /\ o.networkIndex = Vout[c]
    BY DEF GetScriptPubKey, IsOperationOf
  <2>2. PICK i \in 1 .. h : o \in chain[i] /\ o.tx = TxOf[c]
    BY <1>1, <2>1 DEF FindTransaction
  <2>3. o.coin \in Coins /\ TxOf[o.coin] = TxOf[c] /\ Vout[o.coin] = Vout[c]
    BY <1>4, <2>1, <2>2
  <2> QED
    BY <1>2, <2>3, ParserConstants
<1>6. \E o \in GetScriptPubKey(c, -storage[c].value) : o.coin = c
  <2>1. h \in 1 .. h
    BY <1>2 DEF Unspent
  <2>2. PICK i \in 1 .. h : \E o \in chain[i] : o.type = "OUTPUT" /\ o.coin = c
    BY <1>1, <1>2, <2>1 DEF ParserInv, HistoryOK, LinkOK
  <2>3. PICK o \in chain[i] : o.type = "OUTPUT" /\ o.coin = c
    BY <2>2
  <2>4. o.tx = TxOf[c] /\ o.networkIndex = Vout[c] /\ o.amount = v
    BY <1>3, <1>4, <2>3
  <2>5. o \in FindTransaction(TxOf[c])
    BY <1>1, <2>4 DEF FindTransaction
  <2>6. o.amount + (-storage[c].value) = 0
    BY <1>3, <2>4
  <2>7. o \in GetScriptPubKey(c, -storage[c].value)
    BY <2>3, <2>4, <2>5, <2>6 DEF GetScriptPubKey, IsOperationOf
  <2> QED
    BY <2>3, <2>7
<1> QED
  BY <1>5, <1>6 DEF CoinsOf

(* GetScriptPubKeys finds the script of every unspent coin, and no other.         *)
THEOREM ScriptsAreFound == Spec => []CoinsHaveScripts
<1>1. ParserInv => CoinsHaveScripts
  BY ScriptFound DEF CoinsHaveScripts
<1> QED
  BY <1>1, ParserInvariance, PTL

--------------------------------------------------------------------------------
(* Balances                                                                       *)

(* The successful operations of a block on account a with this coin change        *)
Parts(block, a, change) == {o \in Changes(block, change) : o.account = a}

(* The operations on an account with one coin change are as many as their coins,  *)
(* and their amounts add up to what the coins are worth, up to the sign.          *)
LEMMA PartSum ==
    ASSUME NEW block, block \subseteq Operations, OperationsOK(block), Once(block),
           NEW a \in Accounts, NEW change, NEW f, f = [o \in block |-> o.amount],
           NEW g, \A c \in Coins : g[c] \in Int,
           \A o \in Changes(block, change) : o.amount = g[o.coin]
    PROVE  /\ IsFiniteSet(Parts(block, a, change))
           /\ SumFunctionOnSet(f, Parts(block, a, change)) =
                  SumFunctionOnSet(g, {c \in CoinsOf(Changes(block, change)) : Account(c) = a})
<1> DEFINE os == Parts(block, a, change)
           cs == {c \in CoinsOf(Changes(block, change)) : Account(c) = a}
           h == [c \in cs |-> CHOOSE o \in os : o.coin = c]
<1>1. \A o \in os : /\ o \in block /\ o.success /\ o.change = change /\ o.coin \in Coins
                    /\ o.account = a /\ Account(o.coin) = a
  BY DEF Parts, Changes, OperationsOK, Operations
<1>2. \A o, x \in os : o.coin = x.coin => o = x
  BY <1>1 DEF Once
<1>3. cs \subseteq Coins
  BY DEF CoinsOf, Changes, Operations
<1>4. \A c \in cs : \E o \in os : o.coin = c
  BY DEF CoinsOf, Changes, Parts, OperationsOK
<1>5. \A o \in os : o.coin \in cs
  BY <1>1 DEF CoinsOf, Parts
<1>6. \A o \in os : f[o] = g[o.coin]
  BY <1>1 DEF Parts
<1>7. IsFiniteSet(cs)
  BY <1>3, ParserConstants, FS_Subset
<1> HIDE DEF os, cs
<1>8. ASSUME NEW c \in cs PROVE h[c] \in os /\ h[c].coin = c
  <2>1. PICK o \in os : o.coin = c
    BY <1>4
  <2>2. PICK x : x = CHOOSE y \in os : y.coin = c
    OBVIOUS
  <2>3. x \in os /\ x.coin = c
    BY <2>1, <2>2
  <2> QED
    BY <2>2, <2>3
<1>9. \A o \in os : h[o.coin] = o
  BY <1>2, <1>5, <1>8
<1> HIDE DEF h
<1>10. {h[c] : c \in cs} = os
  BY <1>5, <1>8, <1>9
<1>11. \A c, d \in cs : h[c] = h[d] => c = d
  BY <1>8
<1>12. \A c \in cs : g[c] = f[h[c]] /\ g[c] \in Int
  BY <1>3, <1>6, <1>8
<1>13. /\ IsFiniteSet({h[c] : c \in cs})
       /\ SumFunctionOnSet(g, cs) = SumFunctionOnSet(f, {h[c] : c \in cs})
  BY <1>7, <1>11, <1>12, SumImage
<1> QED
  BY <1>10, <1>13 DEF os, cs

(* Two sets of coins with no coin in both                                         *)
Apart(cs, ds) == cs \subseteq Coins /\ ds \subseteq Coins /\ cs \cap ds = {}

(* What is held of coins is a number, and what is held of two sets of coins adds  *)
(* up if no coin is in both.                                                      *)
LEMMA HeldSum ==
    ASSUME NEW cs, NEW ds, Apart(cs, ds), NEW a
    PROVE  /\ Held(cs, a) \in Int /\ Held(ds, a) \in Int
           /\ Held(cs \cup ds, a) = Held(cs, a) + Held(ds, a)
<1> DEFINE C == {c \in cs : Account(c) = a}
           D == {c \in ds : Account(c) = a}
<1>1. IsFiniteSet(C) /\ IsFiniteSet(D) /\ C \cap D = {}
  BY ParserConstants, FS_Subset DEF Apart
<1>2. \A c \in C \cup D : Value[c] \in Int
  BY ParserConstants DEF Apart
<1>3. {c \in cs \cup ds : Account(c) = a} = C \cup D
  OBVIOUS
<1>4. Held(cs, a) = Total(C) /\ Held(ds, a) = Total(D) /\ Held(cs \cup ds, a) = Total(C \cup D)
  BY <1>3 DEF Held
<1> HIDE DEF C, D
<1>5. SumFunctionOnSet(Value, C) \in Int /\ SumFunctionOnSet(Value, D) \in Int
  BY <1>1, <1>2, SumType
<1>6. SumFunctionOnSet(Value, C \cup D) =
          SumFunctionOnSet(Value, C) + SumFunctionOnSet(Value, D)
  BY <1>1, <1>2, SumUnion
<1> QED
  BY <1>4, <1>5, <1>6 DEF Total

(* A block means for an account what it creates and burns there, less what it     *)
(* spends.                                                                        *)
LEMMA DeltaIs ==
    ASSUME NEW block, block \subseteq Operations, OperationsOK(block), Once(block),
           NEW a \in Accounts
    PROVE  Delta(block, a) =
               (Held(Created(block), a) + Held(Burnt(block), a)) - Held(Spent(block), a)
<1> DEFINE f == [o \in block |-> o.amount]
           neg == [c \in Coins |-> -Value[c]]
           C == Parts(block, a, "created")
           N == Parts(block, a, "none")
           S == Parts(block, a, "spent")
           spent == {c \in CoinsOf(Changes(block, "spent")) : Account(c) = a}
<1>1. \A c \in Coins : Value[c] \in Int /\ neg[c] \in Int /\ neg[c] = -Value[c]
  BY ParserConstants
<1>2. ASSUME NEW o \in block
      PROVE  /\ o \in Operations /\ o.coin \in Coins /\ o.amount \in Int
             /\ o.change \in {"created", "spent", "none"}
             /\ o.change = "spent" => o.amount = -Value[o.coin]
             /\ o.change # "spent" => o.amount = Value[o.coin]
  BY DEF OperationsOK, Operations
<1>3. /\ \A o \in Changes(block, "created") : o.amount = Value[o.coin]
      /\ \A o \in Changes(block, "none") : o.amount = Value[o.coin]
      /\ \A o \in Changes(block, "spent") : o.amount = neg[o.coin]
  BY <1>1, <1>2 DEF Changes
<1>4. {o \in block : o.success /\ o.account = a} = (C \cup N) \cup S
  BY <1>2 DEF Parts, Changes
<1>5. C \cap N = {} /\ (C \cup N) \cap S = {}
  BY DEF Parts, Changes
<1>6. \A o \in (C \cup N) \cup S : f[o] \in Int
  BY <1>2 DEF Parts, Changes
<1>7. Delta(block, a) = SumFunctionOnSet(f, (C \cup N) \cup S)
  BY <1>4 DEF Delta
<1> HIDE DEF f, neg
<1>8. ASSUME NEW change, NEW g, \A c \in Coins : g[c] \in Int,
             \A o \in Changes(block, change) : o.amount = g[o.coin]
      PROVE  /\ IsFiniteSet(Parts(block, a, change))
             /\ SumFunctionOnSet(f, Parts(block, a, change)) =
                  SumFunctionOnSet(g, {c \in CoinsOf(Changes(block, change)) : Account(c) = a})
  BY <1>8, PartSum DEF f
<1>9. /\ IsFiniteSet(C) /\ SumFunctionOnSet(f, C) = Held(Created(block), a)
      /\ IsFiniteSet(N) /\ SumFunctionOnSet(f, N) = Held(Burnt(block), a)
  BY <1>1, <1>3, <1>8 DEF Held, Total, Created, Burnt
<1>10. IsFiniteSet(S) /\ SumFunctionOnSet(f, S) = SumFunctionOnSet(neg, spent)
  BY <1>1, <1>3, <1>8
<1>11. SumFunctionOnSet(neg, spent) = -Held(Spent(block), a)
  <2>1. spent \subseteq Coins
    BY <1>2 DEF CoinsOf, Changes
  <2>2. IsFiniteSet(spent) /\ \A c \in spent : Value[c] \in Int /\ neg[c] = -Value[c]
    BY <1>1, <2>1, ParserConstants, FS_Subset
  <2>3. Held(Spent(block), a) = SumFunctionOnSet(Value, spent)
    BY DEF Held, Total, Spent
  <2> HIDE DEF spent
  <2> QED
    BY <2>2, <2>3, SumNegated
<1> HIDE DEF C, N, S, spent
<1>12. /\ SumFunctionOnSet(f, C \cup N) = SumFunctionOnSet(f, C) + SumFunctionOnSet(f, N)
       /\ IsFiniteSet(C \cup N)
  BY <1>5, <1>6, <1>9, SumUnion, FS_Union
<1>13. SumFunctionOnSet(f, (C \cup N) \cup S) =
           SumFunctionOnSet(f, C \cup N) + SumFunctionOnSet(f, S)
  BY <1>5, <1>6, <1>10, <1>12, SumUnion
<1>14. /\ SumFunctionOnSet(f, C) \in Int /\ SumFunctionOnSet(f, N) \in Int
       /\ SumFunctionOnSet(f, S) \in Int
  BY <1>6, <1>9, <1>10, SumType
<1>15. Held(Spent(block), a) \in Int
  <2>1. Spent(block) \subseteq Coins
    BY <1>2 DEF Spent, CoinsOf, Changes
  <2>2. Apart(Spent(block), {})
    BY <2>1 DEF Apart
  <2> QED
    BY <2>2, HeldSum
<1> QED
  BY <1>7, <1>9, <1>10, <1>11, <1>12, <1>13, <1>14, <1>15

(* The operations of a block lead from the unspent coins U and the burnt ones B   *)
(* to V and D: what it creates was not unspent before, what it spends was or is   *)
(* created, and nothing it burns was burnt before.                                *)
Moves(block, U, B, V, D) ==
    /\ U \subseteq Coins /\ B \subseteq Coins
    /\ Created(block) \cap U = {} /\ Spent(block) \subseteq U \cup Created(block)
    /\ V = (U \cup Created(block)) \ Spent(block)
    /\ Burnt(block) \cap B = {} /\ D = B \cup Burnt(block)

(* How such a block changes what its coins are worth to an account                *)
LEMMA WorthStep ==
    ASSUME NEW block, block \subseteq Operations, OperationsOK(block), Once(block),
           NEW U, NEW B, NEW V, NEW D, Moves(block, U, B, V, D), NEW a \in Accounts
    PROVE  /\ Held(U, a) + Held(B, a) \in Int /\ Delta(block, a) \in Int
           /\ Held(V, a) + Held(D, a) = (Held(U, a) + Held(B, a)) + Delta(block, a)
<1>1. PICK C, S, N : C = Created(block) /\ S = Spent(block) /\ N = Burnt(block)
  OBVIOUS
<1>2. C \subseteq Coins /\ S \subseteq Coins /\ N \subseteq Coins
  BY <1>1 DEF Created, Spent, Burnt, CoinsOf, Changes, Operations
<1>3. Delta(block, a) = (Held(C, a) + Held(N, a)) - Held(S, a)
  BY <1>1, DeltaIs
<1>4. Apart(U, C) /\ Apart(V, S) /\ Apart(B, N)
  BY <1>1, <1>2 DEF Apart, Moves
<1>5. /\ Held(U, a) \in Int /\ Held(C, a) \in Int
      /\ Held(U \cup C, a) = Held(U, a) + Held(C, a)
  BY <1>4, HeldSum
<1>6. /\ Held(V, a) \in Int /\ Held(S, a) \in Int
      /\ Held(V \cup S, a) = Held(V, a) + Held(S, a)
  BY <1>4, HeldSum
<1>7. /\ Held(B, a) \in Int /\ Held(N, a) \in Int
      /\ Held(B \cup N, a) = Held(B, a) + Held(N, a)
  BY <1>4, HeldSum
<1>8. Held(V, a) + Held(S, a) = Held(U, a) + Held(C, a)
  <2>1. V \cup S = U \cup C
    BY <1>1 DEF Moves
  <2> QED
    BY <2>1, <1>5, <1>6
<1>9. Held(D, a) = Held(B, a) + Held(N, a)
  <2>1. D = B \cup N
    BY <1>1 DEF Moves
  <2> QED
    BY <2>1, <1>7
<1> QED
  BY <1>3, <1>5, <1>6, <1>7, <1>8, <1>9

(* What an account is worth after block i stays while the block stays.            *)
LEMMA WorthFrame ==
    ASSUME NEW i \in Nat, i # 0 => past'[i] = past[i]
    PROVE  /\ Burns(i)' = Burns(i) /\ Unspent(i)' = Unspent(i) /\ Mined(i)' = Mined(i)
           /\ \A a \in Accounts : Worth(i, a)' = Worth(i, a)
<1>1. Unspent(i)' = Unspent(i) /\ Mined(i)' = Mined(i)
  BY DEF Unspent, Mined
<1>2. Burns(i)' = Burns(i)
  BY <1>1 DEF Burns
<1>3. ASSUME NEW a \in Accounts PROVE Worth(i, a)' = Worth(i, a)
  BY <1>1, <1>2 DEF Worth, Held, Total, Account
<1> QED
  BY <1>1, <1>2, <1>3

(* Block i accounts for its coins while the blocks up to i stay.                  *)
LEMMA TallyFrame ==
    ASSUME NEW i \in Nat \ {0}, TallyOK(i),
           \A j \in 1 .. i : chain'[j] = chain[j] /\ past'[j] = past[j]
    PROVE  TallyOK(i)'
<1>1. chain'[i] = chain[i] /\ past'[i] = past[i] /\ i - 1 \in Nat
  OBVIOUS
<1>2. i - 1 # 0 => past'[i - 1] = past[i - 1]
  OBVIOUS
<1>3. Burns(i)' = Burns(i)
  BY <1>1, WorthFrame
<1>4. Burns(i - 1)' = Burns(i - 1)
  BY <1>1, <1>2, WorthFrame
<1>5. (Once(chain[i])' <=> Once(chain[i])) /\ Burnt(chain[i])' = Burnt(chain[i])
  BY <1>1 DEF Once, Burnt, CoinsOf, Changes
<1> QED
  BY <1>3, <1>4, <1>5 DEF TallyOK

(* What a step that leaves the stored blocks alone preserves                      *)
LEMMA StoredFrame ==
    ASSUME AccountingInv, UNCHANGED <<past, chain, balance>>
    PROVE  BalanceOK' /\ (\A i \in 1 .. Len(chain) : TallyOK(i))'
<1>1. PICK h \in Nat : h = Height /\ h = Len(chain) /\ h = Height' /\ h = Len(chain')
  BY DEF AccountingInv, ParserInv, TypeOK, Height
<1>2. \A i \in 1 .. h : TallyOK(i)'
  BY <1>1, TallyFrame DEF AccountingInv
<1>3. BalanceOK'
  <2>1. balance = [a \in Accounts |-> Worth(h, a)]
    BY <1>1 DEF AccountingInv, BalanceOK
  <2>2. \A a \in Accounts : Worth(h, a)' = Worth(h, a)
    BY WorthFrame
  <2>3. balance' = [a \in Accounts |-> Worth(h, a)']
    BY <2>1, <2>2
  <2> QED
    BY <1>1, <2>3 DEF BalanceOK
<1> QED
  BY <1>1, <1>2, <1>3

(* What one preserves that leaves the raw block alone as well                     *)
LEMMA AccountsFrame ==
    ASSUME AccountingInv, UNCHANGED <<raw, past, chain, balance>>
    PROVE  FreshOK' /\ BalanceOK' /\ (\A i \in 1 .. Len(chain) : TallyOK(i))'
<1>1. FreshOK'
  BY DEF AccountingInv, FreshOK, skipTransactionOperations, Mined, Height
<1> QED
  BY <1>1, StoredFrame

(* Steps of GetRawBlock                                                           *)
LEMMA ScanAccounts ==
    ASSUME AccountingInv, GetBlock \/ ScanTx \/ ScanDone
    PROVE  AccountingInv'
<1>1. /\ UNCHANGED <<raw, past, chain, balance>> /\ phase' \in {"scan", "find"}
  BY DEF GetBlock, ScanTx, ScanDone, node, store
<1>2. ParserInv'
  BY GetBlockInv, ScanTxInv, ScanDoneInv DEF AccountingInv
<1>3. OnceOK'
  BY <1>1 DEF OnceOK
<1> QED
  BY <1>1, <1>2, <1>3, AccountsFrame DEF AccountingInv

(* Nothing is parsed yet.                                                         *)
LEMMA FindCoinsAccounts == ASSUME AccountingInv, FindCoins PROVE AccountingInv'
<1>1. UNCHANGED <<raw, past, chain, balance>> /\ ops' = {} /\ pos' = 1
  BY DEF FindCoins, node, store
<1>2. ParserInv'
  BY FindCoinsInv DEF AccountingInv
<1>3. Once(ops)' /\ Burnt(ops)' = {}
  BY <1>1 DEF Once, Burnt, CoinsOf, Changes
<1>4. pos' - 1 = 0 /\ NewBurns(pos - 1)' = {}
  BY <1>1 DEF NewBurns
<1>5. OnceOK'
  BY <1>3, <1>4 DEF OnceOK
<1> QED
  BY <1>1, <1>2, <1>5, AccountsFrame DEF AccountingInv

(* What is parsed stays.                                                          *)
LEMMA ParsedAccounts ==
    ASSUME AccountingInv, ParserInv',
           UNCHANGED <<raw, past, chain, balance, pos, ops>>,
           phase' = phase \/ (phase = "parse" /\ phase' = "add")
    PROVE  AccountingInv'
<1>1. /\ Once(ops)' <=> Once(ops)
      /\ Burnt(ops)' = Burnt(ops) /\ NewBurns(pos - 1)' = NewBurns(pos - 1)
  BY DEF Once, Burnt, CoinsOf, Changes, NewBurns, skipTransactionOperations, Height
<1>2. OnceOK'
  BY <1>1 DEF AccountingInv, OnceOK
<1> QED
  BY <1>2, AccountsFrame DEF AccountingInv

(* A transaction has one operation for each of its inputs and outputs.            *)
LEMMA TxOperationsOnce ==
    ASSUME NEW tx \in [hash : Txs, inputs : SUBSET Coins],
           \A c \in tx.inputs : coinMap[c] = CoinOf(c)
    PROVE  /\ \A o, x \in TxOperations(tx) : o.change = x.change /\ o.coin = x.coin => o = x
           /\ \A o \in TxOperations(tx) :
                  /\ o.change = "spent" => o.coin \in tx.inputs
                  /\ o.change # "spent" => o.coin \in Outputs(tx.hash)
                  /\ o.change = "none" <=> o.change # "spent" /\ o.coin \in NullData
           /\ \A c \in Outputs(tx.hash) :
                  \E o \in TxOperations(tx) : o.change # "spent" /\ o.coin = c
<1> DEFINE ins == SetToSeq(tx.inputs)
           n == IF tx.hash \in Coinbases THEN 1 ELSE Len(ins)
           inOps == {InputOp(tx.hash, ins[i], i - 1) : i \in 1 .. Len(ins)}
           outOps == {OutputOp(c, n) : c \in Outputs(tx.hash)}
<1>1. TxOperations(tx) = inOps \cup outOps
  BY DEF TxOperations
<1>2. tx.hash \in Txs /\ tx.inputs \subseteq Coins
  OBVIOUS
<1>3. /\ Len(ins) \in Nat /\ ins \in [1 .. Len(ins) -> tx.inputs]
      /\ \A i, j \in 1 .. Len(ins) : ins[i] = ins[j] => i = j
  BY <1>2, NumberedInputs
<1>4. n \in Nat
  BY <1>3
<1>5. ASSUME NEW i \in 1 .. Len(ins), NEW o, o = InputOp(tx.hash, ins[i], i - 1)
      PROVE  o.coin = ins[i] /\ ins[i] \in tx.inputs /\ o.change = "spent"
  <2>1. ins[i] \in tx.inputs /\ ins[i] \in Coins /\ i - 1 \in Nat
    BY <1>2, <1>3
  <2>2. coinMap[ins[i]] = CoinOf(ins[i])
    BY <2>1
  <2> HIDE DEF ins
  <2> QED
    BY <1>2, <1>5, <2>1, <2>2, InputOpOK
<1>6. ASSUME NEW c \in Outputs(tx.hash), NEW o, o = OutputOp(c, n)
      PROVE  o.coin = c /\ o.change = IF c \in NullData THEN "none" ELSE "created"
  <2>1. c \in Coins
    BY DEF Outputs
  <2> HIDE DEF n
  <2> QED
    BY <1>4, <1>6, <2>1, OutputOpOK
<1> HIDE DEF n, ins
<1>7. \A o, x \in inOps : o.coin = x.coin => o = x
  BY <1>3, <1>5
<1>8. \A o, x \in outOps : o.coin = x.coin => o = x
  BY <1>6
<1>9. \A o \in inOps : o.coin \in tx.inputs /\ o.change = "spent"
  BY <1>5
<1>10. \A o \in outOps : /\ o.coin \in Outputs(tx.hash)
                         /\ o.change = IF o.coin \in NullData THEN "none" ELSE "created"
  BY <1>6
<1>11. \A c \in Outputs(tx.hash) : \E o \in outOps : o.coin = c
  BY <1>6
<1> HIDE DEF inOps, outOps
<1>12. \A o \in inOps \cup outOps :
           /\ o.change = "spent" => o \in inOps
           /\ o.change # "spent" => o \in outOps
  BY <1>9, <1>10
<1>13. \A o, x \in inOps \cup outOps : o.change = x.change /\ o.coin = x.coin => o = x
  BY <1>7, <1>8, <1>12
<1>14. \A o \in inOps \cup outOps :
           /\ o.change = "spent" => o.coin \in tx.inputs
           /\ o.change # "spent" => o.coin \in Outputs(tx.hash)
           /\ o.change = "none" <=> o.change # "spent" /\ o.coin \in NullData
  BY <1>9, <1>10
<1>15. \A c \in Outputs(tx.hash) : \E o \in inOps \cup outOps : o.change # "spent" /\ o.coin = c
  BY <1>10, <1>11
<1> QED
  BY <1>1, <1>13, <1>14, <1>15

(* The operations of a transaction with their status: each is there once, and a   *)
(* transaction that is not skipped burns its OP_RETURN outputs.                   *)
LEMMA TxOnce ==
    ASSUME NEW tx \in [hash : Txs, inputs : SUBSET Coins],
           \A c \in tx.inputs : coinMap[c] = CoinOf(c), TxOperations(tx) \subseteq Operations,
           NEW b \in BOOLEAN, NEW ts, ts = Marked(TxOperations(tx), b)
    PROVE  /\ Once(ts)
           /\ \A o \in ts : /\ o.success => b = TRUE
                            /\ o.change = "spent" => o.coin \in tx.inputs
                            /\ o.change # "spent" => o.coin \in Outputs(tx.hash)
           /\ b = TRUE => Burnt(ts) = Outputs(tx.hash) \cap NullData
           /\ b = FALSE => Burnt(ts) = {}
<1> DEFINE os == TxOperations(tx)
<1>1. /\ \A o, x \in os : o.change = x.change /\ o.coin = x.coin => o = x
      /\ \A o \in os : /\ o.change = "spent" => o.coin \in tx.inputs
                       /\ o.change # "spent" => o.coin \in Outputs(tx.hash)
                       /\ o.change = "none" <=> o.change # "spent" /\ o.coin \in NullData
      /\ \A c \in Outputs(tx.hash) : \E o \in os : o.change # "spent" /\ o.coin = c
  BY TxOperationsOnce
<1>2. os \subseteq Operations /\ ts = {[o EXCEPT !.success = b] : o \in os}
  BY DEF Marked
<1> HIDE DEF os
<1>3. ASSUME NEW o \in os, NEW s, s = [o EXCEPT !.success = b]
      PROVE  s.success = b /\ s.coin = o.coin /\ s.change = o.change
  BY <1>2, <1>3 DEF Operations
<1>4. \A s \in ts : \E o \in os : /\ s = [o EXCEPT !.success = b] /\ s.success = b
                                  /\ s.coin = o.coin /\ s.change = o.change
  BY <1>2, <1>3
<1>5. \A o \in os : \E s \in ts : s.coin = o.coin /\ s.change = o.change /\ s.success = b
  BY <1>2, <1>3
<1>6. ASSUME NEW s \in ts, NEW z \in ts, s.change = z.change, s.coin = z.coin PROVE s = z
  <2>1. PICK o \in os : s = [o EXCEPT !.success = b] /\ s.coin = o.coin /\ s.change = o.change
    BY <1>4
  <2>2. PICK x \in os : z = [x EXCEPT !.success = b] /\ z.coin = x.coin /\ z.change = x.change
    BY <1>4
  <2>3. o = x
    BY <1>1, <1>6, <2>1, <2>2
  <2> QED
    BY <2>1, <2>2, <2>3
<1>7. Once(ts)
  BY <1>6 DEF Once
<1>8. \A s \in ts : /\ s.change = "spent" => s.coin \in tx.inputs
                    /\ s.change # "spent" => s.coin \in Outputs(tx.hash)
                    /\ s.change = "none" <=> s.change # "spent" /\ s.coin \in NullData
  BY <1>1, <1>4
<1>9. \A s \in ts : s.success = b
  BY <1>4
<1>10. \A s \in ts : s.success => b = TRUE
  BY <1>9, Zenon
<1>11. ASSUME b = TRUE PROVE Burnt(ts) = Outputs(tx.hash) \cap NullData
  <2>1. \A s \in ts : s.success
    BY <1>9, <1>11, Zenon
  <2>2. Changes(ts, "none") = {s \in ts : s.change # "spent" /\ s.coin \in NullData}
    BY <1>8, <2>1 DEF Changes
  <2>3. \A c \in Outputs(tx.hash) : \E s \in ts : s.change # "spent" /\ s.coin = c
    BY <1>1, <1>5
  <2> QED
    BY <1>8, <2>2, <2>3 DEF Burnt, CoinsOf
<1>12. ASSUME b = FALSE PROVE Burnt(ts) = {}
  <2>1. \A s \in ts : ~s.success
    BY <1>9, <1>12, Zenon
  <2>2. Changes(ts, "none") = {}
    BY <2>1 DEF Changes
  <2> QED
    BY <2>2 DEF Burnt, CoinsOf
<1> QED
  BY <1>7, <1>8, <1>10, <1>11, <1>12

(* What one more transaction burns                                                *)
LEMMA OneMoreBurns ==
    ASSUME NEW n \in Nat
    PROVE  NewBurns(n + 1) = NewBurns(n) \cup
               IF skipTransactionOperations(raw[n + 1].hash) THEN {}
               ELSE Outputs(raw[n + 1].hash) \cap NullData
<1>1. 1 .. n + 1 = (1 .. n) \cup {n + 1}
  OBVIOUS
<1>2. NullData \subseteq Coins
  BY ParserConstants
<1> QED
  BY <1>1, <1>2 DEF NewBurns, Outputs

(* The loop body of ParseBlock: no coin of the transaction is in an operation of  *)
(* the transactions before it.                                                    *)
LEMMA ParseTxAccounts == ASSUME AccountingInv, ParseTx PROVE AccountingInv'
<1>1. /\ phase = "parse" /\ pos \in 1 .. Len(raw)
      /\ UNCHANGED <<raw, past, chain, balance>>
  <2>1. /\ phase = "parse" /\ pos <= Len(raw)
        /\ UNCHANGED <<raw, past, chain, balance>>
    BY DEF ParseTx, node, store
  <2>2. Len(raw) \in Nat /\ pos \in 1 .. Len(raw) + 1
    BY <2>1 DEF AccountingInv, ParserInv, TypeOK, ParseOK
  <2> QED
    BY <2>1, <2>2
<1>2. PICK n \in Nat : n = pos - 1 /\ n + 1 = pos
  BY <1>1
<1>3. raw[pos].inputs \subseteq DOMAIN coinMap
  BY <1>1, InputsKnown DEF AccountingInv
<1>4. PICK tx \in [hash : Txs, inputs : SUBSET Coins] : tx = raw[pos]
  BY <1>1, RawType DEF AccountingInv, ParserInv
<1>5. PICK b \in BOOLEAN : b = ~skipTransactionOperations(tx.hash)
  BY DEF skipTransactionOperations
<1>6. PICK ts : ts = Marked(TxOperations(tx), b)
  OBVIOUS
<1>7. ops' = ops \cup ts /\ pos' = pos + 1
  BY <1>3, <1>4, <1>5, <1>6 DEF ParseTx, Marked
<1>8. /\ OperationsOK(ops) /\ ops \subseteq Operations
      /\ Created(ops) = NewCoins(n) /\ Spent(ops) = SpentCoins(n)
      /\ \A c \in DOMAIN coinMap : coinMap[c] = CoinOf(c)
  BY <1>1, <1>2 DEF AccountingInv, ParserInv, ParseOK, TypeOK
<1>9. Once(ops) /\ Burnt(ops) = NewBurns(n)
  BY <1>1, <1>2 DEF AccountingInv, OnceOK
<1>10. \A c \in tx.inputs : coinMap[c] = CoinOf(c)
  BY <1>3, <1>4, <1>8
<1>11. TxOperations(tx) \subseteq Operations
  BY <1>10, TxOperationsOK
<1>12. /\ Once(ts)
       /\ \A o \in ts : /\ o.success => b = TRUE
                        /\ o.change = "spent" => o.coin \in tx.inputs
                        /\ o.change # "spent" => o.coin \in Outputs(tx.hash)
       /\ b = TRUE => Burnt(ts) = Outputs(tx.hash) \cap NullData
       /\ b = FALSE => Burnt(ts) = {}
  BY <1>6, <1>10, <1>11, TxOnce
<1>13. \A j \in 1 .. n : raw[j].hash # tx.hash /\ raw[j].inputs \cap tx.inputs = {}
  BY <1>1, <1>2, <1>4 DEF AccountingInv, FreshOK
<1>14. ASSUME NEW o \in ops, NEW x \in ts, o.success, x.success, o.change = x.change,
              o.coin = x.coin
       PROVE  FALSE
  <2>1. o.change \in {"created", "spent", "none"}
    BY <1>8 DEF Operations
  <2>2. CASE o.change = "spent"
    <3>1. o.coin \in SpentCoins(n)
      BY <1>8, <1>14, <2>2 DEF Spent, CoinsOf, Changes
    <3>2. PICK j \in 1 .. n : o.coin \in raw[j].inputs
      BY <3>1 DEF SpentCoins
    <3> QED
      BY <1>12, <1>13, <1>14, <2>2, <3>2
  <2>3. CASE o.change = "created"
    <3>1. o.coin \in NewCoins(n)
      BY <1>8, <1>14, <2>3 DEF Created, CoinsOf, Changes
    <3>2. PICK j \in 1 .. n : TxOf[o.coin] = raw[j].hash
      BY <3>1 DEF NewCoins
    <3>3. o.coin \in Outputs(tx.hash)
      BY <1>12, <1>14, <2>3
    <3> QED
      BY <1>13, <3>2, <3>3 DEF Outputs
  <2>4. CASE o.change = "none"
    <3>1. o.coin \in NewBurns(n)
      BY <1>9, <1>14, <2>4 DEF Burnt, CoinsOf, Changes
    <3>2. PICK j \in 1 .. n : TxOf[o.coin] = raw[j].hash
      BY <3>1 DEF NewBurns
    <3>3. o.coin \in Outputs(tx.hash)
      BY <1>12, <1>14, <2>4
    <3> QED
      BY <1>13, <3>2, <3>3 DEF Outputs
  <2> QED
    BY <2>1, <2>2, <2>3, <2>4
<1>15. Once(ops \cup ts)
  BY <1>9, <1>12, <1>14 DEF Once
<1>16. Burnt(ops \cup ts) = Burnt(ops) \cup Burnt(ts)
  BY DEF Burnt, CoinsOf, Changes
<1>17. Burnt(ops \cup ts) = NewBurns(pos)
  <2>1. NewBurns(pos) = NewBurns(n) \cup
            IF skipTransactionOperations(tx.hash) THEN {} ELSE Outputs(tx.hash) \cap NullData
    BY <1>2, <1>4, OneMoreBurns
  <2>2. CASE b = TRUE
    <3>1. ~skipTransactionOperations(tx.hash)
      BY <1>5, <2>2, Zenon
    <3> QED
      BY <1>9, <1>12, <1>16, <2>1, <2>2, <3>1
  <2>3. CASE b = FALSE
    <3>1. skipTransactionOperations(tx.hash)
      BY <1>5, <2>3, Zenon
    <3> QED
      BY <1>9, <1>12, <1>16, <2>1, <2>3, <3>1
  <2> QED
    BY <2>2, <2>3
<1>18. NewBurns(pos - 1)' = NewBurns(pos)
  <2>1. pos' - 1 = pos /\ raw' = raw /\ Height' = Height
    BY <1>1, <1>2, <1>7 DEF Height
  <2> QED
    BY <2>1 DEF NewBurns, skipTransactionOperations
<1>19. Once(ops)' /\ Burnt(ops)' = NewBurns(pos)
  BY <1>7, <1>15, <1>17 DEF Once, Burnt, CoinsOf, Changes
<1>20. OnceOK'
  BY <1>18, <1>19 DEF OnceOK
<1>21. ParserInv'
  BY ParseTxInv DEF AccountingInv
<1> QED
  BY <1>1, <1>20, <1>21, AccountsFrame DEF AccountingInv

(* A transaction that is mined is new to the chain or skipped, and what it spends *)
(* was not spent in the block.                                                    *)
LEMMA MineTxAccounts ==
    ASSUME AccountingInv, NEW t \in Txs, NEW ins \in SUBSET unspent, MineTx(t, ins)
    PROVE  AccountingInv'
<1>1. PICK n \in Nat : n = Len(raw)
  BY DEF AccountingInv, ParserInv, TypeOK
<1>2. /\ phase' = "mine" /\ ValidHash(t) /\ (t \in Coinbases <=> raw = <<>>)
      /\ raw' = Append(raw, [hash |-> t, inputs |-> ins])
      /\ UNCHANGED <<past, chain, balance>>
  BY DEF MineTx, client, store
<1>3. ins \subseteq Coins
  BY DEF AccountingInv, ParserInv, TypeOK
<1>4. /\ Len(raw') = n + 1 /\ \A i \in 1 .. n : raw'[i] = raw[i]
      /\ raw'[n + 1].hash = t /\ raw'[n + 1].inputs = ins
  BY <1>1, <1>2, <1>3 DEF AccountingInv, ParserInv, TypeOK
<1>5. /\ mined = Mined(Height) \cup {raw[i].hash : i \in 1 .. n}
      /\ unspent = (Unspent(Height) \cup NewCoins(n)) \ SpentCoins(n)
  BY <1>1 DEF AccountingInv, ParserInv, BlockOK
<1>6. Mined(Height)' = Mined(Height) /\ Height' = Height
  BY <1>2 DEF Mined, Height
<1>7. skipTransactionOperations(t) <=> t \in Mined(Height)
  <2>1. CASE skipTransactionOperations(t)
    <3>1. t \in mined /\ t \in Coinbases
      BY <1>2, <2>1, ParserConstants DEF ValidHash, skipTransactionOperations
    <3>2. n = 0
      BY <1>1, <1>2, <3>1
    <3> QED
      BY <1>5, <2>1, <3>1, <3>2
  <2>2. CASE ~skipTransactionOperations(t)
    BY <1>2, <1>5, <2>2 DEF ValidHash, skipTransactionOperations
  <2> QED
    BY <2>1, <2>2
<1>8. ASSUME NEW j \in 1 .. n PROVE raw[j].hash # t /\ raw[j].inputs \cap ins = {}
  <2>1. ~skipTransactionOperations(t)
    BY <1>1, <1>2, ParserConstants DEF skipTransactionOperations
  <2>2. t \notin mined
    BY <1>2, <2>1 DEF ValidHash, skipTransactionOperations
  <2>3. raw[j].inputs \subseteq SpentCoins(n)
    BY DEF SpentCoins
  <2> QED
    BY <1>5, <2>2, <2>3
<1>9. ASSUME NEW i \in 1 .. n + 1
      PROVE  /\ (skipTransactionOperations(raw[i].hash) <=> raw[i].hash \in Mined(Height))'
             /\ \A j \in 1 .. i - 1 : /\ raw'[j].hash # raw'[i].hash
                                      /\ raw'[j].inputs \cap raw'[i].inputs = {}
  <2>1. CASE i \in 1 .. n
    <3>1. raw'[i] = raw[i] /\ \A j \in 1 .. i - 1 : raw'[j] = raw[j]
      BY <1>4, <2>1
    <3>2. /\ skipTransactionOperations(raw[i].hash) <=> raw[i].hash \in Mined(Height)
          /\ \A j \in 1 .. i - 1 : /\ raw[j].hash # raw[i].hash
                                   /\ raw[j].inputs \cap raw[i].inputs = {}
      BY <1>1, <2>1 DEF AccountingInv, FreshOK
    <3>3. skipTransactionOperations(raw[i].hash)' <=> skipTransactionOperations(raw[i].hash)
      BY <1>6, <3>1 DEF skipTransactionOperations
    <3> QED
      BY <1>6, <3>1, <3>2, <3>3
  <2>2. CASE i = n + 1
    <3>1. i - 1 = n
      BY <2>2
    <3>2. skipTransactionOperations(raw[i].hash)' <=> skipTransactionOperations(t)
      BY <1>4, <1>6, <2>2 DEF skipTransactionOperations
    <3> QED
      BY <1>4, <1>6, <1>7, <1>8, <2>2, <3>1, <3>2
  <2> QED
    BY <2>1, <2>2
<1>10. FreshOK'
  BY <1>4, <1>9 DEF FreshOK
<1>11. OnceOK'
  BY <1>2 DEF OnceOK
<1>12. ParserInv'
  BY MineTxInv DEF AccountingInv
<1> QED
  BY <1>2, <1>10, <1>11, <1>12, StoredFrame DEF AccountingInv

(* The first n transactions that are not skipped have not been mined before, and  *)
(* the others have.                                                               *)
LEMMA BlockBurns ==
    ASSUME AccountingInv
    PROVE  /\ NewBurns(Len(raw)) \cap Burns(Height) = {}
           /\ {c \in NullData : TxOf[c] \in mined} = Burns(Height) \cup NewBurns(Len(raw))
<1>1. mined = Mined(Height) \cup {raw[i].hash : i \in 1 .. Len(raw)}
  BY DEF AccountingInv, ParserInv, BlockOK
<1>2. \A i \in 1 .. Len(raw) :
          skipTransactionOperations(raw[i].hash) <=> raw[i].hash \in Mined(Height)
  BY DEF AccountingInv, FreshOK
<1> QED
  BY <1>1, <1>2 DEF NewBurns, Burns

(* Storage applies the operations of the block: balances change by what the block *)
(* is worth.                                                                      *)
LEMMA AddBlockAccounts == ASSUME AccountingInv, AddBlock PROVE AccountingInv'
<1>1. PICK h \in Nat : h = Height /\ h = Len(chain) /\ h = Len(past)
  BY DEF AccountingInv, ParserInv, TypeOK, HistoryOK, Height
<1>2. /\ phase = "add" /\ phase' = "mine" /\ raw' = <<>>
      /\ balance' = [a \in Accounts |-> balance[a] + Delta(ops, a)]
      /\ chain' = Append(chain, ops)
      /\ past' = Append(past, [unspent |-> unspent, mined |-> mined])
  BY DEF AddBlock
<1>3. ParserInv'
  BY AddBlockInv DEF AccountingInv
<1>4. /\ Len(chain') = h + 1 /\ Height' = h + 1 /\ chain'[h + 1] = ops
      /\ past'[h + 1].unspent = unspent /\ past'[h + 1].mined = mined
      /\ \A i \in 1 .. h : chain'[i] = chain[i] /\ past'[i] = past[i]
  <2>1. /\ chain \in Seq(SUBSET Operations) /\ ops \in SUBSET Operations
        /\ past \in Seq([unspent : SUBSET Coins, mined : SUBSET Txs])
        /\ unspent \subseteq Coins /\ mined \subseteq Txs
    BY DEF AccountingInv, ParserInv, TypeOK
  <2>2. PICK r \in [unspent : SUBSET Coins, mined : SUBSET Txs] :
            r = [unspent |-> unspent, mined |-> mined]
    BY <2>1
  <2>3. past' = Append(past, r)
    BY <1>2, <2>2
  <2>4. past'[h + 1] = r /\ \A i \in 1 .. h : past'[i] = past[i]
    BY <1>1, <2>1, <2>3, Grown
  <2>5. past'[h + 1].unspent = unspent /\ past'[h + 1].mined = mined
    BY <2>2, <2>4
  <2>6. PICK S : chain \in Seq(S) /\ ops \in S
    BY <2>1
  <2>7. /\ Len(chain') = h + 1 /\ chain'[h + 1] = ops
        /\ \A i \in 1 .. h : chain'[i] = chain[i]
    <3>1. chain' = Append(chain, ops) /\ Len(chain) = h
      BY <1>1, <1>2
    <3> QED
      BY <2>6, <3>1, Grown
  <2> QED
    BY <2>4, <2>5, <2>7 DEF Height
<1>5. /\ Unspent(h + 1)' = unspent /\ Mined(h + 1)' = mined
      /\ Burns(h + 1)' = {c \in NullData : TxOf[c] \in mined}
  BY <1>4 DEF Unspent, Mined, Burns
<1>6. h # 0 => past'[h] = past[h]
  BY <1>4
<1>7. /\ Unspent(h)' = Unspent(h) /\ Burns(h)' = Burns(h)
  BY <1>6, WorthFrame
<1>8. pos - 1 = Len(raw)
  <2>1. pos = Len(raw) + 1 /\ Len(raw) \in Nat
    BY <1>2 DEF AccountingInv, ParserInv, ParseOK, TypeOK
  <2> QED
    BY <2>1
<1>9. Once(ops) /\ Burnt(ops) = NewBurns(Len(raw))
  BY <1>2, <1>8 DEF AccountingInv, OnceOK
<1>10. /\ Burnt(ops) \cap Burns(h) = {}
       /\ Burns(h + 1)' = Burns(h) \cup Burnt(ops)
  BY <1>1, <1>5, <1>9, BlockBurns
<1>11. TallyOK(h + 1)'
  <2>1. Once(chain[h + 1])' /\ Burnt(chain[h + 1])' = Burnt(ops)
    BY <1>4, <1>9 DEF Once, Burnt, CoinsOf, Changes
  <2>2. (h + 1) - 1 = h
    OBVIOUS
  <2>3. Burns((h + 1) - 1)' = Burns(h)
    BY <1>7, <2>2
  <2> QED
    BY <1>10, <2>1, <2>3 DEF TallyOK
<1>12. \A i \in 1 .. h : TallyOK(i)'
  <2> SUFFICES ASSUME NEW i \in 1 .. h PROVE TallyOK(i)'
    OBVIOUS
  <2>1. TallyOK(i) /\ i \in Nat \ {0}
    BY <1>1 DEF AccountingInv
  <2>2. \A j \in 1 .. i : chain'[j] = chain[j] /\ past'[j] = past[j]
    BY <1>4
  <2> QED
    BY <2>1, <2>2, TallyFrame
<1>13. (\A i \in 1 .. Len(chain) : TallyOK(i))'
  <2>1. \A i \in 1 .. h + 1 : i \in 1 .. h \/ i = h + 1
    OBVIOUS
  <2> QED
    BY <1>4, <1>11, <1>12, <2>1
<1>14. Moves(ops, Unspent(h), Burns(h), unspent, Burns(h) \cup Burnt(ops))
  <2>1. /\ Created(ops) = NewCoins(Len(raw)) /\ Spent(ops) = SpentCoins(Len(raw))
    BY <1>2, <1>8 DEF AccountingInv, ParserInv, ParseOK
  <2>2. /\ unspent = (Unspent(h) \cup Created(ops)) \ Spent(ops)
        /\ Created(ops) \cap Unspent(h) = {}
    BY <1>1, <2>1 DEF AccountingInv, ParserInv, BlockOK
  <2>3. Spent(ops) \subseteq Unspent(h) \cup Created(ops)
    <3>1. LinkOK(h + 1)'
      BY <1>3, <1>4 DEF ParserInv, HistoryOK
    <3>2. (h + 1) - 1 = h /\ Created(chain[h + 1])' = Created(ops)
          /\ Spent(chain[h + 1])' = Spent(ops)
      BY <1>4 DEF Created, Spent, CoinsOf, Changes
    <3>3. Spent(chain[h + 1])' \subseteq Unspent((h + 1) - 1)' \cup Created(chain[h + 1])'
      BY <3>1 DEF LinkOK
    <3> QED
      BY <1>7, <3>2, <3>3
  <2>4. Unspent(h) \subseteq Coins /\ Burns(h) \subseteq Coins
    BY <1>1, ParserConstants DEF AccountingInv, ParserInv, StorageOK, TypeOK, Burns
  <2> QED
    BY <1>10, <2>2, <2>3, <2>4 DEF Moves
<1>15. ASSUME NEW a \in Accounts PROVE balance'[a] = Worth(h + 1, a)'
  <2>1. /\ ops \subseteq Operations /\ OperationsOK(ops)
    BY <1>2 DEF AccountingInv, ParserInv, TypeOK, ParseOK
  <2>2. Held(unspent, a) + Held(Burns(h) \cup Burnt(ops), a) =
            (Held(Unspent(h), a) + Held(Burns(h), a)) + Delta(ops, a)
    BY <1>9, <1>14, <2>1, WorthStep
  <2>3. Worth(h + 1, a)' = Held(unspent, a) + Held(Burns(h) \cup Burnt(ops), a)
    BY <1>5, <1>10 DEF Worth, Held, Total, Account
  <2>4. balance[a] = Worth(h, a)
    BY <1>1 DEF AccountingInv, BalanceOK
  <2> QED
    BY <1>2, <2>2, <2>3, <2>4 DEF Worth
<1>16. BalanceOK'
  <2>1. balance' = [a \in Accounts |-> Worth(h + 1, a)']
    BY <1>2, <1>15
  <2> QED
    BY <1>4, <2>1 DEF BalanceOK
<1>17. FreshOK' /\ OnceOK'
  BY <1>2 DEF FreshOK, OnceOK
<1> QED
  BY <1>3, <1>13, <1>16, <1>17 DEF AccountingInv

(* Storage takes the last block back: balances change back by what it is worth.   *)
LEMMA RemoveBlockAccounts == ASSUME AccountingInv, RemoveBlock PROVE AccountingInv'
<1>1. PICK h \in Nat : h + 1 = Height /\ h + 1 = Len(chain) /\ h + 1 = Len(past)
  <2>1. Len(chain) \in Nat /\ Len(chain) # 0 /\ Len(past) = Len(chain)
    BY DEF AccountingInv, ParserInv, TypeOK, HistoryOK, RemoveBlock
  <2>2. Len(chain) - 1 \in Nat /\ (Len(chain) - 1) + 1 = Len(chain)
    BY <2>1
  <2> QED
    BY <2>1, <2>2 DEF Height
<1>2. /\ phase' = "mine" /\ raw' = <<>>
      /\ balance' = [a \in Accounts |-> balance[a] - Delta(chain[h + 1], a)]
      /\ chain' = SubSeq(chain, 1, h) /\ past' = SubSeq(past, 1, h)
  BY <1>1 DEF RemoveBlock, NodeRemovesBlock
<1>3. ParserInv'
  BY RemoveBlockInv DEF AccountingInv
<1>4. /\ chain \in Seq(SUBSET Operations)
      /\ past \in Seq([unspent : SUBSET Coins, mined : SUBSET Txs])
  BY DEF AccountingInv, ParserInv, TypeOK
<1>5. /\ Len(chain') = h /\ Height' = h
      /\ \A i \in 1 .. h : chain'[i] = chain[i] /\ past'[i] = past[i]
  <2>1. Len(chain') = h /\ \A i \in 1 .. h : chain'[i] = chain[i]
    BY <1>1, <1>2, <1>4, Shrunk
  <2>2. \A i \in 1 .. h : past'[i] = past[i]
    <3>1. PICK S : past \in Seq(S) /\ Len(past) = h + 1 /\ past' = SubSeq(past, 1, h)
      BY <1>1, <1>2, <1>4
    <3> QED
      BY <3>1, Shrunk
  <2> QED
    BY <2>1, <2>2 DEF Height
<1>6. \A i \in 1 .. h : TallyOK(i)'
  <2> SUFFICES ASSUME NEW i \in 1 .. h PROVE TallyOK(i)'
    OBVIOUS
  <2>1. TallyOK(i) /\ i \in Nat \ {0}
    BY <1>1 DEF AccountingInv
  <2>2. \A j \in 1 .. i : chain'[j] = chain[j] /\ past'[j] = past[j]
    BY <1>5
  <2> QED
    BY <2>1, <2>2, TallyFrame
<1>7. PICK block : block = chain[h + 1]
  OBVIOUS
<1>8. block \subseteq Operations /\ LinkOK(h + 1) /\ TallyOK(h + 1)
  <2>1. h + 1 \in 1 .. Len(chain)
    BY <1>1
  <2>2. chain[h + 1] \in SUBSET Operations
    BY <1>4, <2>1, Element
  <2> QED
    BY <1>7, <2>1, <2>2 DEF AccountingInv, ParserInv, HistoryOK
<1>9. OperationsOK(block) /\ Once(block)
  BY <1>7, <1>8 DEF LinkOK, TallyOK
<1>10. Moves(block, Unspent(h), Burns(h), Unspent(h + 1), Burns(h + 1))
  <2>1. (h + 1) - 1 = h
    OBVIOUS
  <2>2. /\ Created(block) \cap Unspent(h) = {}
        /\ Spent(block) \subseteq Unspent(h) \cup Created(block)
        /\ Unspent(h + 1) = (Unspent(h) \cup Created(block)) \ Spent(block)
    BY <1>7, <1>8, <2>1 DEF LinkOK
  <2>3. Burnt(block) \cap Burns(h) = {} /\ Burns(h + 1) = Burns(h) \cup Burnt(block)
    BY <1>7, <1>8, <2>1 DEF TallyOK
  <2>4. Unspent(h) \subseteq Coins
    <3>1. CASE h = 0
      BY <3>1 DEF Unspent
    <3>2. CASE h # 0
      <4>1. h \in 1 .. Len(past)
        BY <1>1, <3>2
      <4>2. past[h] \in [unspent : SUBSET Coins, mined : SUBSET Txs]
        BY <1>4, <4>1, Element
      <4> QED
        BY <3>2, <4>2 DEF Unspent
    <3> QED
      BY <3>1, <3>2
  <2>5. Burns(h) \subseteq Coins
    BY ParserConstants DEF Burns
  <2> QED
    BY <2>2, <2>3, <2>4, <2>5 DEF Moves
<1>11. ASSUME NEW a \in Accounts PROVE balance'[a] = Worth(h, a)'
  <2>1. /\ Held(Unspent(h), a) + Held(Burns(h), a) \in Int /\ Delta(block, a) \in Int
        /\ Held(Unspent(h + 1), a) + Held(Burns(h + 1), a) =
              (Held(Unspent(h), a) + Held(Burns(h), a)) + Delta(block, a)
    BY <1>8, <1>9, <1>10, WorthStep
  <2>2. /\ Worth(h, a) \in Int /\ Delta(block, a) \in Int
        /\ Worth(h + 1, a) = Worth(h, a) + Delta(block, a)
    BY <2>1 DEF Worth
  <2>3. balance[a] = Worth(h + 1, a)
    BY <1>1 DEF AccountingInv, BalanceOK
  <2>4. balance'[a] = balance[a] - Delta(block, a)
    BY <1>2, <1>7
  <2>5. h # 0 => past'[h] = past[h]
    BY <1>5
  <2>6. Worth(h, a)' = Worth(h, a)
    BY <2>5, WorthFrame
  <2> QED
    BY <2>2, <2>3, <2>4, <2>6
<1>12. BalanceOK'
  <2>1. balance' = [a \in Accounts |-> Worth(h, a)']
    BY <1>2, <1>11
  <2> QED
    BY <1>5, <2>1 DEF BalanceOK
<1>13. FreshOK' /\ OnceOK'
  BY <1>2 DEF FreshOK, OnceOK
<1> QED
  BY <1>3, <1>5, <1>6, <1>12, <1>13 DEF AccountingInv

(* Every account is worth nothing.                                                *)
LEMMA InitAccounts == ASSUME Init PROVE AccountingInv
<1>1. ParserInv
  BY ParserInitInv
<1>2. /\ phase = "mine" /\ raw = <<>> /\ chain = <<>>
      /\ balance = [a \in Accounts |-> 0]
  BY DEF Init
<1>3. FreshOK /\ OnceOK /\ \A i \in 1 .. Len(chain) : TallyOK(i)
  BY <1>2 DEF FreshOK, OnceOK
<1>4. Height = 0 /\ Unspent(Height) = {} /\ Burns(Height) = {}
  BY <1>2 DEF Height, Unspent, Burns, Mined
<1>5. \A a : Held({}, a) = 0
  <2>1. Total({}) = 0
    BY SumOfNone DEF Total
  <2> QED
    BY <2>1 DEF Held
<1>6. \A a \in Accounts : Worth(Height, a) = 0
  BY <1>4, <1>5 DEF Worth
<1>7. BalanceOK
  BY <1>2, <1>6 DEF BalanceOK
<1> QED
  BY <1>1, <1>3, <1>7 DEF AccountingInv

(* Every step preserves the invariant.                                            *)
LEMMA NextAccounts == ASSUME AccountingInv, [Next]_vars PROVE AccountingInv'
<1>1. ASSUME NEW t \in Txs, NEW ins \in SUBSET unspent, MineTx(t, ins)
      PROVE  AccountingInv'
  BY <1>1, MineTxAccounts
<1>2. ASSUME ParseDone PROVE AccountingInv'
  <2>1. /\ UNCHANGED <<raw, past, chain, balance, pos, ops>>
        /\ phase = "parse" /\ phase' = "add"
    BY <1>2 DEF ParseDone, node, store, client
  <2>2. ParserInv'
    BY <1>2, ParseDoneInv DEF AccountingInv
  <2> QED
    BY <2>1, <2>2, ParsedAccounts
<1>3. CASE Next
  BY <1>1, <1>2, <1>3, ScanAccounts, FindCoinsAccounts, ParseTxAccounts,
     AddBlockAccounts, RemoveBlockAccounts DEF Next
<1>4. CASE UNCHANGED vars
  <2>1. UNCHANGED <<phase, raw, past, chain, balance, pos, ops>>
    BY <1>4 DEF vars, node, store, client
  <2>2. ParserInv'
    BY <1>4, ParserStutterInv DEF AccountingInv
  <2> QED
    BY <2>1, <2>2, ParsedAccounts
<1> QED
  BY <1>3, <1>4

(* The balances are always what the coins of the history are worth.               *)
THEOREM AccountingInvariance == Spec => []AccountingInv
BY InitAccounts, NextAccounts, PTL DEF Spec

(* Between blocks the balance of every account is the sum of its coins in coin    *)
(* storage and of what it burnt, whatever blocks have been added and removed.     *)
THEOREM BalancesAddUp == Spec => []BalancesAreCoins
<1>1. ASSUME AccountingInv, InStep, NEW a \in Accounts
      PROVE  balance[a] =
                 SumFunctionOnSet([c \in DOMAIN storage |-> storage[c].value],
                                  {c \in DOMAIN storage : storage[c].account = a})
                 + Total({c \in NullData : TxOf[c] \in mined /\ Account(c) = a})
  <2> DEFINE f == [c \in DOMAIN storage |-> storage[c].value]
             cs == {c \in DOMAIN storage : storage[c].account = a}
  <2>1. DOMAIN storage = Unspent(Height) /\ DOMAIN storage \subseteq Coins
    BY <1>1 DEF AccountingInv, ParserInv, StorageOK, TypeOK
  <2>2. \A c \in DOMAIN storage : storage[c].account = Account(c) /\ storage[c].value = Value[c]
    BY <1>1 DEF AccountingInv, ParserInv, StorageOK, CoinOf
  <2>3. cs = {c \in Unspent(Height) : Account(c) = a}
    BY <2>1, <2>2
  <2>4. \A c \in cs : f[c] = Value[c]
    BY <2>2
  <2>5. IsFiniteSet(cs)
    BY <2>1, ParserConstants, FS_Subset
  <2>6. mined = Mined(Height)
    <3>1. Len(raw) = 0
      BY <1>1 DEF InStep
    <3> QED
      BY <1>1, <3>1 DEF AccountingInv, ParserInv, BlockOK
  <2>7. {c \in NullData : TxOf[c] \in mined /\ Account(c) = a} = {c \in Burns(Height) : Account(c) = a}
    BY <2>6 DEF Burns
  <2>8. balance[a] = Total({c \in Unspent(Height) : Account(c) = a})
                     + Total({c \in Burns(Height) : Account(c) = a})
    BY <1>1 DEF AccountingInv, BalanceOK, Worth, Held
  <2> HIDE DEF f, cs
  <2>9. SumFunctionOnSet(f, cs) = SumFunctionOnSet(Value, cs)
    BY <2>4, <2>5, SumAgree
  <2>10. Total({c \in Unspent(Height) : Account(c) = a}) = SumFunctionOnSet(f, cs)
    BY <2>3, <2>9 DEF Total
  <2> QED
    BY <2>7, <2>8, <2>10 DEF f, cs
<1>2. AccountingInv => BalancesAreCoins
  BY <1>1 DEF BalancesAreCoins
<1> QED
  BY <1>2, AccountingInvariance, PTL
================================================================================
