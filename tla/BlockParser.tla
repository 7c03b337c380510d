------------------------------- MODULE BlockParser -------------------------------
(* From a raw block to coins and balances.  Client.GetRawBlock lists the coins    *)
(* that have to be found before a block can be parsed, Client.ParseBlock turns    *)
(* the block into operations with the help of the coins found, and storage        *)
(* applies the operations of the block.  The node mines any valid blocks and may  *)
(* take the last one back.                                                        *)
(*                                                                                *)
(* An output of a transaction is a coin; its value and script are constants.  The *)
(* inputs of a transaction are in an arbitrary order.  Metadata other than the    *)
(* script, for which the coin itself stands, is left out.                         *)
EXTENDS Integers, SequencesExt

CONSTANTS
    Txs,        \* the transactions
    Coinbases,  \* those that are coinbase transactions
    Coins,      \* their outputs
    TxOf,       \* TxOf[c]: the transaction whose output c is
    Vout,       \* Vout[c]: its position among the outputs of the transaction
    Value,      \* Value[c]: its value
    NullData,   \* the outputs with an OP_RETURN script
    Addresses,  \* Addresses[c]: the addresses in its script
    Hex,        \* Hex[c]: the script itself, Blank if it is empty
    Accounts,   \* the account addresses
    Blank,      \* the empty address
    SkipAt,     \* <<height, tx>> for the transactions of skipTransactionOperations
    MaxBlocks,  \* bound: length of the chain
    MaxTxs      \* bound: transactions in a block

ASSUME ParserConstants ==
    /\ Coinbases \subseteq Txs
    /\ IsFiniteSet(Coins)
    /\ TxOf \in [Coins -> Txs]
    /\ Vout \in [Coins -> Nat]
    /\ \A c, d \in Coins : TxOf[c] = TxOf[d] /\ Vout[c] = Vout[d] => c = d
    /\ Value \in [Coins -> Nat]
    /\ NullData \subseteq Coins
    /\ Addresses \in [Coins -> SUBSET Accounts]
    /\ Hex \in [Coins -> Accounts \cup {Blank}]
    /\ Blank \notin Accounts
    /\ Coins \subseteq Accounts
    /\ SkipAt \subseteq Nat \X Coinbases
    /\ MaxBlocks \in Nat /\ MaxTxs \in Nat

Outputs(t) == {c \in Coins : TxOf[c] = t}
Total(cs) == SumFunctionOnSet(Value, cs)

VARIABLES
    phase,     \* "mine", "scan", "find", "parse", "add" or "error"
    raw,       \* the block: a sequence of [hash, inputs]
    unspent,   \* the node's unspent coins, after the block
    mined,     \* the transactions on the node's chain
    past,      \* past[i]: both of them after block i
    pos,       \* the transaction the loop of the client is at
    hashes,    \* blockTxHashes
    coinList,  \* the coins GetRawBlock returns
    coinMap,   \* the coins ParseBlock knows, with account and value
    ops,       \* the operations parsed so far
    chain,     \* block storage: the operations of every block
    storage,   \* coin storage: coins with account and value
    balance    \* balance storage

node == <<raw, unspent, mined, past>>
client == <<pos, hashes, coinList, coinMap, ops>>
store == <<chain, storage, balance>>
vars == <<phase, node, client, store>>

AccountCoins == [account : Accounts, value : Int]
Operations == [tx : Txs, type : {"INPUT", "OUTPUT"}, index : Nat, networkIndex : Nat,
               coin : Coins, change : {"created", "spent", "none"}, account : Accounts,
               amount : Int, success : BOOLEAN]
NoCoins == [c \in {} |-> 0]

(* Balances are sums: BalanceOK tells more of them than a type.                   *)
TypeOK ==
    /\ phase \in {"mine", "scan", "find", "parse", "add", "error"}
    /\ raw \in Seq([hash : Txs, inputs : SUBSET Coins])
    /\ unspent \subseteq Coins /\ mined \subseteq Txs
    /\ past \in Seq([unspent : SUBSET Coins, mined : SUBSET Txs])
    /\ pos \in Nat
    /\ hashes \subseteq Txs /\ coinList \subseteq Coins
    /\ DOMAIN coinMap \subseteq Coins /\ coinMap \in [DOMAIN coinMap -> AccountCoins]
    /\ ops \subseteq Operations
    /\ chain \in Seq(SUBSET Operations)
    /\ DOMAIN storage \subseteq Coins /\ storage \in [DOMAIN storage -> AccountCoins]

Height == Len(chain)

Init ==
    /\ phase = "mine"
    /\ raw = <<>> /\ unspent = {} /\ mined = {} /\ past = <<>>
    /\ pos = 1 /\ hashes = {} /\ coinList = {}
    /\ coinMap = NoCoins /\ ops = {}
    /\ chain = <<>> /\ storage = NoCoins
    /\ balance = [a \in Accounts |-> 0]

--------------------------------------------------------------------------------
(* The node                                                                       *)

(* The inputs of t are unspent coins that cover its outputs.  Coinbase outputs    *)
(* cannot be spent in their own block.                                            *)
ValidInputs(t, ins) ==
    /\ ins # {}
    /\ ins \subseteq unspent
    /\ \A c \in ins : \A i \in 1 .. Len(raw) :
           TxOf[c] = raw[i].hash => TxOf[c] \notin Coinbases
    /\ Total(Outputs(t)) <= Total(ins)

(* A transaction is mined once.  Before BIP-30 two coinbase transactions were     *)
(* mined twice, while the outputs of the first were unspent.                      *)
ValidHash(t) ==
    IF <<Height, t>> \in SkipAt
    THEN t \in mined /\ Outputs(t) \subseteq unspent
    ELSE t \notin mined

(* Put the next transaction into the block; the first is a coinbase.              *)
MineTx(t, ins) ==
    /\ phase = "mine"
    /\ Height < MaxBlocks /\ Len(raw) < MaxTxs
    /\ ValidHash(t)
    /\ t \in Coinbases <=> raw = <<>>
    /\ IF t \in Coinbases THEN ins = {} ELSE ValidInputs(t, ins)
    /\ raw' = Append(raw, [hash |-> t, inputs |-> ins])
    /\ unspent' = (unspent \ ins) \cup (Outputs(t) \ NullData)
    /\ mined' = mined \cup {t}
    /\ UNCHANGED <<phase, past, client, store>>

(* The node goes back to the chain without its last block.                        *)
NodeRemovesBlock ==
    LET before == IF Height = 1 THEN [unspent |-> {}, mined |-> {}]
                  ELSE past[Height - 1]
    IN /\ unspent' = before.unspent
       /\ mined' = before.mined
       /\ past' = SubSeq(past, 1, Height - 1)

--------------------------------------------------------------------------------
(* Client.GetRawBlock                                                             *)

(* The block is served.                                                           *)
GetBlock ==
    /\ phase = "mine" /\ raw # <<>>
    /\ phase' = "scan"
    /\ pos' = 1 /\ hashes' = {} /\ coinList' = {}
    /\ UNCHANGED <<node, coinMap, ops, store>>

(* Mutant: only the hash of the last transaction is remembered.                   *)
ScanTxForgets ==
    /\ phase = "scan" /\ pos <= Len(raw)
    /\ LET tx == raw[pos] IN
       /\ hashes' = {tx.hash}
       /\ coinList' = coinList \cup {c \in tx.inputs : TxOf[c] \notin hashes'}
    /\ pos' = pos + 1
    /\ UNCHANGED <<phase, node, coinMap, ops, store>>

(* The loop body: the inputs of a transaction whose transaction is not in the     *)
(* block so far.  A coinbase input names no coin.                                 *)
ScanTx ==
    /\ phase = "scan" /\ pos <= Len(raw)
    /\ LET tx == raw[pos] IN
       /\ hashes' = hashes \cup {tx.hash}
       /\ coinList' = coinList \cup {c \in tx.inputs : TxOf[c] \notin hashes'}
    /\ pos' = pos + 1
    /\ UNCHANGED <<phase, node, coinMap, ops, store>>

ScanDone ==
    /\ phase = "scan" /\ pos > Len(raw)
    /\ phase' = "find"
    /\ UNCHANGED <<node, client, store>>

(* Indexer.findCoins brings the coins of the list as earlier blocks have left     *)
(* them.  It waits for a coin that no earlier block has created (module Indexer). *)
FindCoins ==
    /\ phase = "find"
    /\ coinList \subseteq DOMAIN storage
    /\ coinMap' = [c \in coinList |-> storage[c]]
    /\ phase' = "parse"
    /\ pos' = 1 /\ ops' = {}
    /\ UNCHANGED <<node, hashes, coinList, store>>

--------------------------------------------------------------------------------
(* Client.ParseBlock                                                              *)

(* Mutant: an empty script gives an empty address.                                *)
AccountKeepsBlank(c) ==
    IF \E a \in Accounts : Addresses[c] = {a}
    THEN CHOOSE a \in Accounts : Addresses[c] = {a}
    ELSE Hex[c]

(* parseOutputAccount, and what becomes of an empty address                       *)
Account(c) ==
    IF \E a \in Accounts : Addresses[c] = {a}
    THEN CHOOSE a \in Accounts : Addresses[c] = {a}
    ELSE IF Hex[c] # Blank THEN Hex[c] ELSE c

(* parseInputTransactionOperation, for the input with number n                    *)
InputOp(t, c, n) ==
    [tx |-> t, type |-> "INPUT", index |-> n, networkIndex |-> n,
     coin |-> c, change |-> "spent", account |-> coinMap[c].account,
     amount |-> -coinMap[c].value, success |-> TRUE]

(* parseOutputTransactionOperation, after n operations of inputs: an OP_RETURN    *)
(* output has no coin change.                                                     *)
OutputOp(c, n) ==
    [tx |-> TxOf[c], type |-> "OUTPUT", index |-> n + Vout[c], networkIndex |-> Vout[c],
     coin |-> c, change |-> IF c \in NullData THEN "none" ELSE "created",
     account |-> Account(c), amount |-> Value[c], success |-> TRUE]

(* parseTxOperations.  The operation of a coinbase input has neither account nor  *)
(* amount nor coin and is left out, but it is counted.                            *)
TxOperations(tx) ==
    LET ins == SetToSeq(tx.inputs)
        n == IF tx.hash \in Coinbases THEN 1 ELSE Len(ins)
    IN {InputOp(tx.hash, ins[i], i - 1) : i \in 1 .. Len(ins)}
       \cup {OutputOp(c, n) : c \in Outputs(tx.hash)}

(* Mutant: duplicate transactions are not skipped.                                *)
SkipNothing(t) == FALSE

(* skipTransactionOperations                                                      *)
skipTransactionOperations(t) == <<Height, t>> \in SkipAt

(* Mutant: coins created in the block are not remembered.                         *)
RememberNothing(txOps) == coinMap

(* The coins a transaction creates can be spent by later ones of the block.  The  *)
(* status of the operation is not looked at.                                      *)
Remember(txOps) ==
    LET created == {o \in txOps : o.change = "created"}
        new == {o.coin : o \in created}
    IN [c \in DOMAIN coinMap \cup new |->
           IF c \in new
           THEN LET o == CHOOSE x \in created : x.coin = c
                IN [account |-> o.account, value |-> o.amount]
           ELSE coinMap[c]]

(* The loop body of parseTransactions.  An input whose coin is not known is       *)
(* "error finding previous tx".                                                   *)
ParseTx ==
    /\ phase = "parse" /\ pos <= Len(raw)
    /\ IF raw[pos].inputs \subseteq DOMAIN coinMap
       THEN LET tx == raw[pos]
                txOps == {[o EXCEPT !.success = ~skipTransactionOperations(tx.hash)] :
                             o \in TxOperations(tx)}
            IN /\ ops' = ops \cup txOps
               /\ coinMap' = Remember(txOps)
               /\ pos' = pos + 1
               /\ UNCHANGED phase
       ELSE /\ phase' = "error"
            /\ UNCHANGED <<ops, coinMap, pos>>
    /\ UNCHANGED <<node, hashes, coinList, store>>

ParseDone ==
    /\ phase = "parse" /\ pos > Len(raw)
    /\ phase' = "add"
    /\ UNCHANGED <<node, client, store>>

--------------------------------------------------------------------------------
(* Storage                                                                        *)

(* The successful operations of a block with this coin change, and their coins    *)
Changes(block, change) == {o \in block : o.success /\ o.change = change}
CoinsOf(os) == {o.coin : o \in os}

(* Coin storage after the coins of gained have been put in, with what their       *)
(* operation says, and those of lost have been taken out.                         *)
UpdateCoins(gained, lost) ==
    [c \in (DOMAIN storage \cup CoinsOf(gained)) \ CoinsOf(lost) |->
        IF c \in CoinsOf(gained)
        THEN LET o == CHOOSE x \in gained : x.coin = c
             IN [account |-> o.account,
                 value |-> IF o.amount < 0 THEN -o.amount ELSE o.amount]
        ELSE storage[c]]

(* What the successful operations of a block mean for account a                   *)
Delta(block, a) ==
    SumFunctionOnSet([o \in block |-> o.amount],
                     {o \in block : o.success /\ o.account = a})

(* blockStorage.AddBlock with its workers, coin storage and balance storage       *)
AddBlock ==
    /\ phase = "add"
    /\ storage' = UpdateCoins(Changes(ops, "created"), Changes(ops, "spent"))
    /\ balance' = [a \in Accounts |-> balance[a] + Delta(ops, a)]
    /\ chain' = Append(chain, ops)
    /\ phase' = "mine"
    /\ raw' = <<>>
    /\ past' = Append(past, [unspent |-> unspent, mined |-> mined])
    /\ pos' = 1 /\ hashes' = {} /\ coinList' = {} /\ coinMap' = NoCoins /\ ops' = {}
    /\ UNCHANGED <<unspent, mined>>

(* Mutant: the coins the block spent are not put back.                            *)
RemoveBlockLosesSpent ==
    /\ phase = "mine" /\ raw = <<>> /\ chain # <<>>
    /\ NodeRemovesBlock
    /\ storage' = UpdateCoins({}, Changes(chain[Height], "created"))
    /\ balance' = [a \in Accounts |-> balance[a] - Delta(chain[Height], a)]
    /\ chain' = SubSeq(chain, 1, Height - 1)
    /\ UNCHANGED <<phase, raw, client>>

(* The node takes its last block back, and so does blockStorage.RemoveBlock with  *)
(* its workers: what was created is taken out and what was spent is put back, as  *)
(* the operations of the block have it.                                           *)
RemoveBlock ==
    /\ phase = "mine" /\ raw = <<>> /\ chain # <<>>
    /\ NodeRemovesBlock
    /\ storage' = UpdateCoins(Changes(chain[Height], "spent"),
                              Changes(chain[Height], "created"))
    /\ balance' = [a \in Accounts |-> balance[a] - Delta(chain[Height], a)]
    /\ chain' = SubSeq(chain, 1, Height - 1)
    /\ UNCHANGED <<phase, raw, client>>

--------------------------------------------------------------------------------
(* Indexer.GetScriptPubKeys                                                       *)

(* blockStorage.FindTransaction: the operations of a transaction, in whatever     *)
(* blocks it is                                                                   *)
FindTransaction(t) == {o \in UNION {chain[i] : i \in 1 .. Len(chain)} : o.tx = t}

(* Mutant: the operation is looked for by its number in the transaction.          *)
IsOperationAt(o, vout) == o.type = "OUTPUT" /\ o.index = vout

(* Which operation is that of the output at position vout                         *)
IsOperationOf(o, vout) == o.type = "OUTPUT" /\ o.networkIndex = vout

(* The operations in which the script of coin c is looked up; the amount is that  *)
(* which the client gives for the coin.                                           *)
GetScriptPubKey(c, amount) ==
    {o \in FindTransaction(TxOf[c]) : IsOperationOf(o, Vout[c]) /\ o.amount + amount = 0}

--------------------------------------------------------------------------------
Next ==
    \/ \E t \in Txs, ins \in SUBSET unspent : MineTx(t, ins)
    \/ GetBlock \/ ScanTx \/ ScanDone \/ FindCoins
    \/ ParseTx \/ ParseDone
    \/ AddBlock \/ RemoveBlock

Spec == Init /\ [][Next]_vars

--------------------------------------------------------------------------------
(* Storage and node have processed the same blocks.                               *)
InStep == phase = "mine" /\ raw = <<>>

(* GetRawBlock never asks for a coin of the block itself: nobody else would       *)
(* create it and findCoins would wait forever.                                    *)
NeverWaitsForItself ==
    phase \in {"scan", "find"} => coinList \subseteq DOMAIN storage

(* The coins GetRawBlock asks for and those ParseBlock remembers on its way are   *)
(* together enough: "error finding previous tx" is never returned for a valid     *)
(* block.                                                                         *)
ParseNeverFails == phase # "error"

(* The coin changes of the parsed operations, applied forwards and backwards,     *)
(* keep coin storage equal to the node's set of unspent coins, in spite of coins  *)
(* spent in their own block, OP_RETURN outputs and duplicate transactions.        *)
StorageFollowsNode == InStep => DOMAIN storage = unspent

(* Balance storage and coin storage tell the same story: the balance of an        *)
(* account is what its coins are worth, plus what it burnt in OP_RETURN outputs.  *)
BalancesAreCoins ==
    InStep =>
        \A a \in Accounts :
            balance[a] =
                SumFunctionOnSet([c \in DOMAIN storage |-> storage[c].value],
                                 {c \in DOMAIN storage : storage[c].account = a})
                + Total({c \in NullData : TxOf[c] \in mined /\ Account(c) = a})

(* The script of every unspent coin can be found, and it is that of the output    *)
(* which created the coin: the coin's identifier says the position among the      *)
(* outputs, while operations are numbered with the inputs and with the coinbase   *)
(* first.  The amount to be given is that of an operation that spends the coin.   *)
CoinsHaveScripts ==
    InStep =>
        \A c \in DOMAIN storage :
            CoinsOf(GetScriptPubKey(c, -storage[c].value)) = {c}
--------------------------------------------------------------------------------
(* What storage and parser have to know of coin c                                 *)
CoinOf(c) == [account |-> Account(c), value |-> Value[c]]

Created(block) == CoinsOf(Changes(block, "created"))
Spent(block) == CoinsOf(Changes(block, "spent"))

(* The operations say of their coins what is true, the spending ones with the     *)
(* sign turned.                                                                   *)
OperationsOK(block) ==
    \A o \in block :
        /\ o.account = Account(o.coin)
        /\ o.type = "OUTPUT" =>
               /\ o.tx = TxOf[o.coin] /\ o.networkIndex = Vout[o.coin]
               /\ o.amount = Value[o.coin] /\ o.change # "spent"
        /\ o.type = "INPUT" => o.amount = -Value[o.coin] /\ o.change = "spent"

(* The node's unspent coins and transactions after block i                        *)
Unspent(i) == IF i = 0 THEN {} ELSE past[i].unspent
Mined(i) == IF i = 0 THEN {} ELSE past[i].mined

(* The operations of block i lead from the unspent coins before it to those after *)
(* it, in a way that can be undone, and every unspent coin is in an output.       *)
LinkOK(i) ==
    /\ OperationsOK(chain[i])
    /\ Created(chain[i]) \cap Unspent(i - 1) = {}
    /\ Spent(chain[i]) \subseteq Unspent(i - 1) \cup Created(chain[i])
    /\ Unspent(i) = (Unspent(i - 1) \cup Created(chain[i])) \ Spent(chain[i])
    /\ \A c \in Unspent(i) :
           /\ c \notin NullData /\ TxOf[c] \in Mined(i)
           /\ \E j \in 1 .. i : \E o \in chain[j] : o.type = "OUTPUT" /\ o.coin = c

HistoryOK ==
    /\ Len(past) = Len(chain)
    /\ \A i \in 1 .. Len(chain) : LinkOK(i)

(* Until a block is added, storage is as the block before it has left it.         *)
StorageOK ==
    /\ DOMAIN storage = Unspent(Height)
    /\ \A c \in DOMAIN storage : storage[c] = CoinOf(c)

(* What the first n transactions of the block create and spend.  A duplicate      *)
(* creates nothing new.                                                           *)
NewCoins(n) ==
    {c \in Coins \ NullData :
        \E i \in 1 .. n : TxOf[c] = raw[i].hash /\ ~skipTransactionOperations(raw[i].hash)}
SpentCoins(n) == UNION {raw[i].inputs : i \in 1 .. n}

(* The transactions of the block spend what was unspent before it or is created   *)
(* by an earlier one of them.                                                     *)
BlockOK ==
    /\ mined = Mined(Height) \cup {raw[i].hash : i \in 1 .. Len(raw)}
    /\ unspent = (Unspent(Height) \cup NewCoins(Len(raw))) \ SpentCoins(Len(raw))
    /\ NewCoins(Len(raw)) \cap Unspent(Height) = {}
    /\ \A i \in 1 .. Len(raw) :
           /\ skipTransactionOperations(raw[i].hash) => raw[i].inputs = {}
           /\ \A c \in raw[i].inputs : /\ c \in Unspent(Height) \cup NewCoins(i - 1)
                                       /\ TxOf[c] # raw[i].hash

(* An input of transaction i is in the list, or its transaction comes before i.   *)
Listed(i) ==
    \A c \in raw[i].inputs : c \in coinList \/ \E j \in 1 .. i - 1 : TxOf[c] = raw[j].hash

(* The loop of GetRawBlock has dealt with the transactions before pos.            *)
ScanOK ==
    /\ phase \in {"scan", "find", "parse"} => coinList \subseteq Unspent(Height)
    /\ phase = "scan" => /\ pos \in 1 .. Len(raw) + 1
                         /\ hashes = {raw[i].hash : i \in 1 .. pos - 1}
                         /\ \A i \in 1 .. pos - 1 : Listed(i)
    /\ phase \in {"find", "parse"} => \A i \in 1 .. Len(raw) : Listed(i)

(* The loop of ParseBlock has.                                                    *)
ParseOK ==
    /\ phase # "error"
    /\ phase \in {"parse", "add"} =>
           /\ pos \in 1 .. Len(raw) + 1
           /\ OperationsOK(ops)
           /\ Created(ops) = NewCoins(pos - 1)
           /\ Spent(ops) = SpentCoins(pos - 1)
    /\ phase = "parse" =>
           /\ coinList \subseteq DOMAIN coinMap
           /\ \A j \in 1 .. pos - 1 : Outputs(raw[j].hash) \ NullData \subseteq DOMAIN coinMap
           /\ \A c \in DOMAIN coinMap : coinMap[c] = CoinOf(c)
    /\ phase = "add" => pos = Len(raw) + 1

(* The inductive invariant, as far as coins go                                    *)
ParserInv == TypeOK /\ HistoryOK /\ StorageOK /\ BlockOK /\ ScanOK /\ ParseOK

--------------------------------------------------------------------------------
(* A coin is created, spent or burnt by one successful operation of a block.      *)
Once(block) ==
    \A o, x \in block :
        o.success /\ x.success /\ o.change = x.change /\ o.coin = x.coin => o = x

Burnt(block) == CoinsOf(Changes(block, "none"))

(* The OP_RETURN outputs on the node's chain up to block i, and those of the      *)
(* first n transactions of the block                                              *)
Burns(i) == {c \in NullData : TxOf[c] \in Mined(i)}
NewBurns(n) ==
    {c \in NullData :
        \E i \in 1 .. n : TxOf[c] = raw[i].hash /\ ~skipTransactionOperations(raw[i].hash)}

(* No transaction and no input is twice in the block, and a transaction is in an  *)
(* earlier block only if its operations are skipped.                              *)
FreshOK ==
    \A i \in 1 .. Len(raw) :
        /\ skipTransactionOperations(raw[i].hash) <=> raw[i].hash \in Mined(Height)
        /\ \A j \in 1 .. i - 1 : /\ raw[j].hash # raw[i].hash
                                /\ raw[j].inputs \cap raw[i].inputs = {}

(* The operations of block i account for its coins and OP_RETURN outputs once.    *)
TallyOK(i) ==
    /\ Once(chain[i])
    /\ Burnt(chain[i]) \cap Burns(i - 1) = {}
    /\ Burns(i) = Burns(i - 1) \cup Burnt(chain[i])

(* The operations parsed so far do.                                               *)
OnceOK ==
    phase \in {"parse", "add"} => Once(ops) /\ Burnt(ops) = NewBurns(pos - 1)

(* What is held by account a of these coins, and in all after block i             *)
Held(cs, a) == Total({c \in cs : Account(c) = a})
Worth(i, a) == Held(Unspent(i), a) + Held(Burns(i), a)

BalanceOK == balance = [a \in Accounts |-> Worth(Height, a)]

(* The inductive invariant, with the balances                                     *)
AccountingInv ==
    /\ ParserInv
    /\ FreshOK /\ OnceOK
    /\ \A i \in 1 .. Len(chain) : TallyOK(i)
    /\ BalanceOK
================================================================================
