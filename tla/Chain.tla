---------------------------------- MODULE Chain ----------------------------------
(* The coins of the block tree, as far as the indexer depends on them: which      *)
(* coins a block creates and spends, and which transaction a coin is an output    *)
(* of.  A coin identifier "hash:index" is a coin and TxOf strips the index, so    *)
(* data that the indexer only copies is left out.                                 *)
EXTENDS BlockTree

CONSTANTS
    Coins,     \* the transaction outputs
    Txs,       \* the transactions
    TxOf,      \* TxOf[c]: the transaction whose output c is
    Creates,   \* Creates[b]: coins with a CoinCreated operation in b
    Spends     \* Spends[b]: coins with a CoinSpent operation in b

(* Coins created on b's branch and not spent on it: what coin storage has to hold *)
(* when b is the head.                                                            *)
Utxo(b) == {c \in Coins : /\ \E a \in Branch[b] : c \in Creates[a]
                          /\ \A a \in Branch[b] : c \notin Spends[a]}

(* The coins GetRawBlock returns for b: its inputs that are not outputs of b      *)
(* itself (coinbase inputs name no coin).                                         *)
Needs(b) == Spends[b] \ Creates[b]

(* The transactions in b that some block may wait for.                            *)
TxsIn(b) == {TxOf[c] : c \in Creates[b]}

--------------------------------------------------------------------------------
(* What the node guarantees of the coins by consensus validation.  The last       *)
(* conjunct of CoinShape is where BIP-30 duplicates would show, which             *)
(* skipTransactionOperations keeps from the indexer.                              *)
ASSUME CoinShape ==
    /\ TxOf \in [Coins -> Txs]
    /\ Creates \in [Blocks -> SUBSET Coins]
    /\ Spends \in [Blocks -> SUBSET Coins]
    /\ \A b \in Blocks : \A c \in Creates[b], d \in Coins :
           TxOf[c] = TxOf[d] => d \in Creates[b]
    /\ \A b \in Blocks : \A a \in Branch[b] :
           a # b => Creates[a] \cap Creates[b] = {}

(* A block spends outputs of its own or unspent ones of its ancestors.            *)
ASSUME NoDoubleSpend ==
    /\ Spends[Genesis] \subseteq Creates[Genesis]
    /\ \A b \in Blocks \ {Genesis} : Needs(b) \subseteq Utxo(Parent[b])
================================================================================
