--------------------------------- MODULE Ledger ---------------------------------
(* What the indexer promises to those who read its storage: a ledger that follows *)
(* the node's block tree one block at a time.  The head only moves along an edge  *)
(* of the tree, and the coins are always exactly the unspent ones of the head's   *)
(* branch, however blocks were fetched, cached, waited for and aborted.           *)
EXTENDS Chain

CONSTANT NoBlock   \* the ledger is empty

VARIABLES head, coins

LedgerInit == head = NoBlock /\ coins = {}

(* A block may be connected only if everything it spends can be resolved.         *)
Connect(b) ==
    /\ IF head = NoBlock THEN b = Genesis ELSE b # Genesis /\ Parent[b] = head
    /\ Needs(b) \subseteq coins
    /\ head' = b
    /\ coins' = Utxo(b)

(* Only a block with a parent is ever disconnected.                               *)
Disconnect ==
    /\ head \notin {NoBlock, Genesis}
    /\ head' = Parent[head]
    /\ coins' = Utxo(Parent[head])

LedgerNext == (\E b \in Blocks : Connect(b)) \/ Disconnect

LedgerSpec == LedgerInit /\ [][LedgerNext]_<<head, coins>>
================================================================================
