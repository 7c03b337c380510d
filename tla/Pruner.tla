--------------------------------- MODULE Pruner ---------------------------------
(* Indexer.Prune: once in a while the pruner reads the head of block storage and  *)
(* asks bitcoind to delete the blocks below it, while the syncer goes on adding   *)
(* and removing blocks and the node goes on reorganising.  What bitcoind has      *)
(* deleted it can no longer serve to the syncer.                                  *)
(*                                                                                *)
(* Only heights matter.  How far the head may go back is not the node's choice:   *)
(* the syncer removes only blocks of its cache of past blocks, which holds        *)
(* syncer.DefaultPastBlockLimit blocks at most and is filled from storage when    *)
(* the process starts.  Module PrunedIndexer shows that the sync pipeline moves   *)
(* the head as it does here.                                                      *)
EXTENDS Integers

CONSTANTS
    Depth,        \* pruningConfig.Depth
    MinHeight,    \* pruningConfig.MinHeight
    PastLimit,    \* syncer.DefaultPastBlockLimit
    MaxRestarts,  \* bound: how often the process is started again
    MaxTip        \* bound: the highest tip

(* pruneDepth is 10000 and DefaultPastBlockLimit 100: even 99 restarts, each in   *)
(* the middle of a reorg that the past blocks just allow, do not reach what was   *)
(* pruned.                                                                        *)
ASSUME PrunerConstants ==
    /\ Depth \in Nat /\ MinHeight \in Nat /\ PastLimit \in Nat
    /\ MaxRestarts \in Nat /\ MaxTip \in Nat
    /\ (MaxRestarts + 1) * PastLimit <= Depth

None == -1   \* no block, no request

VARIABLES
    tip,      \* height of the node's best block
    head,     \* height of the head in block storage
    past,     \* number of blocks in the syncer's pastBlocks
    request,  \* pruneHeight of a call that is about to be made
    pruned,   \* the node has deleted blocks up to here
    restarts  \* how often the process was started again

vars == <<tip, head, past, request, pruned, restarts>>

TypeOK ==
    /\ tip \in Nat
    /\ head \in Nat \cup {None}
    /\ past \in 0 .. PastLimit
    /\ request \in Nat \cup {None}
    /\ pruned \in Nat \cup {None}
    /\ restarts \in 0 .. MaxRestarts

(* The number of past blocks that are kept when there are n.                      *)
AtMostLimit(n) == IF n > PastLimit THEN PastLimit ELSE n

Init ==
    /\ tip \in 0 .. MaxTip
    /\ head = None /\ past = 0
    /\ request = None /\ pruned = None
    /\ restarts = 0

--------------------------------------------------------------------------------
(* The node adopts a longer chain, with or without a reorg.                       *)
NodeAdvance ==
    /\ tip' \in tip + 1 .. MaxTip
    /\ UNCHANGED <<head, past, request, pruned, restarts>>

(* BlockAdded, seen from storage                                                  *)
BlockAdded ==
    /\ head < tip
    /\ head' = head + 1
    /\ past' = AtMostLimit(past + 1)
    /\ UNCHANGED <<tip, request, pruned, restarts>>

(* BlockRemoved, seen from storage.  The syncer neither removes a block it does   *)
(* not remember nor the genesis block.                                            *)
BlockRemoved ==
    /\ past > 0 /\ head > 0
    /\ head' = head - 1
    /\ past' = past - 1
    /\ UNCHANGED <<tip, request, pruned, restarts>>

--------------------------------------------------------------------------------
(* Mutant: the head itself is the prune height.                                   *)
TickIgnoresDepth ==
    /\ request = None
    /\ head # None /\ head > MinHeight
    /\ request' = head
    /\ UNCHANGED <<tip, head, past, pruned, restarts>>

(* Mutant: the pruning conditions of bitcoind are not checked.                    *)
TickAnyHeight ==
    /\ request = None
    /\ head # None
    /\ request' = head - Depth
    /\ UNCHANGED <<tip, head, past, pruned, restarts>>

(* The ticker fires: read the head and decide.  Without a head, or with one that  *)
(* is too low, nothing happens until the next tick.                               *)
Tick ==
    /\ request = None
    /\ head # None /\ head - Depth > MinHeight
    /\ request' = head - Depth
    /\ UNCHANGED <<tip, head, past, pruned, restarts>>

(* client.PruneBlockchain.  bitcoind deletes whole files, so it may delete less   *)
(* than it is asked to; a call that fails is only logged.                         *)
PruneBlockchain ==
    /\ request # None
    /\ \E h \in {pruned} \cup (pruned + 1 .. request) : pruned' = h
    /\ request' = None
    /\ UNCHANGED <<tip, head, past, restarts>>

(* The process is started again: Sync fills the past blocks from storage.         *)
Restart ==
    /\ restarts < MaxRestarts
    /\ restarts' = restarts + 1
    /\ past' = AtMostLimit(head + 1)
    /\ request' = None
    /\ UNCHANGED <<tip, head, pruned>>

--------------------------------------------------------------------------------
Next ==
    \/ NodeAdvance \/ BlockAdded \/ BlockRemoved
    \/ Tick \/ PruneBlockchain \/ Restart

Spec == Init /\ [][Next]_vars

--------------------------------------------------------------------------------
(* The block the syncer fetches next, for the first time or again after a reorg,  *)
(* the node can serve, although the prune height was computed from a head that    *)
(* may have been removed since, in this process or in an earlier one.             *)
NeededIsServed == pruned <= head

(* When PruneBlockchain is called the conditions of bitcoind hold, as the comment *)
(* in Prune asks for: the chain is longer than the minimum prune height and the   *)
(* last Depth blocks are kept.                                                    *)
RequestIsAcceptable ==
    request # None => request + Depth <= tip /\ tip > MinHeight + Depth

(* The lowest head this process can go back to.                                   *)
Floor == head - past

(* How far the restarts that are left can lower it.                               *)
Reserve == (MaxRestarts - restarts) * PastLimit

(* The inductive invariant.  In one process the floor never falls, a restart      *)
(* lowers it by PastLimit at most, and what is requested or deleted is so far     *)
(* below it that the restarts that are left cannot reach it.                      *)
PrunerInv ==
    /\ TypeOK
    /\ head <= tip /\ Floor >= None
    /\ request <= Floor /\ pruned <= Floor
    /\ request # None => /\ request + Depth <= tip /\ request > MinHeight
                         /\ request + Reserve <= Floor
    /\ pruned # None => pruned + Reserve <= Floor
================================================================================
