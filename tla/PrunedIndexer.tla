------------------------------ MODULE PrunedIndexer ------------------------------
(* The sync pipeline and the pruner in one process: fetchers ask bitcoind for     *)
(* blocks while Prune makes it delete some.  The pipeline is the one of module    *)
(* Indexer, with the syncer's cache of past blocks added; the pruner is the one   *)
(* of module Pruner, which only knows heights.                                    *)
EXTENDS IndexerProperties

CONSTANTS Depth, MinHeight, PastLimit   \* as in module Pruner

VARIABLES past, request, pruned         \* as in module Pruner

allVars == <<vars, past, request, pruned>>

HeadHeight == nextIndex - 1
TopHeight == CHOOSE n \in {Height[b] : b \in Blocks} : \A b \in Blocks : Height[b] <= n

(* What the pruner sees of the pipeline.                                          *)
Heights == INSTANCE Pruner
    WITH tip <- Height[best], head <- HeadHeight, past <- past, request <- request,
         pruned <- pruned, restarts <- restarts, MaxRestarts <- MaxRestarts,
         MaxTip <- TopHeight, Depth <- Depth, MinHeight <- MinHeight,
         PastLimit <- PastLimit

(* As in module Pruner; the tree, a bound of the model, has a highest block.      *)
ASSUME CompositionConstants ==
    /\ Depth \in Nat /\ MinHeight \in Nat /\ PastLimit \in Nat
    /\ (MaxRestarts + 1) * PastLimit <= Depth
    /\ \E n \in {Height[b] : b \in Blocks} : \A b \in Blocks : Height[b] <= n

--------------------------------------------------------------------------------
PrunedInit ==
    /\ Init
    /\ past = 0 /\ request = Heights!None /\ pruned = Heights!None

(* Mutant: Sync does not fill the cache from storage.                             *)
CreateNoBlockCache == 0

(* Sync: the past blocks of a new process are the last ones of storage.           *)
CreateBlockCache == IF nextIndex > PastLimit THEN PastLimit ELSE nextIndex

(* The past blocks after a step of the pipeline.  The syncer gives up the process *)
(* when it would have to remove a block it does not remember.                     *)
PastBlocks ==
    \/ /\ restarts' # restarts
       /\ past' = CreateBlockCache
    \/ /\ restarts' = restarts /\ nextIndex' > nextIndex
       /\ past' = IF past = PastLimit THEN past ELSE past + 1
    \/ /\ nextIndex' < nextIndex /\ past > 0
       /\ past' = past - 1
    \/ /\ restarts' = restarts /\ nextIndex' = nextIndex
       /\ UNCHANGED past

(* A step of the node, a fetcher, the sequencer, or a restart, which forgets a    *)
(* prune request that was not made yet.                                           *)
PipelineStep ==
    /\ Next
    /\ PastBlocks
    /\ request' = IF restarts' # restarts THEN Heights!None ELSE request
    /\ UNCHANGED pruned

(* A step of the goroutine that runs Prune.                                       *)
PrunerStep ==
    /\ UNCHANGED vars
    /\ Heights!Tick \/ Heights!PruneBlockchain

PrunedNext == PipelineStep \/ PrunerStep

PrunedSpec == PrunedInit /\ [][PrunedNext]_allVars

--------------------------------------------------------------------------------
(* The pipeline moves the head as the pruner's specification allows: what is      *)
(* proved of Pruner holds of the two together.                                    *)
FollowsPruner == Heights!Spec

(* Whatever height a fetcher or the sequencer is about to ask bitcoind for, the   *)
(* block was not deleted: neither a fetch far ahead of the head nor one again     *)
(* during a reorg, in this process or after a restart, runs into a pruned block.  *)
FetchesAreServed == \A p \in Procs : pc[p] = "rawBlock" => index[p] > pruned
================================================================================
