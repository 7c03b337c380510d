---------------------------- MODULE MCPrunedIndexer ----------------------------
(* Pipeline and pruner on the tree with two branches.  The syncer remembers one   *)
(* block, so a reorg of two blocks needs a restart in between.                    *)
EXTENDS PrunedIndexer, MCForkTree

(* Fetchers are interchangeable.                                                  *)
FetcherSymmetry == Permutations(Fetchers)
================================================================================
