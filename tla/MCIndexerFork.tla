----------------------------- MODULE MCIndexerFork -----------------------------
(* The sync pipeline on a tree with two branches, of which the longer one wins:   *)
(* blocks of both are fetched, seen, added and removed.                           *)
EXTENDS IndexerProperties, MCForkTree

(* Fetchers are interchangeable.                                                  *)
FetcherSymmetry == Permutations(Fetchers)
================================================================================
