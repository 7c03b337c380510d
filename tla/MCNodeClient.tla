------------------------------ MODULE MCNodeClient ------------------------------
(* Two callers on a tree with two branches that part after the genesis block.     *)
EXTENDS NodeClient, TLC

CONSTANTS g0, a1, b1, b2

MCBlocks == {g0, a1, b1, b2}
MCParent == (g0 :> g0) @@ (a1 :> g0) @@ (b1 :> g0) @@ (b2 :> b1)
MCHeight == (g0 :> 0) @@ (a1 :> 1) @@ (b1 :> 1) @@ (b2 :> 2)
MCBranch == (g0 :> {g0}) @@ (a1 :> {g0, a1}) @@ (b1 :> {g0, b1}) @@ (b2 :> {g0, b1, b2})
================================================================================
