---------------------------- MODULE MCIndexerLinear ----------------------------
(* The sync pipeline on a chain without forks.  Transaction t1 has two outputs,   *)
(* spent by two different blocks, so that two fetchers wait on one entry of the   *)
(* wait table; a3 waits for two transactions; a2 spends an output of its own.     *)
EXTENDS IndexerProperties, TLC

CONSTANTS g0, a1, a2, a3, c1, d1, c2, e2, c3, t1, t2, t3

MCBlocks == {g0, a1, a2, a3}
MCParent == (g0 :> g0) @@ (a1 :> g0) @@ (a2 :> a1) @@ (a3 :> a2)
MCHeight == (g0 :> 0) @@ (a1 :> 1) @@ (a2 :> 2) @@ (a3 :> 3)
MCBranch == (g0 :> {g0}) @@ (a1 :> {g0, a1}) @@ (a2 :> {g0, a1, a2})
            @@ (a3 :> {g0, a1, a2, a3})
MCCoins == {c1, d1, c2, e2, c3}
MCTxOf == (c1 :> t1) @@ (d1 :> t1) @@ (c2 :> t2) @@ (e2 :> t2) @@ (c3 :> t3)
MCCreates == (g0 :> {}) @@ (a1 :> {c1, d1}) @@ (a2 :> {c2, e2}) @@ (a3 :> {c3})
MCSpends == (g0 :> {}) @@ (a1 :> {}) @@ (a2 :> {c1, e2}) @@ (a3 :> {d1, c2})
================================================================================
