------------------------------- MODULE MCForkTree -------------------------------
(* A small block tree with two branches, of which the longer one wins.            *)
EXTENDS TLC

CONSTANTS g0, r1, a2, a3, b2, b3, b4, v, w, x, y, u, txr, txx, txy, txu

MCBlocks == {g0, r1, a2, a3, b2, b3, b4}
MCParent == (g0 :> g0) @@ (r1 :> g0) @@ (a2 :> r1) @@ (a3 :> a2)
            @@ (b2 :> r1) @@ (b3 :> b2) @@ (b4 :> b3)
MCHeight == (g0 :> 0) @@ (r1 :> 1) @@ (a2 :> 2) @@ (a3 :> 3)
            @@ (b2 :> 2) @@ (b3 :> 3) @@ (b4 :> 4)
MCBranch == (g0 :> {g0}) @@ (r1 :> {g0, r1}) @@ (a2 :> {g0, r1, a2})
            @@ (a3 :> {g0, r1, a2, a3}) @@ (b2 :> {g0, r1, b2})
            @@ (b3 :> {g0, r1, b2, b3}) @@ (b4 :> {g0, r1, b2, b3, b4})
MCCoins == {v, w, x, y, u}
MCTxOf == (v :> txr) @@ (w :> txr) @@ (x :> txx) @@ (y :> txy) @@ (u :> txu)

(* Blocks of a branch depend on each other.  Coin w is spent in both branches and *)
(* transaction txu is in both, at different heights.                              *)
MCCreates == (g0 :> {}) @@ (r1 :> {v, w}) @@ (a2 :> {x, u}) @@ (a3 :> {})
             @@ (b2 :> {y}) @@ (b3 :> {u}) @@ (b4 :> {})
MCSpends == (g0 :> {}) @@ (r1 :> {}) @@ (a2 :> {w}) @@ (a3 :> {x})
            @@ (b2 :> {}) @@ (b3 :> {y, w}) @@ (b4 :> {u})

(* Blocks of both branches depend on the common part only, on different coins.    *)
MCCreatesCommon == [MCCreates EXCEPT ![a2] = {x}, ![b2] = {y}, ![b3] = {u}]
MCSpendsCommon == [MCSpends EXCEPT ![a2] = {w}, ![a3] = {}, ![b2] = {v},
                                   ![b3] = {}, ![b4] = {}]
================================================================================
