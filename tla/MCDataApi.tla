------------------------------- MODULE MCDataApi -------------------------------
(* One request, for requests share nothing but the storage, on the tree with two  *)
(* branches.  Transaction txu is in a block of each branch, one of which has more *)
(* transactions than are inlined.                                                 *)
EXTENDS DataApi, MCForkTree

CONSTANTS alice, bob

MCOwner == (v :> alice) @@ (w :> bob) @@ (x :> alice) @@ (y :> alice) @@ (u :> bob)
MCDataCreates == [MCCreates EXCEPT ![r1] = {}, ![b3] = {u, v, w, x}]
MCDataSpends == [MCSpends EXCEPT ![a2] = {}, ![b3] = {y}, ![b4] = {u, w}]
================================================================================
