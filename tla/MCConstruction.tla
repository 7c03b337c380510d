---------------------------- MODULE MCConstruction ----------------------------
(* Three coins, one of a legacy script.  The intents pay just the least fee, less *)
(* or more; put outputs before inputs; swap the inputs of another; and name a     *)
(* wrong account, a wrong amount, a coin twice, an address of no network, no coin, *)
(* or one for an output; one pays dust and one has as many outputs as are counted *)
(* in three bytes.                                                                *)
(* Three have an amount that does not fit: one wraps to a payment the coin can     *)
(* make, one to a negative payment, one to what the coin is worth.                 *)
EXTENDS Construction, TLC

CONSTANTS alice, bob, carol, nobody, c1, c2, c3

MCCoinAccount == (c1 :> alice) @@ (c2 :> bob) @@ (c3 :> alice)
MCCoinAmount == (c1 :> 1000) @@ (c2 :> 800) @@ (c3 :> 1000)
MCCoinClass == (c1 :> WitnessV0PubKeyHashTy) @@ (c2 :> WitnessV0PubKeyHashTy)
               @@ (c3 :> "pubkeyhash")
MCScriptLen == (alice :> 22) @@ (bob :> 22) @@ (carol :> 25)
MCDustLimit == (alice :> 294) @@ (bob :> 294) @@ (carol :> 546)

In(a, n, c) == [type |-> "INPUT", account |-> a, amount |-> -n, coin |-> c]
Out(a, n) == [type |-> "OUTPUT", account |-> a, amount |-> n, coin |-> NoCoin]

MCIntents ==
    {<<In(alice, 1000, c1), Out(bob, 889)>>,
     <<In(alice, 1000, c1), [Out(bob, 900) EXCEPT !.coin = c2]>>,
     <<In(alice, 1000, c1), Out(bob, 940)>>,
     <<Out(carol, 900), In(alice, 1000, c1), Out(alice, 687), In(bob, 800, c2)>>,
     <<In(bob, 800, c2), Out(carol, 600), In(alice, 1000, c1), Out(alice, 300)>>,
     <<In(bob, 1000, c1), Out(carol, 600)>>,
     <<In(alice, 900, c1), Out(carol, 600)>>,
     <<In(alice, 1000, c3), Out(carol, 600)>>,
     <<In(alice, 1000, c1), In(alice, 1000, c1), Out(carol, 600)>>,
     <<In(alice, 1000, c1), Out(nobody, 600)>>,
     <<In(alice, 1000, c1), In(bob, 800, NoCoin), Out(carol, 600)>>,
     <<In(alice, 1000, c1), Out(bob, 8192 + 889)>>,
     <<In(alice, 1000, c1), Out(bob, 8192 - 889)>>,
     <<In(alice, 8192 + 1000, c1), Out(bob, 889)>>,
     <<In(alice, 1000, c1), Out(carol, 545)>>,
     <<In(alice, 1000, c1), In(bob, 800, c2), Out(bob, 500), Out(bob, 500), Out(bob, 559)>>,
     <<Out(carol, 600)>>}
================================================================================
