----------------------------- MODULE MCBlockParser -----------------------------
(* Chains of up to four blocks.  k1 is mined twice, at heights 0 and 1, like the  *)
(* transactions before BIP-30.  t1 spends a coinbase output, creates an OP_RETURN *)
(* output that burns value and a coin that t2 may spend in the same block; t2 and *)
(* k2 pay to scripts with several addresses and to an empty script.               *)
EXTENDS BlockParser, TLC

CONSTANTS k1, k2, k3, t1, t2, t3, a1, a2, c1, c2, c3, p, q, r, s

MCTxOf == (c1 :> k1) @@ (c2 :> k2) @@ (c3 :> k3) @@ (p :> t1) @@ (q :> t1) @@ (r :> t2)
          @@ (s :> t3)
MCVout == [c \in Coins |-> IF c = p THEN 1 ELSE 0]
MCValue == (c1 :> 4) @@ (c2 :> 2) @@ (c3 :> 2) @@ (p :> 2) @@ (q :> 1) @@ (r :> 2)
           @@ (s :> 1)
MCAddresses == (c1 :> {a1}) @@ (c2 :> {a1, a2}) @@ (c3 :> {a1}) @@ (p :> {a2})
               @@ (q :> {}) @@ (r :> {}) @@ (s :> {a1})
MCHex == (c1 :> a2) @@ (c2 :> a2) @@ (c3 :> a1) @@ (p :> a1) @@ (q :> a1) @@ (r :> Blank)
         @@ (s :> a2)
MCSkipAt == {<<1, k1>>}
MCAccounts == {a1, a2} \cup Coins
================================================================================
