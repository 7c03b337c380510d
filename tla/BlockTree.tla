-------------------------------- MODULE BlockTree --------------------------------
(* The blocks the Bitcoin node may ever serve and which of them extends which.    *)
(* The tree is a constant; the node only moves its best block inside it.  A       *)
(* block's hash is the block itself.                                              *)
EXTENDS Integers, FiniteSets

CONSTANTS
    Blocks,    \* every block the node may ever serve
    Genesis,   \* its height-0 block, the parent of itself (parseBlockData)
    Parent,    \* Parent[b]: the block named by b.PreviousBlockHash
    Height,    \* Height[b]: b.Height
    Branch     \* Branch[b]: b and all its ancestors

(* What the node guarantees of the tree.                                          *)
ASSUME TreeShape ==
    /\ Genesis \in Blocks
    /\ Parent \in [Blocks -> Blocks]
    /\ Height \in [Blocks -> Nat]
    /\ Parent[Genesis] = Genesis
    /\ Height[Genesis] = 0
    /\ \A b \in Blocks \ {Genesis} : Height[b] = Height[Parent[b]] + 1

ASSUME BranchShape ==
    /\ Branch \in [Blocks -> SUBSET Blocks]
    /\ Branch[Genesis] = {Genesis}
    /\ \A b \in Blocks \ {Genesis} : Branch[b] = Branch[Parent[b]] \cup {b}
    /\ \A b \in Blocks : \A a \in Branch[b] : Branch[a] \subseteq Branch[b]
    /\ \A b \in Blocks : \A n \in 0 .. Height[b] :
           \E a \in Branch[b] : Height[a] = n
    /\ \A b \in Blocks : \A a \in Branch[b] : a # b => Height[a] < Height[b]
    /\ \A b \in Blocks : \A a, d \in Branch[b] : Height[a] = Height[d] => a = d
================================================================================
