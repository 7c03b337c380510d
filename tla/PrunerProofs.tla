------------------------------ MODULE PrunerProofs ------------------------------
(* The pruner never takes a block from the syncer, for every depth, minimum       *)
(* height, size of the syncer's cache of past blocks and number of restarts that  *)
(* satisfy PrunerConstants.                                                       *)
EXTENDS Pruner, TLAPS

(* PrunerConstants without its product.                                           *)
LEMMA ConstantsAreNat ==
    /\ Depth \in Nat /\ MinHeight \in Nat /\ PastLimit \in Nat
    /\ MaxRestarts \in Nat /\ MaxTip \in Nat
BY PrunerConstants

(* Of the Depth blocks that are kept, PastLimit are for the running process and   *)
(* PastLimit for every restart that is left.                                      *)
LEMMA ReserveBound ==
    ASSUME TypeOK
    PROVE  Reserve \in Nat /\ Reserve + PastLimit <= Depth
<1>1. restarts \in Nat /\ MaxRestarts - restarts \in Nat
  BY PrunerConstants DEF TypeOK
<1>2. Reserve \in Nat
  BY <1>1, PrunerConstants, SMT DEF Reserve
<1>3. (MaxRestarts - restarts) * PastLimit <= MaxRestarts * PastLimit
  BY <1>1, PrunerConstants, SMT
<1>4. (MaxRestarts + 1) * PastLimit = MaxRestarts * PastLimit + PastLimit
  BY PrunerConstants, SMT
<1>5. Reserve \in Int /\ MaxRestarts * PastLimit \in Int
  BY <1>2, PrunerConstants, SMT
<1> QED
  BY <1>2, <1>3, <1>4, <1>5, PrunerConstants DEF Reserve

(* A restart uses up its part of the reserve.                                     *)
LEMMA ReserveUsed ==
    ASSUME TypeOK, Restart
    PROVE  Reserve = Reserve' + PastLimit
<1>1. PICK k \in Int : k = MaxRestarts - restarts
  BY PrunerConstants DEF TypeOK
<1>2. MaxRestarts - restarts' = k - 1
  BY <1>1, PrunerConstants DEF TypeOK, Restart
<1>3. k * PastLimit = (k - 1) * PastLimit + PastLimit
  BY PrunerConstants, SMT
<1> QED
  BY <1>1, <1>2, <1>3 DEF Reserve

(* Nothing is requested or deleted in the initial state.                          *)
LEMMA PrunerInitInv == Init => PrunerInv
BY ConstantsAreNat DEF Init, PrunerInv, TypeOK, Floor, None

(* Adding and removing blocks never lowers the floor.                             *)
LEMMA HeadMovesInv == PrunerInv /\ (BlockAdded \/ BlockRemoved) => PrunerInv'
<1> SUFFICES ASSUME PrunerInv, BlockAdded \/ BlockRemoved PROVE PrunerInv'
  OBVIOUS
<1>1. Reserve' = Reserve /\ Reserve \in Nat
  BY ReserveBound DEF PrunerInv, Reserve, BlockAdded, BlockRemoved
<1>2. TypeOK' /\ head' <= tip' /\ Floor' >= Floor
  BY ConstantsAreNat
     DEF PrunerInv, TypeOK, BlockAdded, BlockRemoved, AtMostLimit, Floor, None
<1>3. Floor \in Int /\ Floor' \in Int
  BY <1>2, ConstantsAreNat DEF PrunerInv, TypeOK, Floor, None
<1>4. request' = request /\ pruned' = pruned /\ tip' = tip
  BY DEF BlockAdded, BlockRemoved
<1> QED
  BY <1>1, <1>2, <1>3, <1>4, ConstantsAreNat DEF PrunerInv, TypeOK, None

(* The request is at most Depth below a head that is at most PastLimit above the  *)
(* floor.                                                                         *)
LEMMA TickInv == PrunerInv /\ Tick => PrunerInv'
<1> SUFFICES ASSUME PrunerInv, Tick PROVE PrunerInv'
  OBVIOUS
<1>1. /\ Reserve' = Reserve /\ Floor' = Floor
      /\ Reserve \in Nat /\ Reserve + PastLimit <= Depth
  BY ReserveBound DEF PrunerInv, Tick, Reserve, Floor
<1>2. Floor \in Int /\ head - PastLimit <= Floor
  BY ConstantsAreNat DEF PrunerInv, TypeOK, Floor, None
<1> QED
  BY <1>1, <1>2, ConstantsAreNat DEF PrunerInv, TypeOK, None, Tick

(* At most what was requested is deleted.                                         *)
LEMMA PruneBlockchainInv == PrunerInv /\ PruneBlockchain => PrunerInv'
<1> SUFFICES ASSUME PrunerInv, PruneBlockchain PROVE PrunerInv'
  OBVIOUS
<1> USE ConstantsAreNat DEF PrunerInv, TypeOK, None
<1>1. PICK h \in {pruned} \cup (pruned + 1 .. request) : pruned' = h
  BY DEF PruneBlockchain
<1>2. pruned' = pruned \/ (pruned' \in Nat /\ pruned' <= request /\ request # None)
  BY <1>1 DEF PruneBlockchain
<1>3. Reserve' = Reserve /\ Floor' = Floor /\ Reserve \in Nat /\ Floor \in Int
  BY ReserveBound DEF PruneBlockchain, Reserve, Floor
<1> QED
  BY <1>2, <1>3 DEF PruneBlockchain

(* When the reserve q shrinks by l to r and the floor f by at most l to g, what   *)
(* was below the floor by the reserve still is.                                   *)
LEMMA Shrink ==
    ASSUME NEW p \in Int, NEW f \in Int, NEW g \in Int, NEW q \in Nat, NEW r \in Nat,
           NEW l \in Nat, q = r + l, g + l >= f, p + q <= f
    PROVE  p + r <= g /\ p <= g
OBVIOUS

(* A restart lowers the floor by what it takes from the reserve.                  *)
LEMMA RestartInv == PrunerInv /\ Restart => PrunerInv'
<1> SUFFICES ASSUME PrunerInv, Restart PROVE PrunerInv'
  OBVIOUS
<1> USE ConstantsAreNat DEF None
<1>1. TypeOK'
  BY DEF PrunerInv, TypeOK, Restart, AtMostLimit
<1>2. Reserve = Reserve' + PastLimit
  BY ReserveUsed DEF PrunerInv
<1>3. Reserve' \in Nat
  <2>1. MaxRestarts - restarts' \in Nat
    BY DEF PrunerInv, TypeOK, Restart
  <2> QED
    BY <2>1, SMT DEF Reserve
<1>4. /\ Floor \in Int /\ Floor' \in Int
      /\ Floor' + PastLimit >= Floor /\ Floor' >= None
  BY DEF PrunerInv, TypeOK, Restart, AtMostLimit, Floor
<1>5. /\ tip' = tip /\ head' = head /\ request' = None /\ pruned' = pruned
      /\ pruned \in Int /\ head <= tip /\ pruned <= Floor
      /\ pruned # None => pruned + Reserve <= Floor
  BY DEF PrunerInv, TypeOK, Restart
<1>6. ASSUME pruned # None PROVE pruned + Reserve' <= Floor' /\ pruned <= Floor'
  <2>1. Reserve \in Nat
    BY ReserveBound DEF PrunerInv
  <2> HIDE DEF None
  <2> QED
    BY <1>2, <1>4, <1>3, <1>5, <1>6, <2>1, Shrink
<1>7. pruned <= Floor'
  BY <1>4, <1>5, <1>6
<1> QED
  BY <1>1, <1>4, <1>5, <1>6, <1>7 DEF PrunerInv

(* Every step of the node, the syncer and the pruner keeps the invariant.         *)
LEMMA PrunerNextInv == PrunerInv /\ [Next]_vars => PrunerInv'
<1> SUFFICES ASSUME PrunerInv, [Next]_vars PROVE PrunerInv'
  OBVIOUS
<1>1. CASE NodeAdvance
  <2>1. Reserve' = Reserve /\ Floor' = Floor
    BY <1>1 DEF NodeAdvance, Reserve, Floor
  <2>2. Floor \in Int /\ Reserve \in Nat
    BY ReserveBound, ConstantsAreNat DEF PrunerInv, TypeOK, Floor, None
  <2>3. tip' \in Nat /\ tip' > tip
    BY <1>1, ConstantsAreNat DEF NodeAdvance, PrunerInv, TypeOK
  <2>4. UNCHANGED <<head, past, request, pruned, restarts>>
    BY <1>1 DEF NodeAdvance
  <2>5. TypeOK'
    BY <2>3, <2>4 DEF PrunerInv, TypeOK
  <2>6. /\ head <= tip' /\ request \in Int /\ tip \in Int
        /\ request # None => request + Depth <= tip
    BY <2>3, ConstantsAreNat DEF PrunerInv, TypeOK, None
  <2>7. request # None => request + Depth <= tip'
    BY <2>3, <2>6, ConstantsAreNat
  <2> QED
    BY <2>1, <2>3, <2>4, <2>5, <2>6, <2>7 DEF PrunerInv
<1>2. CASE BlockAdded \/ BlockRemoved
  BY <1>2, HeadMovesInv
<1>3. CASE Tick
  BY <1>3, TickInv
<1>4. CASE PruneBlockchain
  BY <1>4, PruneBlockchainInv
<1>5. CASE Restart
  BY <1>5, RestartInv
<1>6. CASE UNCHANGED vars
  BY <1>6 DEF vars, PrunerInv, TypeOK, Floor, Reserve
<1> QED
  BY <1>1, <1>2, <1>3, <1>4, <1>5, <1>6 DEF Next

(* PrunerInv holds in every state the node, the syncer and Prune reach.           *)
THEOREM PrunerInvariance == Spec => []PrunerInv
BY PrunerInitInv, PrunerNextInv, PTL DEF Spec

(* Prune never makes bitcoind delete a block that the syncer still has to fetch.  *)
THEOREM NeededStaysServed == Spec => []NeededIsServed
<1>1. PrunerInv => NeededIsServed
  BY ConstantsAreNat DEF PrunerInv, TypeOK, Floor, None, NeededIsServed
<1> QED
  BY <1>1, PrunerInvariance, PTL

(* Every call of PruneBlockchain meets the conditions of bitcoind when it is made.*)
THEOREM RequestsAccepted == Spec => []RequestIsAcceptable
<1>1. PrunerInv => RequestIsAcceptable
  BY ConstantsAreNat DEF PrunerInv, TypeOK, None, RequestIsAcceptable
<1> QED
  BY <1>1, PrunerInvariance, PTL
================================================================================
