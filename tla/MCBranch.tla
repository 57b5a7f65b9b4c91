------------------------------ MODULE MCBranch ------------------------------
(* Instances of BranchBookings for TLC.                                    *)
EXTENDS BranchControls, TLC

CONSTANTS r1, r2, r3, v1, s1, a1

\* Every request and every hold is about the one car.
OneCar == [r \in Reservations |-> v1]
HoldCar == [b \in Holds |-> v1]

\* r1 and r2 overlap, r2 and r3 overlap, and r3 follows r1 without a gap.
Pickup == [r \in Reservations |-> (r1 :> 0 @@ r2 :> 1 @@ r3 :> 2)[r]]
Return == [r \in Reservations |-> (r1 :> 2 @@ r2 :> 3 @@ r3 :> 3)[r]]

\* Every hold covers the second half of r1 and all of its successor r3.
HoldStart == [b \in Holds |-> 1]
HoldEnd == [b \in Holds |-> 3]

\* r1 is a salesman's, r3 an administrator's, and nobody has taken r2 on.
Assigned == [r \in Reservations |-> (r1 :> s1 @@ r2 :> None @@ r3 :> a1)[r]]

HandlerSymmetry == Permutations(Handlers)
=============================================================================
