------------------------------ MODULE MCSales -------------------------------
(* Instances of SalesReview for TLC.                                       *)
EXTENDS RequestControls, TLC

\* Handlers are interchangeable, and so are the sales employees.
ActorSymmetry == Permutations(Handlers) \cup Permutations(Sales)
=============================================================================
