---------------------------- MODULE BranchControls ----------------------------
(***************************************************************************)
(* What the page of the sales team offers for a request from its           *)
(* pre-approval to its return, and what the customer's page shows of it,    *)
(* next to what the API accepts.  A page just loaded shows the request as   *)
(* it stands; which buttons it has is decided in the browser, while the     *)
(* handlers of BranchBookings decide for themselves.  Whoever presses a     *)
(* button has ticked, filled and chosen what the form beside it asks for.   *)
(***************************************************************************)
EXTENDS BranchBookings

CONSTANTS
  Staff,          \* the employees who have the page of the sales team
  Admins,         \* those whom assignment does not bind (canOverrideAssignment)
  Reviewer        \* Reservation.assignedSalesId, which stands from review on

ASSUME DeskAssumption ==
  /\ Admins \subseteq Staff /\ None \notin Staff
  /\ Reviewer \in [Reservations -> Staff \cup {None}]

\* (Slip: the contract alone makes the visit complete.)
CompleteOnContract(r) == contract[r] # None

\* branchRequirementsComplete
BranchRequirementsComplete(r) ==
  attended[r] /\ deposit[r] # None /\ contract[r] # None

\* A PDF is chosen, read and sent: one signed contract, and no second one.
ContractPanel(r) ==
  IF /\ status[r] = "PRE_APPROVED" /\ ~ BranchRequirementsComplete(r)
     /\ contract[r] = None
  THEN {"CONTRACT"} ELSE {}

\* Attendance and deposit are recorded together, after the contract, and only
\* where the page knows what the car asks for (expectedDepositEgp).
ChecklistPanel(r) ==
  IF /\ status[r] = "PRE_APPROVED" /\ ~ BranchRequirementsComplete(r)
     /\ contract[r] # None /\ priced[VehicleOf[r]]
  THEN {"CHECKLIST"} ELSE {}

ConfirmPanel(r) ==
  IF status[r] = "PRE_APPROVED" /\ BranchRequirementsComplete(r)
  THEN {"CONFIRM"} ELSE {}

PickupPanel(r) ==
  IF status[r] = "CONFIRMED" THEN {"DELIVER", "CANCEL", "NO_SHOW"} ELSE {}

\* returnOperation decides which of the two buttons a rented car has.
ReturnPanel(r) ==
  IF status[r] # "ACTIVE" THEN {}
  ELSE IF "RETURN" \in operations[r] THEN {"COMPLETE"} ELSE {"RETURN"}

Panels(r) ==
  ContractPanel(r) \cup ChecklistPanel(r) \cup ConfirmPanel(r)
    \cup PickupPanel(r) \cup ReturnPanel(r)

\* assignedToCurrentUser: an administrator too sees the panels of a request only
\* as its reviewer.
DeskControls(r, s) == IF Reviewer[r] = s THEN Panels(r) ELSE {}
-----------------------------------------------------------------------------
(* The customer's page: the steps it ticks off.                            *)

\* customer-branch-progress
BranchTicks(r) ==
  IF status[r] \in {"PRE_APPROVED"} \cup BookingStatuses
  THEN {c \in {"CONTRACT", "CHECKLIST", "CONFIRM"} :
          CASE c = "CONTRACT" -> contract[r] # None
            [] c = "CHECKLIST" -> attended[r] /\ deposit[r] # None
            [] c = "CONFIRM" -> booking[r] # None}
  ELSE {}

\* customer-rental-progress: the instants that the three operations leave.
RentalTicks(r) ==
  IF booking[r] # None /\ status[r] \in {"CONFIRMED", "ACTIVE", "COMPLETED"}
  THEN {c \in {"DELIVER", "RETURN", "COMPLETE"} :
          CASE c = "DELIVER" -> "DELIVERY" \in operations[r]
            [] c = "RETURN" -> "RETURN" \in operations[r]
            [] c = "COMPLETE" -> status[r] = "COMPLETED"}
  ELSE {}

Ticked(r) == BranchTicks(r) \cup RentalTicks(r)
-----------------------------------------------------------------------------
\* NOT_ASSIGNED, which every handler of the branch answers first.
MayWorkOn(s, r) == s \in Admins \/ Reviewer[r] = s

\* What the API does with a press of s, on the rows as the page showed them: who
\* it is, what the handler reads, and, for a delivery, the car it then writes.
Accepted(r, s, c) ==
  /\ MayWorkOn(s, r)
  /\ \/ c = "CONTRACT" /\ ContractAccepted(r)
     \/ c = "CHECKLIST" /\ ChecklistAccepted(r)
     \/ c = "CONFIRM" /\ ConfirmAccepted(r)
     \/ c = "DELIVER" /\ DeliverAccepted(r) /\ Deliverable(VehicleOf[r])
     \/ c = "RETURN" /\ ReturnAccepted(r)
     \/ c = "COMPLETE" /\ CompleteAccepted(r)
     \/ c = "CANCEL" /\ CancelAccepted(r)
     \/ c = "NO_SHOW" /\ NoShowAccepted(r)

\* What the page does not know: that the window closed before the sweep said
\* so, that the period is taken, that the car is still out or off the list, and
\* that it is too early to miss the customer.
ToldByTheApi(r, c) ==
  \/ c \in {"CONTRACT", "CHECKLIST", "CONFIRM"} /\ ~ WindowOpen(r)
  \/ c = "CONFIRM" /\ Conflict(VehicleOf[r], PickupAt[r], ReturnAt[r])
  \/ c = "DELIVER" /\ ~ Deliverable(VehicleOf[r])
  \/ c = "NO_SHOW" /\ clock < PickupAt[r]

\* The steps of a rental that ends well, in the order they are offered.
Steps == <<"CONTRACT", "CHECKLIST", "CONFIRM", "DELIVER", "RETURN", "COMPLETE">>

\* No deposit can be recorded for a car that asks for none: the request waits
\* until an administrator has set one.
Priceless(r, c) == c = "CHECKLIST" /\ ~ priced[VehicleOf[r]]

\* Whatever was recorded, confirmed, handed over, edited and swept at once, every
\* button an employee has is accepted, but for what only the API can tell; from
\* its pre-approval to its return a request with a reviewer has exactly one next
\* step, on the reviewer's page and on no other, unless its deposit is not set;
\* and the customer's page has ticked off the steps before it and no other, so
\* that neither page shows a half of an operation.
DeskServes ==
  \A r \in Reservations :
    /\ \A s \in Staff : \A c \in DeskControls(r, s) :
         ToldByTheApi(r, c) \/ Accepted(r, s, c)
    /\ status[r] \in {"PRE_APPROVED", "CONFIRMED", "ACTIVE"} =>
         \E n \in DOMAIN Steps :
           /\ \A i \in DOMAIN Steps, s \in Staff :
                Steps[i] \in DeskControls(r, s) <=>
                  i = n /\ s = Reviewer[r] /\ ~ Priceless(r, Steps[n])
           /\ Ticked(r) = {Steps[i] : i \in 1..(n - 1)}
=============================================================================
