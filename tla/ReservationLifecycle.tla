------------------------ MODULE ReservationLifecycle ------------------------
(***************************************************************************)
(* What the reservation service promises about a rental request, whatever  *)
(* its handlers do in between: the request only moves along the edges of   *)
(* its life cycle, and two requests that want the same car at overlapping  *)
(* times are never both booked.  The detailed modules, with their reads,   *)
(* their stale snapshots and their guarded writes, implement this one.     *)
(***************************************************************************)
CONSTANTS Reservations,   \* rental requests
          Clashes         \* pairs <<r, q>> that want one car at overlapping times

VARIABLE status           \* Reservation.status of the database

Statuses ==
  {"DRAFT", "PENDING_REVIEW", "UNDER_REVIEW", "MORE_INFORMATION_REQUIRED",
   "ALTERNATIVE_OFFERED", "PRE_APPROVED", "CONFIRMED", "ACTIVE", "COMPLETED",
   "REJECTED", "CANCELLED", "EXPIRED", "NO_SHOW"}

\* The statuses whose booking occupies the car.
Live == {"CONFIRMED", "ACTIVE"}

\* What a member of staff or the customer may make of a request, confirmation
\* apart: that one depends on the other requests.
Edges ==
  {<<"DRAFT", "PENDING_REVIEW">>,
   <<"PENDING_REVIEW", "UNDER_REVIEW">>,
   <<"PENDING_REVIEW", "MORE_INFORMATION_REQUIRED">>,
   <<"UNDER_REVIEW", "MORE_INFORMATION_REQUIRED">>,
   <<"UNDER_REVIEW", "ALTERNATIVE_OFFERED">>,
   <<"UNDER_REVIEW", "PRE_APPROVED">>, <<"UNDER_REVIEW", "REJECTED">>,
   <<"MORE_INFORMATION_REQUIRED", "UNDER_REVIEW">>,
   <<"ALTERNATIVE_OFFERED", "UNDER_REVIEW">>,
   <<"CONFIRMED", "ACTIVE">>, <<"CONFIRMED", "CANCELLED">>,
   <<"CONFIRMED", "NO_SHOW">>, <<"ACTIVE", "COMPLETED">>}

\* What the passing of time makes of a request, or, of a draft, the customer
\* who abandons it.
Lapsed ==
  [s \in {"DRAFT", "ALTERNATIVE_OFFERED", "PRE_APPROVED"} |->
     IF s = "ALTERNATIVE_OFFERED" THEN "UNDER_REVIEW" ELSE "EXPIRED"]

Init == status \in [Reservations -> {"DRAFT", "PENDING_REVIEW", "UNDER_REVIEW"}]

Move(r) ==
  \E s \in Statuses :
     /\ <<status[r], s>> \in Edges
     /\ status' = [status EXCEPT ![r] = s]

Confirm(r) ==
  /\ status[r] = "PRE_APPROVED"
  /\ \A q \in Reservations : <<r, q>> \in Clashes => status[q] \notin Live
  /\ status' = [status EXCEPT ![r] = "CONFIRMED"]

\* One sweep may lapse many requests in one transaction.
Lapse(R) ==
  /\ \A r \in R : status[r] \in DOMAIN Lapsed
  /\ status' = [r \in Reservations |->
                  IF r \in R THEN Lapsed[status[r]] ELSE status[r]]

Next ==
  \/ \E r \in Reservations : Move(r) \/ Confirm(r)
  \/ \E R \in SUBSET Reservations : Lapse(R)

Spec == Init /\ [][Next]_status
=============================================================================
