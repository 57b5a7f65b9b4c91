--------------------------- MODULE BranchBookings ---------------------------
(***************************************************************************)
(* The branch half of a rental: a pre-approved request collects its signed *)
(* contract, attendance and deposit, is confirmed as a booking, and the    *)
(* car is delivered, returned and closed, while fleet administrators place *)
(* holds on cars and edit them, and the expiry sweep withdraws requests    *)
(* whose 48 hours have passed.                                             *)
(*                                                                         *)
(* PostgreSQL runs these handlers at READ COMMITTED.  A handler therefore  *)
(* takes two steps here: it reads and decides (Begin...), then it writes   *)
(* (Commit...).  Anything may happen in between, and the only protection   *)
(* of the write is what its own WHERE clause, a unique index or the        *)
(* exclusion constraint re-examines.  A guard that fails rolls the whole   *)
(* transaction back.                                                       *)
(*                                                                         *)
(* What a handler asks of the rows it reads is named apart (...Accepted),  *)
(* for the pages of BranchControls to be compared with.                    *)
(*                                                                         *)
(* A definition marked "Slip" is no part of the model: it is a plausible   *)
(* mistake in the definition after it, kept to show which property would   *)
(* catch it.                                                               *)
(***************************************************************************)
EXTENDS Integers, FiniteSets

CONSTANTS
  Reservations,   \* requests that sales may pre-approve
  Vehicles,
  Holds,          \* maintenance or manual holds administrators may ask for
  Handlers,       \* API requests in flight that work on a reservation
  Editors,        \* API requests in flight that edit a vehicle
  Receipts,       \* branch receipt numbers
  Keys,           \* storage keys of uploaded contracts
  None,           \* an absent value (SQL NULL)
  VehicleOf,      \* Reservation.vehicleId
  PickupAt,       \* Reservation.pickupAt
  ReturnAt,       \* Reservation.returnAt
  HoldOn,         \* VehicleBlock.vehicleId
  HoldFrom,       \* VehicleBlock.startsAt
  HoldTo,         \* VehicleBlock.endsAt
  Window,         \* the 48 hours a pre-approval lasts
  MaxTime         \* bound of the clock, in the same unit

Statuses == {"UNDER_REVIEW", "PRE_APPROVED", "CONFIRMED", "ACTIVE",
             "COMPLETED", "CANCELLED", "NO_SHOW", "EXPIRED"}
BookingStatuses == {"CONFIRMED", "ACTIVE", "COMPLETED", "CANCELLED", "NO_SHOW"}

ASSUME BranchAssumption ==
  /\ None \notin Receipts \cup Keys \cup Nat \cup BookingStatuses
  /\ VehicleOf \in [Reservations -> Vehicles]
  /\ PickupAt \in [Reservations -> Nat]
  /\ ReturnAt \in [Reservations -> Nat]
  /\ HoldOn \in [Holds -> Vehicles]
  /\ HoldFrom \in [Holds -> Nat]
  /\ HoldTo \in [Holds -> Nat]
  /\ Window \in Nat /\ MaxTime \in Nat

VARIABLES
  status,         \* Reservation.status
  expiresAt,      \* Reservation.preApprovalExpiresAt
  attended,       \* Reservation.branchAttendedAt is set
  deposit,        \* the receipt number of the request's Deposit row
  contract,       \* the storage key of the request's SIGNED Contract row
  booking,        \* Booking.status of the request's booking
  operations,     \* the types of the booking's BookingOperation rows
  vehicleStatus,  \* Vehicle.status
  listed,         \* Vehicle.active
  priced,         \* Vehicle.depositAmount is set, to more than nothing
  hold,           \* how far each hold has come
  tx,             \* what each reservation handler read and means to write
  edit,           \* what each vehicle edit read and means to write
  sweepAt,        \* the instant the running sweep took as now
  clock

requestVars == <<status, expiresAt, attended, deposit, contract>>
bookingVars == <<booking, operations>>
fleetVars   == <<vehicleStatus, listed, priced, hold>>
vars == <<status, expiresAt, attended, deposit, contract, booking, operations,
          vehicleStatus, listed, priced, hold, tx, edit, sweepAt, clock>>

OperationTypes == {"DELIVERY", "RETURN"}

\* AVAILABLE and INACTIVE follow Vehicle.active; RENTED belongs to the workflow.
Catalogued == {"AVAILABLE", "INACTIVE"}
VehicleStatuses == Catalogued \cup {"RENTED"}

\* A hold is not there; its overlap check passed; its row is there; its
\* removal was found to be allowed.
HoldStages == {"ABSENT", "CHECKED", "HELD", "REMOVING"}

Intents == {"CONTRACT", "CHECKLIST", "CONFIRM",
            "DELIVER", "RETURN", "COMPLETE", "CANCEL", "NO_SHOW"}

NoTx   == [intent |-> "NONE"]
NoEdit == [stage |-> "NONE"]

\* A handler on its way: what it will do, to which request, and the receipt
\* number or the contract key it carries.
Txs ==
  [intent : {"CONTRACT"}, res : Reservations, paper : Keys]
    \cup [intent : {"CHECKLIST"}, res : Reservations, paper : Receipts]
    \cup [intent : Intents \ {"CONTRACT", "CHECKLIST"}, res : Reservations, paper : {None}]

\* A vehicle edit on its way: whether it lists the car, and the status it read.
Edits ==
  [stage : {"ADMITTED"}, vehicle : Vehicles, list : BOOLEAN, was : {None}]
    \cup [stage : {"READ"}, vehicle : Vehicles, list : BOOLEAN, was : VehicleStatuses]
-----------------------------------------------------------------------------
\* Half-open periods, compared as the queries and the tsrange '[)' do.
Overlap(from1, to1, from2, to2) == from1 < to2 /\ to1 > from2

Live == {"CONFIRMED", "ACTIVE"}

\* A live booking of the request occupies the car in the period.
BookedBy(q, v, from, to) ==
  /\ booking[q] \in Live
  /\ VehicleOf[q] = v
  /\ Overlap(PickupAt[q], ReturnAt[q], from, to)

HasRow(h) == hold[h] \in {"HELD", "REMOVING"}

HeldBy(h, v, from, to) ==
  HasRow(h) /\ HoldOn[h] = v /\ Overlap(HoldFrom[h], HoldTo[h], from, to)

\* findBlockingConflict, and the two conflict queries of confirmBooking.
Conflict(v, from, to) ==
  \/ \E q \in Reservations : BookedBy(q, v, from, to)
  \/ \E h \in Holds : HeldBy(h, v, from, to)

\* (Slip: the migration with the constraint was never applied.)
ConstraintMissing(r) == TRUE

\* The exclusion constraint on Booking lets the request's booking in.
ConstraintAdmits(r) ==
  \A q \in Reservations \ {r} :
     ~ BookedBy(q, VehicleOf[r], PickupAt[r], ReturnAt[r])

\* (Slip: the receipt number is indexed but not unique.)
ReceiptNotUnique(r, receipt) == TRUE

\* The unique index on Deposit.receiptNumber.
ReceiptFree(r, receipt) == \A q \in Reservations \ {r} : deposit[q] # receipt

\* (Slip: the request is updated by its id alone.)
UpdatedById(r) == status[r] \in Statuses

\* The WHERE clause of the update that confirms a request.
StillPreApproved(r) == status[r] = "PRE_APPROVED"

WindowOpen(r) == expiresAt[r] # None /\ expiresAt[r] > clock

Begin(h, intent, r, paper) ==
  /\ tx[h] = NoTx
  /\ tx' = [tx EXCEPT ![h] = [intent |-> intent, res |-> r, paper |-> paper]]
  /\ UNCHANGED <<requestVars, bookingVars, fleetVars, edit, sweepAt, clock>>

Finish(h) == tx' = [tx EXCEPT ![h] = NoTx]

\* The write of transaction h finds its row changed, or a constraint refuses
\* it, or the connection is lost: nothing of it is kept.
Rollback(h) ==
  /\ tx[h] # NoTx
  /\ Finish(h)
  /\ UNCHANGED <<requestVars, bookingVars, fleetVars, edit, sweepAt, clock>>
-----------------------------------------------------------------------------
Init ==
  /\ status = [r \in Reservations |-> "UNDER_REVIEW"]
  /\ expiresAt = [r \in Reservations |-> None]
  /\ attended = [r \in Reservations |-> FALSE]
  /\ deposit = [r \in Reservations |-> None]
  /\ contract = [r \in Reservations |-> None]
  /\ booking = [r \in Reservations |-> None]
  /\ operations = [r \in Reservations |-> {}]
  /\ vehicleStatus = [v \in Vehicles |-> "AVAILABLE"]
  /\ listed = [v \in Vehicles |-> TRUE]
  /\ priced \in [Vehicles -> BOOLEAN]
  /\ hold = [h \in Holds |-> "ABSENT"]
  /\ tx = [h \in Handlers |-> NoTx]
  /\ edit = [e \in Editors |-> NoEdit]
  /\ sweepAt = None
  /\ clock = 0

\* decideSalesReview with PRE_APPROVE, whose own reads SalesReview models.  Only
\* windows that close by MaxTime are opened: the bound of the clock.
PreApprove(r) ==
  /\ status[r] = "UNDER_REVIEW"
  /\ clock + Window <= MaxTime
  /\ status' = [status EXCEPT ![r] = "PRE_APPROVED"]
  /\ expiresAt' = [expiresAt EXCEPT ![r] = clock + Window]
  /\ UNCHANGED <<attended, deposit, contract, bookingVars, fleetVars,
                 tx, edit, sweepAt, clock>>

ContractAccepted(r) == status[r] = "PRE_APPROVED" /\ WindowOpen(r) /\ contract[r] = None

BeginContract(h, r, key) == ContractAccepted(r) /\ Begin(h, "CONTRACT", r, key)

\* An upsert of contract version 1, with no condition on the request.
CommitContract(h) ==
  /\ tx[h].intent = "CONTRACT"
  /\ contract' = [contract EXCEPT ![tx[h].res] = tx[h].paper]
  /\ Finish(h)
  /\ UNCHANGED <<status, expiresAt, attended, deposit, bookingVars, fleetVars,
                 edit, sweepAt, clock>>

\* The deposit that is paid must be the one the car asks for.
ChecklistAccepted(r) ==
  /\ status[r] = "PRE_APPROVED" /\ WindowOpen(r)
  /\ priced[VehicleOf[r]]
  /\ contract[r] # None
  /\ ~ (deposit[r] # None /\ attended[r])

BeginChecklist(h, r, receipt) == ChecklistAccepted(r) /\ Begin(h, "CHECKLIST", r, receipt)

\* Deposit is upserted and the request updated by id alone; the unique index
\* on receiptNumber is the one thing that may refuse it.
CommitChecklist(h) ==
  LET r == tx[h].res IN
  /\ tx[h].intent = "CHECKLIST"
  /\ ReceiptFree(r, tx[h].paper)
  /\ deposit' = [deposit EXCEPT ![r] = tx[h].paper]
  /\ attended' = [attended EXCEPT ![r] = TRUE]
  /\ Finish(h)
  /\ UNCHANGED <<status, expiresAt, contract, bookingVars, fleetVars,
                 edit, sweepAt, clock>>

\* (Slip: a signed contract is taken for the whole of the paperwork.)
ConfirmAcceptedOnContract(r) ==
  /\ status[r] \in {"PRE_APPROVED", "CONFIRMED"}
  /\ booking[r] = None
  /\ WindowOpen(r)
  /\ contract[r] # None
  /\ ~ Conflict(VehicleOf[r], PickupAt[r], ReturnAt[r])

ConfirmAccepted(r) ==
  /\ status[r] \in {"PRE_APPROVED", "CONFIRMED"}
  /\ booking[r] = None
  /\ WindowOpen(r)
  /\ attended[r] /\ deposit[r] # None /\ contract[r] # None
  /\ ~ Conflict(VehicleOf[r], PickupAt[r], ReturnAt[r])

BeginConfirm(h, r) == ConfirmAccepted(r) /\ Begin(h, "CONFIRM", r, None)

\* (Slip: nobody looks at how many requests the guarded update changed.)
CommitConfirmUncounted(h) ==
  LET r == tx[h].res IN
  /\ tx[h].intent = "CONFIRM"
  /\ booking[r] = None
  /\ ConstraintAdmits(r)
  /\ status' = [status EXCEPT ![r] = IF StillPreApproved(r) THEN "CONFIRMED" ELSE @]
  /\ booking' = [booking EXCEPT ![r] = "CONFIRMED"]
  /\ Finish(h)
  /\ UNCHANGED <<expiresAt, attended, deposit, contract, operations, fleetVars,
                 edit, sweepAt, clock>>

CommitConfirm(h) ==
  LET r == tx[h].res IN
  /\ tx[h].intent = "CONFIRM"
  /\ StillPreApproved(r)
  /\ booking[r] = None
  /\ ConstraintAdmits(r)
  /\ status' = [status EXCEPT ![r] = "CONFIRMED"]
  /\ expiresAt' = [expiresAt EXCEPT ![r] = None]
  /\ booking' = [booking EXCEPT ![r] = "CONFIRMED"]
  /\ Finish(h)
  /\ UNCHANGED <<attended, deposit, contract, operations, fleetVars,
                 edit, sweepAt, clock>>
-----------------------------------------------------------------------------
(* recordBookingOperation: the five operations on a booking.               *)

\* The states of request and booking in which each operation is accepted.
Expected == [i \in {"DELIVER", "RETURN", "COMPLETE", "CANCEL", "NO_SHOW"} |->
               IF i \in {"RETURN", "COMPLETE"} THEN "ACTIVE" ELSE "CONFIRMED"]

In(r, s) == status[r] = s /\ booking[r] = s

DeliverAccepted(r) == In(r, Expected["DELIVER"]) /\ "DELIVERY" \notin operations[r]
ReturnAccepted(r) ==
  /\ In(r, Expected["RETURN"])
  /\ "DELIVERY" \in operations[r] /\ "RETURN" \notin operations[r]
CompleteAccepted(r) == In(r, Expected["COMPLETE"]) /\ "RETURN" \in operations[r]
CancelAccepted(r) == In(r, Expected["CANCEL"])
NoShowAccepted(r) == In(r, Expected["NO_SHOW"]) /\ clock >= PickupAt[r]

BeginDeliver(h, r) == DeliverAccepted(r) /\ Begin(h, "DELIVER", r, None)
BeginReturn(h, r) == ReturnAccepted(r) /\ Begin(h, "RETURN", r, None)
BeginComplete(h, r) == CompleteAccepted(r) /\ Begin(h, "COMPLETE", r, None)
BeginCancel(h, r) == CancelAccepted(r) /\ Begin(h, "CANCEL", r, None)
BeginNoShow(h, r) == NoShowAccepted(r) /\ Begin(h, "NO_SHOW", r, None)

\* (Slip: request and booking are updated by their ids alone.)
MoveBothById(h, i, next) ==
  LET r == tx[h].res IN
  /\ tx[h].intent = i
  /\ status' = [status EXCEPT ![r] = next]
  /\ booking' = [booking EXCEPT ![r] = next]
  /\ Finish(h)
  /\ UNCHANGED <<expiresAt, attended, deposit, contract, listed, priced, hold,
                 edit, sweepAt, clock>>

\* Both guarded updates of operation i: the request and its booking must still
\* be where the operation expects them, and both move to the next status.
MoveBoth(h, i, next) ==
  LET r == tx[h].res IN
  /\ tx[h].intent = i
  /\ In(r, Expected[i])
  /\ status' = [status EXCEPT ![r] = next]
  /\ booking' = [booking EXCEPT ![r] = next]
  /\ Finish(h)
  /\ UNCHANGED <<expiresAt, attended, deposit, contract, listed, priced, hold,
                 edit, sweepAt, clock>>

\* A BookingOperation row is added; (bookingId, type) is unique.
LogOperation(r, type) ==
  /\ type \notin operations[r]
  /\ operations' = [operations EXCEPT ![r] = @ \cup {type}]

\* (Slip: the car is marked RENTED whatever it was.)
AnyCar(v) == TRUE

\* CONFIRMED_BOOKING, the other status the query admits, is never written.
Deliverable(v) == vehicleStatus[v] = "AVAILABLE"

CommitDeliver(h) ==
  LET v == VehicleOf[tx[h].res] IN
  /\ MoveBoth(h, "DELIVER", "ACTIVE")
  /\ LogOperation(tx[h].res, "DELIVERY")
  /\ Deliverable(v)
  /\ vehicleStatus' = [vehicleStatus EXCEPT ![v] = "RENTED"]

\* (Slip: a return is given a status of its own.)
CommitReturned(h) ==
  /\ MoveBoth(h, "RETURN", "RETURNED")
  /\ LogOperation(tx[h].res, "RETURN")
  /\ UNCHANGED vehicleStatus

CommitReturn(h) ==
  /\ MoveBoth(h, "RETURN", "ACTIVE")
  /\ LogOperation(tx[h].res, "RETURN")
  /\ UNCHANGED vehicleStatus

CommitComplete(h) ==
  LET v == VehicleOf[tx[h].res] IN
  /\ MoveBoth(h, "COMPLETE", "COMPLETED")
  /\ vehicleStatus' = [vehicleStatus EXCEPT ![v] = IF @ = "RENTED" THEN "AVAILABLE" ELSE @]
  /\ UNCHANGED operations

CommitCancel(h) ==
  MoveBoth(h, "CANCEL", "CANCELLED") /\ UNCHANGED <<operations, vehicleStatus>>

CommitNoShow(h) ==
  MoveBoth(h, "NO_SHOW", "NO_SHOW") /\ UNCHANGED <<operations, vehicleStatus>>
-----------------------------------------------------------------------------
(* Fleet holds: the overlap check runs outside the transaction that writes. *)

HoldStep(b, from, to) ==
  /\ hold[b] = from
  /\ hold' = [hold EXCEPT ![b] = to]
  /\ UNCHANGED <<requestVars, bookingVars, vehicleStatus, listed, priced,
                 tx, edit, sweepAt, clock>>

CheckHold(b) ==
  /\ HoldFrom[b] >= clock
  /\ listed[HoldOn[b]]
  /\ ~ Conflict(HoldOn[b], HoldFrom[b], HoldTo[b])
  /\ HoldStep(b, "ABSENT", "CHECKED")

CreateHold(b) == HoldStep(b, "CHECKED", "HELD")

CheckRemoval(b) == HoldFrom[b] >= clock /\ HoldStep(b, "HELD", "REMOVING")

RemoveHold(b) == HoldStep(b, "REMOVING", "ABSENT")

\* The administrator's request is dropped between check and write.
DropHold(b) == HoldStep(b, "CHECKED", "ABSENT") \/ HoldStep(b, "REMOVING", "HELD")
-----------------------------------------------------------------------------
(* Vehicle edits: admitted by the service, then read and written back.     *)

EditStep == UNCHANGED <<requestVars, bookingVars, hold, tx, sweepAt, clock>>

\* The service refuses to take a car off the list while the workflow has it.
AdmitEdit(e, v, list) ==
  /\ edit[e] = NoEdit
  /\ list \/ vehicleStatus[v] \in Catalogued
  /\ edit' = [edit EXCEPT ![e] = [stage |-> "ADMITTED", vehicle |-> v,
                                  list |-> list, was |-> None]]
  /\ EditStep /\ UNCHANGED <<vehicleStatus, listed, priced>>

ReadVehicle(e) ==
  /\ edit[e].stage = "ADMITTED"
  /\ edit' = [edit EXCEPT ![e] = [@ EXCEPT !.stage = "READ",
                                          !.was = vehicleStatus[edit[e].vehicle]]]
  /\ EditStep /\ UNCHANGED <<vehicleStatus, listed, priced>>

\* The status an edit writes: the workflow's as it was read, or the catalogue's.
StatusToWrite(e) ==
  IF edit[e].was \notin Catalogued THEN edit[e].was
  ELSE IF edit[e].list THEN "AVAILABLE" ELSE "INACTIVE"

\* The write names no expected status: it puts back what was read.  The form may
\* set the deposit or leave it empty.
WriteVehicle(e) ==
  LET v == edit[e].vehicle IN
  /\ edit[e].stage = "READ"
  /\ vehicleStatus' = [vehicleStatus EXCEPT ![v] = StatusToWrite(e)]
  /\ listed' = [listed EXCEPT ![v] = edit[e].list]
  /\ \E p \in BOOLEAN : priced' = [priced EXCEPT ![v] = p]
  /\ edit' = [edit EXCEPT ![e] = NoEdit]
  /\ EditStep

DropEdit(e) ==
  /\ edit[e] # NoEdit
  /\ edit' = [edit EXCEPT ![e] = NoEdit]
  /\ EditStep /\ UNCHANGED <<vehicleStatus, listed, priced>>
-----------------------------------------------------------------------------
(* The expiry sweep: one at a time in a process, with now taken at its start. *)

\* (Slip: the sweep spares a customer who has been to the branch.)
DueUnlessAttended(r) ==
  /\ status[r] = "PRE_APPROVED" /\ ~ attended[r]
  /\ expiresAt[r] # None /\ expiresAt[r] <= sweepAt

Due(r) == status[r] = "PRE_APPROVED" /\ expiresAt[r] # None /\ expiresAt[r] <= sweepAt

SweepBegin ==
  /\ sweepAt = None
  /\ sweepAt' = clock
  /\ UNCHANGED <<requestVars, bookingVars, fleetVars, tx, edit, clock>>

SweepCommit ==
  /\ sweepAt # None
  /\ status' = [r \in Reservations |-> IF Due(r) THEN "EXPIRED" ELSE status[r]]
  /\ sweepAt' = None
  /\ UNCHANGED <<expiresAt, attended, deposit, contract, bookingVars, fleetVars,
                 tx, edit, clock>>

SweepFail ==
  /\ sweepAt # None
  /\ sweepAt' = None
  /\ UNCHANGED <<requestVars, bookingVars, fleetVars, tx, edit, clock>>

Tick ==
  /\ clock < MaxTime
  /\ clock' = clock + 1
  /\ UNCHANGED <<requestVars, bookingVars, fleetVars, tx, edit, sweepAt>>
-----------------------------------------------------------------------------
BeginAny(h, r) ==
  \/ \E key \in Keys : BeginContract(h, r, key)
  \/ \E receipt \in Receipts : BeginChecklist(h, r, receipt)
  \/ BeginConfirm(h, r)
  \/ BeginDeliver(h, r) \/ BeginReturn(h, r) \/ BeginComplete(h, r)
  \/ BeginCancel(h, r) \/ BeginNoShow(h, r)

CommitAny(h) ==
  \/ CommitContract(h) \/ CommitChecklist(h) \/ CommitConfirm(h)
  \/ CommitDeliver(h) \/ CommitReturn(h) \/ CommitComplete(h)
  \/ CommitCancel(h) \/ CommitNoShow(h)

Next ==
  \/ \E r \in Reservations : PreApprove(r)
  \/ \E h \in Handlers, r \in Reservations : BeginAny(h, r)
  \/ \E h \in Handlers : CommitAny(h) \/ Rollback(h)
  \/ \E b \in Holds : CheckHold(b) \/ CreateHold(b) \/ CheckRemoval(b)
                      \/ RemoveHold(b) \/ DropHold(b)
  \/ \E e \in Editors, v \in Vehicles, list \in BOOLEAN : AdmitEdit(e, v, list)
  \/ \E e \in Editors : ReadVehicle(e) \/ WriteVehicle(e) \/ DropEdit(e)
  \/ SweepBegin \/ SweepCommit \/ SweepFail
  \/ Tick

Spec == Init /\ [][Next]_vars

\* Time passes and the interval timer keeps starting sweeps, not every one of
\* which fails.  Nobody is obliged to send a request.
Fairness == WF_vars(Tick) /\ WF_vars(SweepBegin) /\ SF_vars(SweepCommit)

FairSpec == Spec /\ Fairness
-----------------------------------------------------------------------------
(* Properties.                                                             *)

\* Every variable keeps its type, over all the handlers above.
TypeOK ==
  /\ status \in [Reservations -> Statuses]
  /\ expiresAt \in [Reservations -> Nat \cup {None}]
  /\ attended \in [Reservations -> BOOLEAN]
  /\ deposit \in [Reservations -> Receipts \cup {None}]
  /\ contract \in [Reservations -> Keys \cup {None}]
  /\ booking \in [Reservations -> BookingStatuses \cup {None}]
  /\ operations \in [Reservations -> SUBSET OperationTypes]
  /\ vehicleStatus \in [Vehicles -> VehicleStatuses]
  /\ listed \in [Vehicles -> BOOLEAN]
  /\ priced \in [Vehicles -> BOOLEAN]
  /\ hold \in [Holds -> HoldStages]
  /\ tx \in [Handlers -> Txs \cup {NoTx}]
  /\ edit \in [Editors -> Edits \cup {NoEdit}]
  /\ sweepAt \in Nat \cup {None}
  /\ clock \in Nat

\* Two confirmed or active bookings of one car never overlap, although
\* confirmBooking looks for a conflict before, and not while, it writes.
NoDoubleBooking ==
  \A r, q \in Reservations :
    /\ r # q
    /\ booking[r] \in Live /\ booking[q] \in Live
    /\ VehicleOf[r] = VehicleOf[q]
    => ~ Overlap(PickupAt[r], ReturnAt[r], PickupAt[q], ReturnAt[q])

\* The request and its booking tell the customer one story: there is a booking
\* exactly when the request was confirmed, and the two rows that every
\* operation updates separately never part.
BookingAgrees ==
  \A r \in Reservations :
    IF status[r] \in BookingStatuses THEN booking[r] = status[r] ELSE booking[r] = None

\* No booking, and no confirmation on its way, without attendance, deposit and
\* signed contract, whatever is recorded, replaced or swept in between.
PaperworkBehindBooking ==
  \A r \in Reservations :
    \/ booking[r] # None
    \/ \E h \in Handlers : tx[h].intent = "CONFIRM" /\ tx[h].res = r
    => attended[r] /\ deposit[r] # None /\ contract[r] # None

\* A branch receipt pays for one request, even when two branches enter it at once.
ReceiptPaysOnce ==
  \A r, q \in Reservations : r # q /\ deposit[r] # None => deposit[r] # deposit[q]

\* Deliveries and returns are logged once, in order, the status of the booking
\* says what the log says, and no booking is being closed without its return.
CustodyLog ==
  \A r \in Reservations :
    /\ booking[r] = "ACTIVE" => "DELIVERY" \in operations[r]
    /\ booking[r] = "COMPLETED" => operations[r] = OperationTypes
    /\ booking[r] \notin {"ACTIVE", "COMPLETED"} => operations[r] = {}
    /\ \A h \in Handlers :
         tx[h].intent = "COMPLETE" /\ tx[h].res = r => operations[r] = OperationTypes

\* While nobody edits vehicles, a car is out with at most one customer and is
\* RENTED exactly while it is out: neither an early nor a late handover of the
\* next customer, nor two deliveries at once, puts it on the road twice.
OneCarOnTheRoad ==
  Editors = {} =>
    \A v \in Vehicles :
      /\ \A r, q \in Reservations :
           (VehicleOf[r] = v /\ VehicleOf[q] = v /\ booking[r] = "ACTIVE"
              /\ booking[q] = "ACTIVE") => r = q
      /\ vehicleStatus[v] = "RENTED" <=>
           \E r \in Reservations : VehicleOf[r] = v /\ booking[r] = "ACTIVE"

\* A car taken off the list by its status is off the list for the fleet too.
InactiveIsUnlisted ==
  \A v \in Vehicles : vehicleStatus[v] = "INACTIVE" => ~ listed[v]

\* The pairs of requests that one car cannot serve.
Competing ==
  {p \in Reservations \X Reservations :
     /\ p[1] # p[2] /\ VehicleOf[p[1]] = VehicleOf[p[2]]
     /\ Overlap(PickupAt[p[1]], ReturnAt[p[1]], PickupAt[p[2]], ReturnAt[p[2]])}

\* The request only moves along its life cycle, and a confirmation never takes
\* a car that a live booking has: this module implements ReservationLifecycle.
Lifecycle == INSTANCE ReservationLifecycle WITH Clashes <- Competing

ImplementsLifecycle == Lifecycle!Spec

\* A pre-approval does not wait for ever: it is confirmed, or swept once its
\* window has closed.
PreApprovalResolves ==
  \A r \in Reservations : status[r] = "PRE_APPROVED" ~> status[r] # "PRE_APPROVED"

(* What a document or a message of the code says and the code does not keep. *)

\* docs/IMPLEMENTATION_PLAN.md:372: a hold cannot overlap an existing block or
\* a confirmed or active booking.
HoldsKeepClear ==
  \A b \in Holds : HasRow(b) =>
    /\ \A c \in Holds \ {b} : ~ HeldBy(c, HoldOn[b], HoldFrom[b], HoldTo[b])
    /\ \A q \in Reservations : ~ BookedBy(q, HoldOn[b], HoldFrom[b], HoldTo[b])

\* docs/ARCHITECTURE.md:150: a vehicle update preserves any workflow-owned
\* status.  Only closing the booking that is out may end RENTED.
WorkflowStatusPreserved ==
  [][\A v \in Vehicles :
       vehicleStatus[v] = "RENTED" /\ vehicleStatus'[v] # "RENTED" =>
         \E r \in Reservations : VehicleOf[r] = v /\ booking'[r] # booking[r]]_vars
=============================================================================
