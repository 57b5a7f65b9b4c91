----------------------- MODULE BranchBookings_proofs -----------------------
(***************************************************************************)
(* Proofs about BranchBookings and the pages of BranchControls, for any    *)
(* number of requests, cars, holds, handlers and editors and any periods.  *)
(***************************************************************************)
EXTENDS BranchControls, TLAPS

\* What a handler that only reads does, as a whole.
Opens(h, r, t) ==
  /\ tx[h] = NoTx
  /\ t.res = r
  /\ tx' = [tx EXCEPT ![h] = t]
  /\ UNCHANGED <<requestVars, bookingVars, fleetVars, edit, sweepAt, clock>>

\* The handlers that only read: each puts a well-formed transaction into tx.
LEMMA BeginOpens ==
  ASSUME NEW h \in Handlers, NEW r \in Reservations, BeginAny(h, r)
  PROVE  \E t \in Txs : Opens(h, r, t)
<1>1. ASSUME NEW key \in Keys, BeginContract(h, r, key) PROVE \E t \in Txs : Opens(h, r, t)
  <2> DEFINE t == [intent |-> "CONTRACT", res |-> r, paper |-> key]
  <2>1. t \in Txs
    BY DEF Txs
  <2>2. Opens(h, r, t)
    BY <1>1 DEF BeginContract, Begin, Opens
  <2> QED BY <2>1, <2>2
<1>2. ASSUME NEW receipt \in Receipts, BeginChecklist(h, r, receipt)
      PROVE  \E t \in Txs : Opens(h, r, t)
  <2> DEFINE t == [intent |-> "CHECKLIST", res |-> r, paper |-> receipt]
  <2>1. t \in Txs
    BY DEF Txs
  <2>2. Opens(h, r, t)
    BY <1>2 DEF BeginChecklist, Begin, Opens
  <2> QED BY <2>1, <2>2
<1>3. ASSUME NEW i \in Intents \ {"CONTRACT", "CHECKLIST"}, Begin(h, i, r, None)
      PROVE  \E t \in Txs : Opens(h, r, t)
  <2> DEFINE t == [intent |-> i, res |-> r, paper |-> None]
  <2>1. t \in Txs
    BY DEF Txs
  <2>2. Opens(h, r, t)
    BY <1>3 DEF Begin, Opens
  <2> QED BY <2>1, <2>2
<1>4. CASE BeginConfirm(h, r) \/ BeginDeliver(h, r) \/ BeginReturn(h, r)
             \/ BeginComplete(h, r) \/ BeginCancel(h, r) \/ BeginNoShow(h, r)
  <2>1. \E i \in Intents \ {"CONTRACT", "CHECKLIST"} : Begin(h, i, r, None)
    BY <1>4 DEF BeginConfirm, BeginDeliver, BeginReturn, BeginComplete, BeginCancel,
                BeginNoShow, Intents
  <2> QED BY <2>1, <1>3
<1> QED BY <1>1, <1>2, <1>4 DEF BeginAny

\* TypeOK: every variable keeps its type, over every handler of the module.
THEOREM TypeCorrect == Spec => []TypeOK
<1>1. Init => TypeOK
  BY BranchAssumption DEF Init, TypeOK, Statuses, BookingStatuses, VehicleStatuses,
     Catalogued, HoldStages
<1>2. TypeOK /\ [Next]_vars => TypeOK'
  <2> SUFFICES ASSUME TypeOK, [Next]_vars PROVE TypeOK'
    OBVIOUS
  <2> USE BranchAssumption
  <2>1. ASSUME NEW r \in Reservations, PreApprove(r) PROVE TypeOK'
    BY <2>1 DEF TypeOK, PreApprove, bookingVars, fleetVars, Statuses
  <2>2. ASSUME NEW h \in Handlers, NEW r \in Reservations, BeginAny(h, r)
        PROVE  TypeOK'
    <3>1. PICK t \in Txs : Opens(h, r, t)
      BY <2>2, BeginOpens
    <3> QED BY <3>1 DEF Opens, TypeOK, requestVars, bookingVars, fleetVars
  <2>3. ASSUME NEW h \in Handlers, CommitAny(h) \/ Rollback(h) PROVE TypeOK'
    <3> DEFINE t == tx[h]
    <3>1. t \in Txs \cup {NoTx} /\ tx \in [Handlers -> Txs \cup {NoTx}]
      BY DEF TypeOK
    <3>2. CASE CommitContract(h)
      <4>1. t.res \in Reservations /\ t.paper \in Keys
        BY <3>1, <3>2 DEF CommitContract, Txs, NoTx
      <4> QED BY <3>2, <4>1 DEF TypeOK, CommitContract, Finish, bookingVars, fleetVars
    <3>3. CASE CommitChecklist(h)
      <4>1. t.res \in Reservations /\ t.paper \in Receipts
        BY <3>1, <3>3 DEF CommitChecklist, Txs, NoTx
      <4> QED BY <3>3, <4>1 DEF TypeOK, CommitChecklist, Finish, bookingVars, fleetVars
    <3>4. CASE CommitConfirm(h)
      <4>1. t.res \in Reservations
        BY <3>1, <3>4 DEF CommitConfirm, Txs, NoTx
      <4> QED BY <3>4, <4>1 DEF TypeOK, CommitConfirm, Finish, fleetVars, Statuses,
                                BookingStatuses
    <3>5. CASE CommitDeliver(h)
      <4>1. t.res \in Reservations
        BY <3>1, <3>5 DEF CommitDeliver, MoveBoth, Txs, NoTx
      <4> QED BY <3>5, <4>1 DEF TypeOK, CommitDeliver, MoveBoth, LogOperation, Finish,
                Statuses, BookingStatuses, OperationTypes, VehicleStatuses
    <3>6. CASE CommitReturn(h)
      <4>1. t.res \in Reservations
        BY <3>1, <3>6 DEF CommitReturn, MoveBoth, Txs, NoTx
      <4> QED BY <3>6, <4>1 DEF TypeOK, CommitReturn, MoveBoth, LogOperation, Finish,
                Statuses, BookingStatuses, OperationTypes
    <3>7. CASE CommitComplete(h)
      <4>1. t.res \in Reservations
        BY <3>1, <3>7 DEF CommitComplete, MoveBoth, Txs, NoTx
      <4> QED BY <3>7, <4>1 DEF TypeOK, CommitComplete, MoveBoth, Finish,
                Statuses, BookingStatuses, VehicleStatuses, Catalogued
    <3>8. CASE CommitCancel(h) \/ CommitNoShow(h)
      <4>1. t.res \in Reservations
        BY <3>1, <3>8 DEF CommitCancel, CommitNoShow, MoveBoth, Txs, NoTx
      <4> QED BY <3>8, <4>1 DEF TypeOK, CommitCancel, CommitNoShow, MoveBoth, Finish,
                Statuses, BookingStatuses
    <3>9. CASE Rollback(h)
      BY <3>9 DEF TypeOK, Rollback, Finish, requestVars, bookingVars, fleetVars
    <3> QED BY <2>3, <3>2, <3>3, <3>4, <3>5, <3>6, <3>7, <3>8, <3>9 DEF CommitAny
  <2>4. ASSUME NEW b \in Holds,
               CheckHold(b) \/ CreateHold(b) \/ CheckRemoval(b) \/ RemoveHold(b) \/ DropHold(b)
        PROVE  TypeOK'
    BY <2>4 DEF TypeOK, CheckHold, CreateHold, CheckRemoval, RemoveHold, DropHold,
                HoldStep, HoldStages, requestVars, bookingVars
  <2>5. ASSUME NEW e \in Editors, NEW v \in Vehicles, NEW list \in BOOLEAN,
               AdmitEdit(e, v, list)
        PROVE  TypeOK'
    BY <2>5 DEF TypeOK, AdmitEdit, EditStep, Edits, requestVars, bookingVars
  <2>6. ASSUME NEW e \in Editors, ReadVehicle(e) \/ WriteVehicle(e) \/ DropEdit(e)
        PROVE  TypeOK'
    <3>1. edit[e] \in Edits \cup {NoEdit}
      BY DEF TypeOK
    <3>2. CASE ReadVehicle(e)
      <4> DEFINE x == edit[e]
                 y == [x EXCEPT !.stage = "READ", !.was = vehicleStatus[x.vehicle]]
      <4>1. x \in Edits
        BY <3>1, <3>2 DEF ReadVehicle, NoEdit
      <4>2. vehicleStatus[x.vehicle] \in VehicleStatuses
        BY <4>1 DEF TypeOK, Edits
      <4>3. y \in Edits
        BY <4>1, <4>2 DEF Edits
      <4>4. edit' = [edit EXCEPT ![e] = y]
        BY <3>2 DEF ReadVehicle
      <4> HIDE DEF y
      <4> QED BY <3>2, <4>3, <4>4 DEF TypeOK, ReadVehicle, EditStep, requestVars, bookingVars
    <3>3. CASE WriteVehicle(e)
      <4>1. edit[e].vehicle \in Vehicles /\ edit[e].list \in BOOLEAN
              /\ edit[e].was \in VehicleStatuses
        BY <3>1, <3>3 DEF WriteVehicle, NoEdit, Edits
      <4>2. StatusToWrite(e) \in VehicleStatuses
        BY <3>1, <4>1 DEF StatusToWrite, VehicleStatuses, Catalogued
      <4> QED BY <3>3, <4>1, <4>2 DEF TypeOK, WriteVehicle, EditStep, requestVars, bookingVars
    <3>4. CASE DropEdit(e)
      BY <3>4 DEF TypeOK, DropEdit, EditStep, requestVars, bookingVars
    <3> QED BY <2>6, <3>2, <3>3, <3>4
  <2>7. ASSUME SweepBegin \/ SweepCommit \/ SweepFail \/ Tick PROVE TypeOK'
    BY <2>7 DEF TypeOK, SweepBegin, SweepCommit, SweepFail, Tick, Statuses,
                requestVars, bookingVars, fleetVars
  <2>8. CASE UNCHANGED vars
    BY <2>8 DEF TypeOK, vars
  <2> QED BY <2>1, <2>2, <2>3, <2>4, <2>5, <2>6, <2>7, <2>8 DEF Next
<1> QED BY <1>1, <1>2, PTL DEF Spec
-----------------------------------------------------------------------------
(* Which steps touch requests and bookings.                                *)

\* A transaction on its way works on a request.
LEMMA TxType ==
  ASSUME TypeOK, NEW h \in Handlers, tx[h].intent \in Intents
  PROVE  tx[h] \in Txs /\ tx[h].res \in Reservations
<1>1. tx[h] \in Txs \cup {NoTx}
  BY DEF TypeOK
<1>2. tx[h] # NoTx
  BY DEF NoTx, Intents
<1> QED BY <1>1, <1>2 DEF Txs

\* A step that leaves requests and bookings alone, ends at most one transaction
\* and, with no editors, leaves the cars alone too.
Aside ==
  /\ UNCHANGED <<requestVars, bookingVars>>
  /\ UNCHANGED tx \/ \E h \in Handlers : Finish(h)
  /\ Editors = {} => UNCHANGED vehicleStatus

\* Apart from such steps there are the readers, the commits, and the two steps
\* that open and close the window of a pre-approval.
LEMMA StepCases ==
  ASSUME [Next]_vars
  PROVE  \/ \E r \in Reservations : PreApprove(r)
         \/ \E h \in Handlers, r \in Reservations : BeginAny(h, r)
         \/ \E h \in Handlers : CommitAny(h)
         \/ SweepCommit
         \/ Aside
<1>1. ASSUME NEW h \in Handlers, Rollback(h) PROVE Aside
  BY <1>1 DEF Aside, Rollback, fleetVars
<1>2. ASSUME NEW b \in Holds,
             CheckHold(b) \/ CreateHold(b) \/ CheckRemoval(b) \/ RemoveHold(b) \/ DropHold(b)
      PROVE  Aside
  BY <1>2 DEF Aside, CheckHold, CreateHold, CheckRemoval, RemoveHold, DropHold, HoldStep
<1>3. ASSUME NEW e \in Editors, NEW v \in Vehicles, NEW list \in BOOLEAN,
             AdmitEdit(e, v, list)
      PROVE  Aside
  BY <1>3 DEF Aside, AdmitEdit, EditStep
<1>4. ASSUME NEW e \in Editors, ReadVehicle(e) \/ WriteVehicle(e) \/ DropEdit(e)
      PROVE  Aside
  BY <1>4 DEF Aside, ReadVehicle, WriteVehicle, DropEdit, EditStep
<1>5. ASSUME SweepBegin \/ SweepFail \/ Tick PROVE Aside
  BY <1>5 DEF Aside, SweepBegin, SweepFail, Tick, fleetVars
<1>6. CASE UNCHANGED vars
  BY <1>6 DEF Aside, vars, requestVars, bookingVars
<1> QED BY <1>1, <1>2, <1>3, <1>4, <1>5, <1>6 DEF Next

\* The five operations move a live request and its booking together along an
\* edge of the life cycle, or, for the return, leave both where they are.
LEMMA Operations ==
  ASSUME TypeOK, NEW h \in Handlers,
         CommitDeliver(h) \/ CommitReturn(h) \/ CommitComplete(h)
           \/ CommitCancel(h) \/ CommitNoShow(h)
  PROVE  \E r \in Reservations, from \in Live, to \in BookingStatuses :
           /\ In(r, from) /\ <<from, to>> \in Lifecycle!Edges \cup {<<"ACTIVE", "ACTIVE">>}
           /\ status' = [status EXCEPT ![r] = to]
           /\ booking' = [booking EXCEPT ![r] = to]
           /\ UNCHANGED <<expiresAt, attended, deposit, contract>>
           /\ Finish(h)
<1> DEFINE r == tx[h].res
<1> USE DEF Expected, Live, BookingStatuses, Lifecycle!Edges
<1>1. CASE CommitDeliver(h)
  <2>1. r \in Reservations
    BY <1>1, TxType DEF CommitDeliver, MoveBoth, Intents
  <2>2. In(r, "CONFIRMED") /\ <<"CONFIRMED", "ACTIVE">> \in Lifecycle!Edges
    BY <1>1 DEF CommitDeliver, MoveBoth
  <2> QED BY <1>1, <2>1, <2>2 DEF CommitDeliver, MoveBoth
<1>2. CASE CommitReturn(h)
  <2>1. r \in Reservations
    BY <1>2, TxType DEF CommitReturn, MoveBoth, Intents
  <2>2. In(r, "ACTIVE")
    BY <1>2 DEF CommitReturn, MoveBoth
  <2> QED BY <1>2, <2>1, <2>2 DEF CommitReturn, MoveBoth
<1>3. CASE CommitComplete(h)
  <2>1. r \in Reservations
    BY <1>3, TxType DEF CommitComplete, MoveBoth, Intents
  <2>2. In(r, "ACTIVE") /\ <<"ACTIVE", "COMPLETED">> \in Lifecycle!Edges
    BY <1>3 DEF CommitComplete, MoveBoth
  <2> QED BY <1>3, <2>1, <2>2 DEF CommitComplete, MoveBoth
<1>4. CASE CommitCancel(h)
  <2>1. r \in Reservations
    BY <1>4, TxType DEF CommitCancel, MoveBoth, Intents
  <2>2. In(r, "CONFIRMED") /\ <<"CONFIRMED", "CANCELLED">> \in Lifecycle!Edges
    BY <1>4 DEF CommitCancel, MoveBoth
  <2> QED BY <1>4, <2>1, <2>2 DEF CommitCancel, MoveBoth
<1>5. CASE CommitNoShow(h)
  <2>1. r \in Reservations
    BY <1>5, TxType DEF CommitNoShow, MoveBoth, Intents
  <2>2. In(r, "CONFIRMED") /\ <<"CONFIRMED", "NO_SHOW">> \in Lifecycle!Edges
    BY <1>5 DEF CommitNoShow, MoveBoth
  <2> QED BY <1>5, <2>1, <2>2 DEF CommitNoShow, MoveBoth
<1> QED BY <1>1, <1>2, <1>3, <1>4, <1>5
-----------------------------------------------------------------------------
\* BookingAgrees: request and booking always tell the same story.
THEOREM BookingsAgree == Spec => []BookingAgrees
<1>1. Init => BookingAgrees
  BY DEF Init, BookingAgrees, BookingStatuses
<1>2. TypeOK /\ BookingAgrees /\ [Next]_vars => BookingAgrees'
  <2> SUFFICES ASSUME TypeOK, BookingAgrees, [Next]_vars PROVE BookingAgrees'
    OBVIOUS
  <2> USE DEF BookingAgrees, BookingStatuses
  <2>1. ASSUME NEW r \in Reservations, PreApprove(r) PROVE BookingAgrees'
    BY <2>1 DEF TypeOK, PreApprove, bookingVars
  <2>2. ASSUME NEW h \in Handlers, NEW r \in Reservations, BeginAny(h, r)
        PROVE  BookingAgrees'
    BY <2>2, BeginOpens DEF Opens, requestVars, bookingVars
  <2>3. ASSUME NEW h \in Handlers, CommitAny(h) PROVE BookingAgrees'
    <3>1. CASE CommitContract(h) \/ CommitChecklist(h)
      BY <3>1 DEF CommitContract, CommitChecklist, bookingVars
    <3>2. CASE CommitConfirm(h)
      BY <3>2 DEF TypeOK, CommitConfirm
    <3>3. CASE CommitDeliver(h) \/ CommitReturn(h) \/ CommitComplete(h)
                 \/ CommitCancel(h) \/ CommitNoShow(h)
      BY <3>3, Operations DEF TypeOK
    <3> QED BY <2>3, <3>1, <3>2, <3>3 DEF CommitAny
  <2>4. CASE SweepCommit
    BY <2>4 DEF TypeOK, SweepCommit, Due, bookingVars
  <2>5. CASE Aside
    BY <2>5 DEF Aside, requestVars, bookingVars
  <2> QED BY StepCases, <2>1, <2>2, <2>3, <2>4, <2>5
<1> QED BY <1>1, <1>2, TypeCorrect, PTL DEF Spec

\* The exclusion constraint keeps out a booking whose period meets a live one.
LEMMA ConfirmKeepsApart ==
  ASSUME TypeOK, NoDoubleBooking, NEW h \in Handlers, CommitConfirm(h)
  PROVE  NoDoubleBooking'
<1> DEFINE r == tx[h].res
<1>1. r \in Reservations
  BY TxType DEF CommitConfirm, Intents
<1>2. /\ booking' = [booking EXCEPT ![r] = "CONFIRMED"]
      /\ \A q \in Reservations \ {r} : booking'[q] = booking[q]
  BY <1>1 DEF CommitConfirm, TypeOK
<1>3. ASSUME NEW q \in Reservations \ {r}, booking[q] \in Live, VehicleOf[q] = VehicleOf[r]
      PROVE  /\ ~ Overlap(PickupAt[r], ReturnAt[r], PickupAt[q], ReturnAt[q])
             /\ ~ Overlap(PickupAt[q], ReturnAt[q], PickupAt[r], ReturnAt[r])
  <2>1. ~ Overlap(PickupAt[q], ReturnAt[q], PickupAt[r], ReturnAt[r])
    BY <1>3 DEF CommitConfirm, ConstraintAdmits, BookedBy
  <2>2. /\ PickupAt[r] \in Nat /\ ReturnAt[r] \in Nat
        /\ PickupAt[q] \in Nat /\ ReturnAt[q] \in Nat
    BY <1>1, BranchAssumption
  <2> QED BY <2>1, <2>2 DEF Overlap
<1> QED BY <1>1, <1>2, <1>3 DEF NoDoubleBooking

\* NoDoubleBooking: however reads and writes interleave, no two live bookings
\* of a car overlap.
THEOREM NeverDoubleBooked == Spec => []NoDoubleBooking
<1>1. Init => NoDoubleBooking
  <2> SUFFICES ASSUME Init, NEW r \in Reservations, booking[r] \in Live PROVE FALSE
    BY DEF NoDoubleBooking
  <2>1. booking[r] = None
    BY DEF Init
  <2> QED BY <2>1, BranchAssumption DEF Live, BookingStatuses
<1>2. TypeOK /\ NoDoubleBooking /\ [Next]_vars => NoDoubleBooking'
  <2> SUFFICES ASSUME TypeOK, NoDoubleBooking, [Next]_vars PROVE NoDoubleBooking'
    OBVIOUS
  <2>1. CASE UNCHANGED booking
    BY <2>1 DEF NoDoubleBooking
  <2>2. ASSUME NEW h \in Handlers, CommitAny(h) PROVE NoDoubleBooking'
    <3>1. CASE CommitConfirm(h)
      BY <3>1, ConfirmKeepsApart
    <3>2. CASE CommitDeliver(h) \/ CommitReturn(h) \/ CommitComplete(h)
                 \/ CommitCancel(h) \/ CommitNoShow(h)
      <4>1. PICK r \in Reservations, from \in Live, to \in BookingStatuses :
              In(r, from) /\ booking' = [booking EXCEPT ![r] = to]
        BY <3>2, Operations
      <4>2. \A q \in Reservations : booking'[q] \in Live => booking[q] \in Live
        BY <4>1 DEF In, TypeOK
      <4> QED BY <4>2 DEF NoDoubleBooking
    <3> QED BY <2>1, <2>2, <3>1, <3>2
            DEF CommitAny, CommitContract, CommitChecklist, bookingVars
  <2> QED BY StepCases, BeginOpens, <2>1, <2>2
          DEF Opens, PreApprove, SweepCommit, Aside, bookingVars
<1> QED BY <1>1, <1>2, TypeCorrect, PTL DEF Spec
-----------------------------------------------------------------------------
\* What a confirmation on its way found stays recorded: the branch rows are
\* written over, never taken away.
Papers(r) == attended[r] /\ deposit[r] # None /\ contract[r] # None

LEMMA PapersStay ==
  ASSUME TypeOK, [Next]_vars, NEW r \in Reservations, Papers(r)
  PROVE  Papers(r)'
<1>1. ASSUME NEW h \in Handlers, CommitAny(h) PROVE Papers(r)'
  <2>1. CASE CommitContract(h)
    <3>1. tx[h].paper \in Keys
      BY <2>1, TxType DEF CommitContract, Intents, Txs
    <3> QED BY <2>1, <3>1, BranchAssumption DEF CommitContract, Papers, TypeOK
  <2>2. CASE CommitChecklist(h)
    <3>1. tx[h].paper \in Receipts
      BY <2>2, TxType DEF CommitChecklist, Intents, Txs
    <3> QED BY <2>2, <3>1, BranchAssumption DEF CommitChecklist, Papers, TypeOK
  <2>3. CASE CommitConfirm(h)
    BY <2>3 DEF CommitConfirm, Papers
  <2>4. CASE CommitDeliver(h) \/ CommitReturn(h) \/ CommitComplete(h)
               \/ CommitCancel(h) \/ CommitNoShow(h)
    BY <2>4, Operations DEF Papers
  <2> QED BY <1>1, <2>1, <2>2, <2>3, <2>4 DEF CommitAny
<1> QED BY StepCases, BeginOpens, <1>1
        DEF Papers, PreApprove, Opens, SweepCommit, Aside, requestVars

\* A transaction that is there after a step was there before, or a reader has
\* just opened it.
LEMMA TxOrigin ==
  ASSUME TypeOK, [Next]_vars, NEW h \in Handlers, tx'[h].intent \in Intents
  PROVE  tx'[h] = tx[h] \/ \E r \in Reservations : BeginAny(h, r) /\ tx'[h].res = r
<1>1. ASSUME NEW g \in Handlers, NEW r \in Reservations, BeginAny(g, r)
      PROVE  tx'[h] = tx[h] \/ (g = h /\ tx'[h].res = r)
  BY <1>1, BeginOpens DEF Opens, TypeOK
<1>2. ASSUME NEW g \in Handlers, Finish(g) PROVE tx'[h] = tx[h]
  BY <1>2 DEF Finish, NoTx, Intents, TypeOK
<1>3. ASSUME NEW g \in Handlers, CommitAny(g) PROVE Finish(g)
  BY <1>3 DEF CommitAny, CommitContract, CommitChecklist, CommitConfirm, CommitDeliver,
     CommitReturn, CommitComplete, CommitCancel, CommitNoShow, MoveBoth
<1> QED BY StepCases, <1>1, <1>2, <1>3 DEF PreApprove, SweepCommit, Aside

\* Only the confirmation makes a booking where there was none.
LEMMA BookingOrigin ==
  ASSUME TypeOK, [Next]_vars, NEW r \in Reservations, booking[r] = None, booking'[r] # None
  PROVE  \E h \in Handlers : CommitConfirm(h) /\ tx[h].res = r
<1>1. ASSUME NEW h \in Handlers, CommitAny(h)
      PROVE  CommitConfirm(h) /\ tx[h].res = r
  <2>1. CASE CommitContract(h) \/ CommitChecklist(h)
    BY <2>1 DEF CommitContract, CommitChecklist, bookingVars
  <2>2. CASE CommitConfirm(h)
    BY <2>2, TxType DEF CommitConfirm, TypeOK
  <2>3. CASE CommitDeliver(h) \/ CommitReturn(h) \/ CommitComplete(h)
               \/ CommitCancel(h) \/ CommitNoShow(h)
    BY <2>3, Operations, BranchAssumption DEF In, Live, BookingStatuses, TypeOK
  <2> QED BY <1>1, <2>1, <2>2, <2>3 DEF CommitAny
<1> QED BY StepCases, BeginOpens, <1>1
        DEF Opens, PreApprove, SweepCommit, Aside, bookingVars

\* PaperworkBehindBooking: attendance, deposit and contract stand behind every
\* booking, and behind every confirmation on its way.
THEOREM PaperworkStands == Spec => []PaperworkBehindBooking
<1>1. Init => PaperworkBehindBooking
  BY DEF Init, PaperworkBehindBooking, NoTx
<1>2. TypeOK /\ PaperworkBehindBooking /\ [Next]_vars => PaperworkBehindBooking'
  <2> SUFFICES ASSUME TypeOK, PaperworkBehindBooking, [Next]_vars, NEW r \in Reservations,
                      booking'[r] # None \/ \E h \in Handlers :
                        tx'[h].intent = "CONFIRM" /\ tx'[h].res = r
               PROVE  Papers(r)'
    BY DEF PaperworkBehindBooking, Papers
  <2>1. CASE booking[r] # None
    BY <2>1, PapersStay DEF PaperworkBehindBooking, Papers
  <2>2. CASE booking[r] = None /\ booking'[r] # None
    <3>1. PICK h \in Handlers : CommitConfirm(h) /\ tx[h].res = r
      BY <2>2, BookingOrigin
    <3>2. Papers(r)
      BY <3>1 DEF CommitConfirm, PaperworkBehindBooking, Papers
    <3> QED BY <3>2, PapersStay
  <2>3. ASSUME NEW h \in Handlers, tx'[h].intent = "CONFIRM", tx'[h].res = r
        PROVE  Papers(r)'
    <3>1. CASE tx'[h] = tx[h]
      BY <2>3, <3>1, PapersStay DEF PaperworkBehindBooking, Papers
    <3>2. CASE BeginAny(h, r)
      <4>1. BeginConfirm(h, r)
        BY <2>3, <3>2 DEF BeginAny, BeginContract, BeginChecklist, BeginDeliver, BeginReturn,
           BeginComplete, BeginCancel, BeginNoShow, Begin, TypeOK
      <4> QED BY <4>1, PapersStay DEF BeginConfirm, ConfirmAccepted, Papers
    <3> QED BY <2>3, <3>1, <3>2, TxOrigin DEF Intents
  <2> QED BY <2>1, <2>2, <2>3
<1> QED BY <1>1, <1>2, TypeCorrect, PTL DEF Spec

\* ReceiptPaysOnce: the unique index keeps a receipt with one request.
THEOREM ReceiptsStayApart == Spec => []ReceiptPaysOnce
<1>1. Init => ReceiptPaysOnce
  BY DEF Init, ReceiptPaysOnce
<1>2. TypeOK /\ ReceiptPaysOnce /\ [Next]_vars => ReceiptPaysOnce'
  <2> SUFFICES ASSUME TypeOK, ReceiptPaysOnce, [Next]_vars PROVE ReceiptPaysOnce'
    OBVIOUS
  <2>1. CASE UNCHANGED deposit
    BY <2>1 DEF ReceiptPaysOnce
  <2>2. ASSUME NEW h \in Handlers, CommitAny(h) PROVE ReceiptPaysOnce'
    <3>1. CASE CommitChecklist(h)
      <4>1. tx[h].res \in Reservations
        BY <3>1, TxType DEF CommitChecklist, Intents
      <4> QED BY <3>1, <4>1 DEF CommitChecklist, ReceiptFree, ReceiptPaysOnce, TypeOK
    <3>2. CASE CommitDeliver(h) \/ CommitReturn(h) \/ CommitComplete(h)
                 \/ CommitCancel(h) \/ CommitNoShow(h)
      BY <2>1, <3>2, Operations
    <3> QED BY <2>1, <2>2, <3>1, <3>2 DEF CommitAny, CommitContract, CommitConfirm
  <2> QED BY StepCases, BeginOpens, <2>1, <2>2
          DEF Opens, PreApprove, SweepCommit, Aside, requestVars
<1> QED BY <1>1, <1>2, TypeCorrect, PTL DEF Spec
-----------------------------------------------------------------------------
\* CustodyLog: the log of deliveries and returns and the status of the booking
\* never contradict each other.
THEOREM CustodyIsLogged == Spec => []CustodyLog
<1> USE DEF OperationTypes
<1>1. Init => CustodyLog
  BY BranchAssumption DEF Init, CustodyLog, NoTx, BookingStatuses
<1>2. TypeOK /\ CustodyLog /\ [Next]_vars => CustodyLog'
  <2> SUFFICES ASSUME TypeOK, CustodyLog, [Next]_vars PROVE CustodyLog'
    OBVIOUS
  <2> DEFINE Closing(h, r) == tx[h].intent = "COMPLETE" /\ tx[h].res = r
             Closed(r) == operations[r] = OperationTypes
  <2>1. ASSUME NEW h \in Handlers, NEW r \in Reservations, Closing(h, r)'
        PROVE  Closed(r)
    <3>1. CASE tx'[h] = tx[h]
      BY <2>1, <3>1 DEF CustodyLog
    <3>2. CASE BeginAny(h, r)
      <4>1. BeginComplete(h, r)
        BY <2>1, <3>2 DEF BeginAny, BeginContract, BeginChecklist, BeginConfirm, BeginDeliver,
           BeginReturn, BeginCancel, BeginNoShow, Begin, TypeOK
      <4>2. booking[r] = "ACTIVE" /\ "RETURN" \in operations[r]
        BY <4>1 DEF BeginComplete, CompleteAccepted, In, Expected
      <4> QED BY <4>2 DEF CustodyLog, TypeOK
    <3> QED BY <2>1, <3>1, <3>2, TxOrigin DEF Intents
  <2> DEFINE Story(r) == /\ booking[r] = "ACTIVE" => "DELIVERY" \in operations[r]
                         /\ booking[r] = "COMPLETED" => Closed(r)
                         /\ booking[r] \notin {"ACTIVE", "COMPLETED"} => operations[r] = {}
  <2>2. CASE UNCHANGED bookingVars
    BY <2>1, <2>2 DEF CustodyLog, bookingVars
  <2>3. ASSUME NEW h \in Handlers, CommitAny(h) PROVE CustodyLog'
    <3> DEFINE r == tx[h].res
    <3>0. SUFFICES ASSUME NEW q \in Reservations PROVE Story(q)' /\ (Closed(q) => Closed(q)')
      BY <2>1 DEF CustodyLog
    <3>1. Story(q)
      BY DEF CustodyLog
    <3>2. operations[q] \in SUBSET OperationTypes
      BY DEF TypeOK
    <3>3. ASSUME NEW s \in BookingStatuses, booking' = [booking EXCEPT ![r] = s],
                 UNCHANGED operations, q = r => (Story(q)' /\ (Closed(q) => Closed(q)'))
          PROVE  Story(q)' /\ (Closed(q) => Closed(q)')
      <4>1. CASE q # r
        <5>1. booking'[q] = booking[q] /\ operations'[q] = operations[q]
          BY <3>3, <4>1 DEF TypeOK
        <5> QED BY <3>1, <5>1
      <4> QED BY <3>3, <4>1
    <3>4. ASSUME NEW s \in BookingStatuses, NEW type \in OperationTypes,
                 booking' = [booking EXCEPT ![r] = s],
                 operations' = [operations EXCEPT ![r] = @ \cup {type}],
                 s = "ACTIVE", type = "DELIVERY" \/ "DELIVERY" \in operations[r]
          PROVE  Story(q)' /\ (Closed(q) => Closed(q)')
      <4>1. CASE q # r
        <5>1. booking'[q] = booking[q] /\ operations'[q] = operations[q]
          BY <3>4, <4>1 DEF TypeOK
        <5> QED BY <3>1, <5>1
      <4>2. CASE q = r
        <5>1. booking'[q] = "ACTIVE" /\ operations'[q] = operations[q] \cup {type}
          BY <3>4, <4>2 DEF TypeOK
        <5> QED BY <3>2, <3>4, <4>2, <5>1
      <4> QED BY <4>1, <4>2
    <3>5. CASE CommitConfirm(h)
      <4>1. r \in Reservations
        BY <3>5, TxType DEF CommitConfirm, Intents
      <4>2. /\ booking[r] = None /\ UNCHANGED operations
            /\ booking' = [booking EXCEPT ![r] = "CONFIRMED"]
        BY <3>5 DEF CommitConfirm
      <4>3. operations[r] = {}
        BY <4>1, <4>2, BranchAssumption DEF CustodyLog, BookingStatuses
      <4>4. booking'[r] = "CONFIRMED"
        BY <4>1, <4>2 DEF TypeOK
      <4> QED BY <3>3, <4>2, <4>3, <4>4 DEF BookingStatuses
    <3>6. CASE CommitDeliver(h)
      <4>1. /\ booking' = [booking EXCEPT ![r] = "ACTIVE"]
            /\ operations' = [operations EXCEPT ![r] = @ \cup {"DELIVERY"}]
        BY <3>6 DEF CommitDeliver, MoveBoth, LogOperation
      <4> QED BY <3>4, <4>1 DEF BookingStatuses
    <3>7. CASE CommitReturn(h)
      <4>1. r \in Reservations /\ booking[r] = "ACTIVE"
        BY <3>7, TxType DEF CommitReturn, MoveBoth, Intents, In, Expected
      <4>2. /\ booking' = [booking EXCEPT ![r] = "ACTIVE"]
            /\ operations' = [operations EXCEPT ![r] = @ \cup {"RETURN"}]
        BY <3>7 DEF CommitReturn, MoveBoth, LogOperation
      <4>3. "DELIVERY" \in operations[r]
        BY <4>1 DEF CustodyLog
      <4> QED BY <3>4, <4>2, <4>3 DEF BookingStatuses
    <3>8. CASE CommitComplete(h)
      <4>1. r \in Reservations /\ Closed(r)
        BY <3>8, TxType DEF CommitComplete, MoveBoth, Intents, CustodyLog
      <4>2. booking' = [booking EXCEPT ![r] = "COMPLETED"] /\ UNCHANGED operations
        BY <3>8 DEF CommitComplete, MoveBoth
      <4>3. booking'[r] = "COMPLETED"
        BY <4>1, <4>2 DEF TypeOK
      <4> QED BY <3>3, <4>1, <4>2, <4>3 DEF BookingStatuses
    <3>9. CASE CommitCancel(h) \/ CommitNoShow(h)
      <4>1. r \in Reservations /\ booking[r] = "CONFIRMED"
        BY <3>9, TxType DEF CommitCancel, CommitNoShow, MoveBoth, Intents, In, Expected
      <4>2. UNCHANGED operations /\ operations[r] = {}
        BY <3>9, <4>1 DEF CommitCancel, CommitNoShow, CustodyLog
      <4>3. PICK s \in {"CANCELLED", "NO_SHOW"} : booking' = [booking EXCEPT ![r] = s]
        BY <3>9 DEF CommitCancel, CommitNoShow, MoveBoth
      <4>4. booking'[r] = s
        BY <4>1, <4>3 DEF TypeOK
      <4> QED BY <3>3, <4>2, <4>3, <4>4 DEF BookingStatuses
    <3>10. CASE CommitContract(h) \/ CommitChecklist(h)
      BY <3>1, <3>10 DEF CommitContract, CommitChecklist, bookingVars
    <3> QED BY <2>3, <3>5, <3>6, <3>7, <3>8, <3>9, <3>10 DEF CommitAny
  <2> QED BY StepCases, BeginOpens, <2>2, <2>3
          DEF Opens, PreApprove, SweepCommit, Aside
<1> QED BY <1>1, <1>2, TypeCorrect, PTL DEF Spec

\* OneCarOnTheRoad: while nobody edits vehicles, a car is RENTED exactly while
\* one customer, and only one, has it.
THEOREM OneCustomerPerCar == Spec => []OneCarOnTheRoad
<1> DEFINE Out(r, v) == VehicleOf[r] = v /\ booking[r] = "ACTIVE"
<1>1. Init => OneCarOnTheRoad
  BY BranchAssumption DEF Init, OneCarOnTheRoad, BookingStatuses
<1>2. TypeOK /\ OneCarOnTheRoad /\ [Next]_vars => OneCarOnTheRoad'
  <2> SUFFICES ASSUME TypeOK, OneCarOnTheRoad, [Next]_vars, Editors = {}
               PROVE  OneCarOnTheRoad'
    BY DEF OneCarOnTheRoad
  <2>1. CASE UNCHANGED <<booking, vehicleStatus>>
    BY <2>1 DEF OneCarOnTheRoad
  <2>2. ASSUME NEW r \in Reservations, NEW s \in {"CONFIRMED", "CANCELLED", "NO_SHOW", "ACTIVE"},
               booking' = [booking EXCEPT ![r] = s], UNCHANGED vehicleStatus,
               s = "ACTIVE" <=> booking[r] = "ACTIVE"
        PROVE  OneCarOnTheRoad'
    <3>1. \A q \in Reservations : booking'[q] = "ACTIVE" <=> booking[q] = "ACTIVE"
      BY <2>2 DEF TypeOK
    <3> QED BY <2>2, <3>1 DEF OneCarOnTheRoad
  <2>3. ASSUME NEW h \in Handlers, CommitAny(h) PROVE OneCarOnTheRoad'
    <3> DEFINE r == tx[h].res
               v == VehicleOf[r]
    <3>1. CASE CommitConfirm(h)
      <4>1. r \in Reservations
        BY <3>1, TxType DEF CommitConfirm, Intents
      <4> QED BY <2>2, <3>1, <4>1, BranchAssumption
              DEF CommitConfirm, fleetVars, BookingStatuses
    <3>2. CASE CommitDeliver(h)
      <4>1. r \in Reservations /\ v \in Vehicles
        BY <3>2, TxType, BranchAssumption DEF CommitDeliver, MoveBoth, Intents
      <4>2. /\ booking' = [booking EXCEPT ![r] = "ACTIVE"]
            /\ vehicleStatus' = [vehicleStatus EXCEPT ![v] = "RENTED"]
            /\ vehicleStatus[v] = "AVAILABLE"
        BY <3>2 DEF CommitDeliver, MoveBoth, Deliverable
      <4>3. \A q \in Reservations : ~ Out(q, v)
        BY <4>1, <4>2 DEF OneCarOnTheRoad
      <4> QED BY <4>1, <4>2, <4>3 DEF OneCarOnTheRoad, TypeOK
    <3>3. CASE CommitReturn(h)
      <4>1. r \in Reservations /\ booking[r] = "ACTIVE"
        BY <3>3, TxType DEF CommitReturn, MoveBoth, Intents, In, Expected
      <4> QED BY <2>2, <3>3, <4>1 DEF CommitReturn, MoveBoth
    <3>4. CASE CommitComplete(h)
      <4>1. r \in Reservations /\ v \in Vehicles /\ booking[r] = "ACTIVE"
        BY <3>4, TxType, BranchAssumption
           DEF CommitComplete, MoveBoth, Intents, In, Expected
      <4>2. vehicleStatus[v] = "RENTED" /\ \A q \in Reservations : Out(q, v) => q = r
        BY <4>1 DEF OneCarOnTheRoad
      <4>3. /\ booking' = [booking EXCEPT ![r] = "COMPLETED"]
            /\ vehicleStatus' = [vehicleStatus EXCEPT ![v] = "AVAILABLE"]
        BY <3>4, <4>2 DEF CommitComplete, MoveBoth
      <4> QED BY <4>1, <4>2, <4>3 DEF OneCarOnTheRoad, TypeOK
    <3>5. CASE CommitCancel(h) \/ CommitNoShow(h)
      <4>1. r \in Reservations /\ booking[r] = "CONFIRMED"
        BY <3>5, TxType DEF CommitCancel, CommitNoShow, MoveBoth, Intents, In, Expected
      <4> QED BY <2>2, <3>5, <4>1 DEF CommitCancel, CommitNoShow, MoveBoth
    <3> QED BY <2>1, <2>3, <3>1, <3>2, <3>3, <3>4, <3>5
            DEF CommitAny, CommitContract, CommitChecklist, bookingVars, fleetVars
  <2> QED BY StepCases, BeginOpens, <2>1, <2>3
          DEF Opens, PreApprove, SweepCommit, Aside, bookingVars, fleetVars
<1> QED BY <1>1, <1>2, TypeCorrect, PTL DEF Spec

\* ImplementsLifecycle: every step of the handlers is a step of the abstract
\* life cycle of the requests, or leaves all of them where they are.
THEOREM LifecycleImplemented == Spec => ImplementsLifecycle
<1>1. Init => Lifecycle!Init
  BY DEF Init, Lifecycle!Init
<1>2. TypeOK /\ BookingAgrees /\ [Next]_vars => [Lifecycle!Next]_status
  <2> SUFFICES ASSUME TypeOK, BookingAgrees, [Next]_vars, status' # status
               PROVE  Lifecycle!Next
    OBVIOUS
  <2>1. ASSUME NEW r \in Reservations, PreApprove(r) PROVE Lifecycle!Next
    <3>1. Lifecycle!Move(r)
      BY <2>1 DEF PreApprove, Lifecycle!Move, Lifecycle!Edges, Lifecycle!Statuses
    <3> QED BY <3>1 DEF Lifecycle!Next
  <2>2. ASSUME NEW h \in Handlers, CommitAny(h) PROVE Lifecycle!Next
    <3>1. CASE CommitConfirm(h)
      <4> DEFINE r == tx[h].res
      <4>1. r \in Reservations
        BY <3>1, TxType DEF CommitConfirm, Intents
      <4>2. ASSUME NEW q \in Reservations, <<r, q>> \in Competing
            PROVE  status[q] \notin Lifecycle!Live
        <5>1. ~ BookedBy(q, VehicleOf[r], PickupAt[r], ReturnAt[r])
          BY <3>1, <4>2 DEF CommitConfirm, ConstraintAdmits, Competing
        <5>2. /\ PickupAt[r] \in Nat /\ ReturnAt[r] \in Nat
              /\ PickupAt[q] \in Nat /\ ReturnAt[q] \in Nat
          BY <4>1, BranchAssumption
        <5>3. booking[q] \notin Live
          BY <4>2, <5>1, <5>2 DEF BookedBy, Overlap, Competing
        <5> QED BY <5>3 DEF BookingAgrees, BookingStatuses, Live, Lifecycle!Live
      <4>3. Lifecycle!Confirm(r)
        BY <3>1, <4>2 DEF CommitConfirm, StillPreApproved, Lifecycle!Confirm
      <4> QED BY <4>1, <4>3 DEF Lifecycle!Next
    <3>2. CASE CommitDeliver(h) \/ CommitReturn(h) \/ CommitComplete(h)
                 \/ CommitCancel(h) \/ CommitNoShow(h)
      <4>1. PICK r \in Reservations, from \in Live, to \in BookingStatuses :
              /\ In(r, from) /\ <<from, to>> \in Lifecycle!Edges \cup {<<"ACTIVE", "ACTIVE">>}
              /\ status' = [status EXCEPT ![r] = to]
        BY <3>2, Operations
      <4>2. CASE <<from, to>> = <<"ACTIVE", "ACTIVE">>
        BY <4>1, <4>2 DEF In, TypeOK
      <4>3. CASE <<from, to>> \in Lifecycle!Edges
        <5>1. Lifecycle!Move(r)
          BY <4>1, <4>3 DEF In, Lifecycle!Move, Lifecycle!Statuses, BookingStatuses
        <5> QED BY <5>1 DEF Lifecycle!Next
      <4> QED BY <4>1, <4>2, <4>3
    <3> QED BY <2>2, <3>1, <3>2 DEF CommitAny, CommitContract, CommitChecklist
  <2>3. CASE SweepCommit
    <3> DEFINE R == {r \in Reservations : Due(r)}
    <3>1. \A r \in R : status[r] \in DOMAIN Lifecycle!Lapsed
                       /\ Lifecycle!Lapsed[status[r]] = "EXPIRED"
      BY DEF Due, Lifecycle!Lapsed
    <3>2. Lifecycle!Lapse(R)
      BY <2>3, <3>1 DEF SweepCommit, Lifecycle!Lapse
    <3> QED BY <3>2 DEF Lifecycle!Next
  <2> QED BY StepCases, BeginOpens, <2>1, <2>2, <2>3 DEF Opens, Aside, requestVars
<1> QED BY <1>1, <1>2, TypeCorrect, BookingsAgree, PTL
        DEF Spec, ImplementsLifecycle, Lifecycle!Spec

\* InactiveIsUnlisted: a car the catalogue takes off the list is off the list of
\* the fleet too, whatever edits and rentals race.
THEOREM UnlistedTogether == Spec => []InactiveIsUnlisted
<1>1. Init => InactiveIsUnlisted
  BY DEF Init, InactiveIsUnlisted
<1>2. TypeOK /\ InactiveIsUnlisted /\ [Next]_vars => InactiveIsUnlisted'
  <2> SUFFICES ASSUME TypeOK, InactiveIsUnlisted, [Next]_vars,
                      NEW v \in Vehicles, vehicleStatus'[v] = "INACTIVE"
               PROVE  ~ listed'[v]
    BY DEF InactiveIsUnlisted
  <2>1. ASSUME UNCHANGED listed,
               vehicleStatus'[v] = vehicleStatus[v] \/ vehicleStatus'[v] # "INACTIVE"
        PROVE  ~ listed'[v]
    BY <2>1 DEF InactiveIsUnlisted
  <2>2. ASSUME NEW e \in Editors, WriteVehicle(e) PROVE ~ listed'[v]
    <3>1. CASE v = edit[e].vehicle
      <4>1. vehicleStatus'[v] = StatusToWrite(e) /\ listed'[v] = edit[e].list
        BY <2>2, <3>1 DEF WriteVehicle, TypeOK
      <4> QED BY <4>1 DEF StatusToWrite, Catalogued
    <3>2. CASE v # edit[e].vehicle
      BY <2>2, <3>2 DEF WriteVehicle, TypeOK, InactiveIsUnlisted
    <3> QED BY <3>1, <3>2
  <2>3. ASSUME NEW e \in Editors, ReadVehicle(e) \/ DropEdit(e) PROVE ~ listed'[v]
    BY <2>1, <2>3 DEF ReadVehicle, DropEdit
  <2>4. ASSUME NEW e \in Editors, NEW u \in Vehicles, NEW list \in BOOLEAN, AdmitEdit(e, u, list)
        PROVE  ~ listed'[v]
    BY <2>1, <2>4 DEF AdmitEdit
  <2>5. ASSUME NEW h \in Handlers, CommitAny(h) \/ Rollback(h) PROVE ~ listed'[v]
    <3>1. CASE CommitDeliver(h)
      BY <2>1, <3>1 DEF CommitDeliver, MoveBoth, TypeOK
    <3>2. CASE CommitComplete(h)
      BY <2>1, <3>2 DEF CommitComplete, MoveBoth, TypeOK
    <3> QED BY <2>1, <2>5, <3>1, <3>2
            DEF CommitAny, Rollback, CommitContract, CommitChecklist, CommitConfirm,
                CommitReturn, CommitCancel, CommitNoShow, MoveBoth, fleetVars
  <2>6. ASSUME NEW r \in Reservations,
               PreApprove(r) \/ \E h \in Handlers : BeginAny(h, r)
        PROVE  ~ listed'[v]
    BY <2>1, <2>6, BeginOpens DEF Opens, PreApprove, fleetVars
  <2>7. ASSUME NEW b \in Holds,
               CheckHold(b) \/ CreateHold(b) \/ CheckRemoval(b) \/ RemoveHold(b) \/ DropHold(b)
        PROVE  ~ listed'[v]
    BY <2>1, <2>7 DEF CheckHold, CreateHold, CheckRemoval, RemoveHold, DropHold, HoldStep
  <2>8. CASE SweepBegin \/ SweepCommit \/ SweepFail \/ Tick \/ UNCHANGED vars
    BY <2>1, <2>8 DEF SweepBegin, SweepCommit, SweepFail, Tick, vars, fleetVars
  <2> QED BY <2>2, <2>3, <2>4, <2>5, <2>6, <2>7, <2>8 DEF Next
<1> QED BY <1>1, <1>2, TypeCorrect, PTL DEF Spec
-----------------------------------------------------------------------------
(* What the pages offer and show of a request.                             *)

\* Attendance and deposit are recorded after the contract, also by a checklist
\* on its way while the contract is replaced.
ContractFirst ==
  \A r \in Reservations :
    \/ attended[r] \/ deposit[r] # None
    \/ \E h \in Handlers : tx[h].intent = "CHECKLIST" /\ tx[h].res = r
    => contract[r] # None

LEMMA ContractStays ==
  ASSUME TypeOK, [Next]_vars, NEW r \in Reservations, contract[r] # None
  PROVE  contract'[r] # None
<1>1. ASSUME NEW h \in Handlers, CommitAny(h) PROVE contract'[r] # None
  <2>1. CASE CommitContract(h)
    <3>1. tx[h].paper \in Keys
      BY <2>1, TxType DEF CommitContract, Intents, Txs
    <3> QED BY <2>1, <3>1, BranchAssumption DEF CommitContract, TypeOK
  <2>2. CASE CommitChecklist(h) \/ CommitConfirm(h)
    BY <2>2 DEF CommitChecklist, CommitConfirm
  <2>3. CASE CommitDeliver(h) \/ CommitReturn(h) \/ CommitComplete(h)
               \/ CommitCancel(h) \/ CommitNoShow(h)
    BY <2>3, Operations
  <2> QED BY <1>1, <2>1, <2>2, <2>3 DEF CommitAny
<1> QED BY StepCases, BeginOpens, <1>1
        DEF PreApprove, Opens, SweepCommit, Aside, requestVars

LEMMA ContractFirstAlways == Spec => []ContractFirst
<1>1. Init => ContractFirst
  BY DEF Init, ContractFirst, NoTx
<1>2. TypeOK /\ ContractFirst /\ [Next]_vars => ContractFirst'
  <2> SUFFICES ASSUME TypeOK, ContractFirst, [Next]_vars, NEW r \in Reservations,
                      \/ attended'[r] \/ deposit'[r] # None
                      \/ \E h \in Handlers : tx'[h].intent = "CHECKLIST" /\ tx'[h].res = r
               PROVE  contract'[r] # None
    BY DEF ContractFirst
  <2>1. CASE contract[r] # None
    BY <2>1, ContractStays
  <2>2. CASE contract[r] = None
    <3>1. ~attended[r] /\ deposit[r] = None
      BY <2>2 DEF ContractFirst
    <3>2. \A h \in Handlers : ~(tx[h].intent = "CHECKLIST" /\ tx[h].res = r)
      BY <2>2 DEF ContractFirst
    <3>3. ~attended'[r] /\ deposit'[r] = None
      <4>1. ASSUME NEW h \in Handlers, CommitAny(h) PROVE ~attended'[r] /\ deposit'[r] = None
        <5>1. CASE CommitChecklist(h)
          <6>1. tx[h].res # r
            BY <3>2, <5>1 DEF CommitChecklist
          <6> QED BY <3>1, <5>1, <6>1 DEF CommitChecklist, TypeOK
        <5>2. CASE CommitContract(h) \/ CommitConfirm(h)
          BY <3>1, <5>2 DEF CommitContract, CommitConfirm
        <5>3. CASE CommitDeliver(h) \/ CommitReturn(h) \/ CommitComplete(h)
                     \/ CommitCancel(h) \/ CommitNoShow(h)
          BY <3>1, <5>3, Operations
        <5> QED BY <4>1, <5>1, <5>2, <5>3 DEF CommitAny
      <4> QED BY StepCases, BeginOpens, <3>1, <4>1
              DEF PreApprove, Opens, SweepCommit, Aside, requestVars
    <3>4. PICK h \in Handlers : tx'[h].intent = "CHECKLIST" /\ tx'[h].res = r
      BY <3>3
    <3>5. BeginAny(h, r)
      BY <3>2, <3>4, TxOrigin DEF Intents
    <3>6. \E receipt \in Receipts : BeginChecklist(h, r, receipt)
      BY <3>4, <3>5 DEF BeginAny, BeginContract, BeginConfirm, BeginDeliver, BeginReturn,
         BeginComplete, BeginCancel, BeginNoShow, Begin, TypeOK
    <3> QED BY <2>2, <3>6 DEF BeginChecklist, ChecklistAccepted
  <2> QED BY <2>1, <2>2
<1> QED BY <1>1, <1>2, TypeCorrect, PTL DEF Spec

(***************************************************************************)
(* DeskServes: in whatever order contract, checklist, confirmation and the *)
(* operations were recorded and whoever edits the car meanwhile, the       *)
(* reviewer of a request has one next step for it until the car is back,   *)
(* unless the car asks for no deposit, and nobody else has any; every      *)
(* button passes the checks of its handler and the writes that may refuse  *)
(* it, but for what only the API can tell; and the customer's page has     *)
(* ticked the steps before it and no other.                                *)
(***************************************************************************)
THEOREM DeskAlwaysServes == Spec => []DeskServes
<1>1. ASSUME TypeOK, BookingAgrees, PaperworkBehindBooking, CustodyLog, ContractFirst
      PROVE  DeskServes
  <2> SUFFICES ASSUME NEW r \in Reservations
               PROVE  /\ \A s \in Staff : \A c \in DeskControls(r, s) :
                           ToldByTheApi(r, c) \/ Accepted(r, s, c)
                      /\ status[r] \in {"PRE_APPROVED", "CONFIRMED", "ACTIVE"} =>
                           \E n \in DOMAIN Steps :
                             /\ \A i \in DOMAIN Steps, s \in Staff :
                                  Steps[i] \in DeskControls(r, s) <=>
                                    i = n /\ s = Reviewer[r] /\ ~ Priceless(r, Steps[n])
                             /\ Ticked(r) = {Steps[i] : i \in 1..(n - 1)}
    BY DEF DeskServes
  <2> DEFINE Serves(n) ==
        /\ \A i \in DOMAIN Steps :
             Steps[i] \in Panels(r) <=> i = n /\ ~ Priceless(r, Steps[n])
        /\ Ticked(r) = {Steps[i] : i \in 1..(n - 1)}
  <2>1. /\ status[r] \in BookingStatuses => booking[r] = status[r]
        /\ status[r] \notin BookingStatuses => booking[r] = None
        /\ booking[r] # None => attended[r] /\ deposit[r] # None /\ contract[r] # None
        /\ attended[r] \/ deposit[r] # None => contract[r] # None
        /\ booking[r] = "ACTIVE" => "DELIVERY" \in operations[r]
        /\ booking[r] \notin {"ACTIVE", "COMPLETED"} => operations[r] = {}
    BY <1>1 DEF BookingAgrees, PaperworkBehindBooking, CustodyLog, ContractFirst
  <2>2. \A s \in BookingStatuses : s # None
    BY BranchAssumption
  <2>3. ASSUME NEW s \in Staff, NEW c \in DeskControls(r, s)
        PROVE  ToldByTheApi(r, c) \/ Accepted(r, s, c)
    <3>0. c \in Panels(r) /\ MayWorkOn(s, r)
      BY <2>3 DEF DeskControls, MayWorkOn
    <3>1. CASE c = "CONTRACT" \/ c = "CHECKLIST" \/ c = "CONFIRM"
      BY <2>1, <3>0, <3>1
         DEF Panels, ContractPanel, ChecklistPanel, ConfirmPanel, PickupPanel, ReturnPanel,
             BranchRequirementsComplete, ToldByTheApi, Accepted, ContractAccepted,
             ChecklistAccepted, ConfirmAccepted, BookingStatuses
    <3>2. CASE status[r] = "CONFIRMED" /\ c \in {"DELIVER", "CANCEL", "NO_SHOW"}
      <4>1. booking[r] = "CONFIRMED" /\ operations[r] = {}
        BY <2>1, <3>2 DEF BookingStatuses
      <4>2. clock < PickupAt[r] \/ clock >= PickupAt[r]
        <5>1. clock \in Nat /\ PickupAt[r] \in Nat
          BY <1>1, BranchAssumption DEF TypeOK
        <5> QED BY <5>1
      <4> QED BY <3>0, <3>2, <4>1, <4>2
              DEF ToldByTheApi, Accepted, DeliverAccepted, CancelAccepted, NoShowAccepted,
                  In, Expected
    <3>3. CASE status[r] = "ACTIVE" /\ c \in {"RETURN", "COMPLETE"}
      <4>1. booking[r] = "ACTIVE" /\ "DELIVERY" \in operations[r]
        BY <2>1, <3>3 DEF BookingStatuses
      <4>2. c = "COMPLETE" <=> "RETURN" \in operations[r]
        BY <3>0, <3>3 DEF Panels, ContractPanel, ChecklistPanel, ConfirmPanel,
                          PickupPanel, ReturnPanel
      <4> QED BY <3>0, <3>3, <4>1, <4>2
              DEF Accepted, ReturnAccepted, CompleteAccepted, In, Expected
    <3> QED BY <3>0, <3>1, <3>2, <3>3
            DEF Panels, ContractPanel, ChecklistPanel, ConfirmPanel, PickupPanel, ReturnPanel
  <2>4. /\ DOMAIN Steps = 1..6
        /\ Steps[1] = "CONTRACT" /\ Steps[2] = "CHECKLIST" /\ Steps[3] = "CONFIRM"
        /\ Steps[4] = "DELIVER" /\ Steps[5] = "RETURN" /\ Steps[6] = "COMPLETE"
    BY DEF Steps
  <2>5. /\ {Steps[i] : i \in 1..(1 - 1)} = {}
        /\ {Steps[i] : i \in 1..(2 - 1)} = {"CONTRACT"}
        /\ {Steps[i] : i \in 1..(3 - 1)} = {"CONTRACT", "CHECKLIST"}
        /\ {Steps[i] : i \in 1..(4 - 1)} = {"CONTRACT", "CHECKLIST", "CONFIRM"}
        /\ {Steps[i] : i \in 1..(5 - 1)} = {"CONTRACT", "CHECKLIST", "CONFIRM", "DELIVER"}
        /\ {Steps[i] : i \in 1..(6 - 1)}
             = {"CONTRACT", "CHECKLIST", "CONFIRM", "DELIVER", "RETURN"}
    BY <2>4
  <2> USE DEF Panels, ContractPanel, ChecklistPanel, ConfirmPanel, PickupPanel, ReturnPanel,
              BranchRequirementsComplete, BookingStatuses
  <2>6. ASSUME status[r] = "PRE_APPROVED" PROVE \E n \in DOMAIN Steps : Serves(n)
    <3>1. booking[r] = None
      BY <2>1, <2>6
    <3>2. CASE contract[r] = None
      <4>1. Panels(r) = {"CONTRACT"}
        BY <2>6, <3>2
      <4>2. Ticked(r) = {}
        BY <2>1, <2>6, <3>1, <3>2 DEF Ticked, BranchTicks, RentalTicks
      <4>3. \A i \in 1..6 : Steps[i] \in Panels(r) <=> i = 1 /\ ~ Priceless(r, Steps[1])
        BY <2>4, <4>1 DEF Priceless
      <4>4. Ticked(r) = {Steps[i] : i \in 1..(1 - 1)}
        BY <2>5, <4>2
      <4>5. Serves(1)
        BY <2>4, <4>3, <4>4
      <4> QED BY <2>4, <4>5
    <3>3. CASE contract[r] # None /\ ~BranchRequirementsComplete(r)
      <4>1. Panels(r) = IF priced[VehicleOf[r]] THEN {"CHECKLIST"} ELSE {}
        BY <2>6, <3>3
      <4>2. Ticked(r) = {"CONTRACT"}
        BY <2>1, <2>6, <3>1, <3>3 DEF Ticked, BranchTicks, RentalTicks
      <4>3. \A i \in 1..6 : Steps[i] \in Panels(r) <=> i = 2 /\ ~ Priceless(r, Steps[2])
        BY <2>4, <4>1 DEF Priceless
      <4>4. Ticked(r) = {Steps[i] : i \in 1..(2 - 1)}
        BY <2>5, <4>2
      <4>5. Serves(2)
        BY <2>4, <4>3, <4>4
      <4> QED BY <2>4, <4>5
    <3>4. CASE BranchRequirementsComplete(r)
      <4>1. Panels(r) = {"CONFIRM"}
        BY <2>6, <3>4
      <4>2. Ticked(r) = {"CONTRACT", "CHECKLIST"}
        BY <2>1, <2>6, <3>1, <3>4 DEF Ticked, BranchTicks, RentalTicks
      <4>3. \A i \in 1..6 : Steps[i] \in Panels(r) <=> i = 3 /\ ~ Priceless(r, Steps[3])
        BY <2>4, <4>1 DEF Priceless
      <4>4. Ticked(r) = {Steps[i] : i \in 1..(3 - 1)}
        BY <2>5, <4>2
      <4>5. Serves(3)
        BY <2>4, <4>3, <4>4
      <4> QED BY <2>4, <4>5
    <3> QED BY <3>2, <3>3, <3>4
  <2>7. ASSUME status[r] = "CONFIRMED" PROVE \E n \in DOMAIN Steps : Serves(n)
    <3>1. booking[r] = "CONFIRMED" /\ booking[r] # None /\ operations[r] = {}
      BY <2>1, <2>2, <2>7
    <3>2. Panels(r) = {"DELIVER", "CANCEL", "NO_SHOW"}
      BY <2>7
    <3>3. Ticked(r) = {"CONTRACT", "CHECKLIST", "CONFIRM"}
      BY <2>1, <2>7, <3>1 DEF Ticked, BranchTicks, RentalTicks
    <3>4. \A i \in 1..6 : Steps[i] \in Panels(r) <=> i = 4 /\ ~ Priceless(r, Steps[4])
      BY <2>4, <3>2 DEF Priceless
    <3>5. Ticked(r) = {Steps[i] : i \in 1..(4 - 1)}
      BY <2>5, <3>3
    <3>6. Serves(4)
      BY <2>4, <3>4, <3>5
    <3> QED BY <2>4, <3>6
  <2>8. ASSUME status[r] = "ACTIVE" PROVE \E n \in DOMAIN Steps : Serves(n)
    <3>1. booking[r] = "ACTIVE" /\ booking[r] # None /\ "DELIVERY" \in operations[r]
      BY <2>1, <2>2, <2>8
    <3>2. CASE "RETURN" \in operations[r]
      <4>1. Panels(r) = {"COMPLETE"}
        BY <2>8, <3>2
      <4>2. Ticked(r) = {"CONTRACT", "CHECKLIST", "CONFIRM", "DELIVER", "RETURN"}
        BY <2>1, <2>8, <3>1, <3>2 DEF Ticked, BranchTicks, RentalTicks
      <4>3. \A i \in 1..6 : Steps[i] \in Panels(r) <=> i = 6 /\ ~ Priceless(r, Steps[6])
        BY <2>4, <4>1 DEF Priceless
      <4>4. Ticked(r) = {Steps[i] : i \in 1..(6 - 1)}
        BY <2>5, <4>2
      <4>5. Serves(6)
        BY <2>4, <4>3, <4>4
      <4> QED BY <2>4, <4>5
    <3>3. CASE "RETURN" \notin operations[r]
      <4>1. Panels(r) = {"RETURN"}
        BY <2>8, <3>3
      <4>2. Ticked(r) = {"CONTRACT", "CHECKLIST", "CONFIRM", "DELIVER"}
        BY <2>1, <2>8, <3>1, <3>3 DEF Ticked, BranchTicks, RentalTicks
      <4>3. \A i \in 1..6 : Steps[i] \in Panels(r) <=> i = 5 /\ ~ Priceless(r, Steps[5])
        BY <2>4, <4>1 DEF Priceless
      <4>4. Ticked(r) = {Steps[i] : i \in 1..(5 - 1)}
        BY <2>5, <4>2
      <4>5. Serves(5)
        BY <2>4, <4>3, <4>4
      <4> QED BY <2>4, <4>5
    <3> QED BY <3>2, <3>3
  <2>9. ASSUME NEW n \in DOMAIN Steps, Serves(n), NEW i \in DOMAIN Steps, NEW s \in Staff
        PROVE  Steps[i] \in DeskControls(r, s) <=>
                 i = n /\ s = Reviewer[r] /\ ~ Priceless(r, Steps[n])
    BY <2>9 DEF DeskControls
  <2> QED BY <2>3, <2>6, <2>7, <2>8, <2>9
<1> QED BY <1>1, TypeCorrect, BookingsAgree, PaperworkStands, CustodyIsLogged,
           ContractFirstAlways, PTL
=============================================================================
