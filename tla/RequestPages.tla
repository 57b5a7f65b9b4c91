---------------------------- MODULE RequestPages ----------------------------
(***************************************************************************)
(* Two pages of the browser that show requests and act on them: the desk   *)
(* of the sales team and the customer's own list.  Each keeps a list, one  *)
(* request opened beside it, and any number of calls under way: opening    *)
(* another request cancels none of them.                                   *)
(*                                                                         *)
(* The server is what SalesReview and BranchBookings describe; here it is  *)
(* a status per request, which a command moves if it still may.            *)
(***************************************************************************)
EXTENDS Requests, Naturals

CONSTANTS
  Shown,        \* requests the page may list
  MaxMoves      \* bound of the status changes

ASSUME RequestPagesAssumption == None \notin Shown /\ MaxMoves \in Nat

VARIABLES
  side,      \* whose page it is
  actual,    \* per request, its status
  past,      \* the statuses it has had
  moves,     \* how many changes there were
  list,      \* the status listed, None for a request that is not
  panel,     \* the request opened and the status shown of it
  loaded     \* the list has arrived

serverVars == <<actual, past, moves>>
pageVars == <<list, panel, loaded>>
requestPageVars == <<side, serverVars, pageVars, request>>

\* What a command does to the status of a request.
Moves ==
  [CLAIM   |-> {<<"PENDING_REVIEW", "UNDER_REVIEW">>},
   DECIDE  |-> {"UNDER_REVIEW"} \X {"MORE_INFORMATION_REQUIRED", "PRE_APPROVED", "REJECTED"},
   OFFER   |-> {<<"UNDER_REVIEW", "ALTERNATIVE_OFFERED">>},
   CONFIRM |-> {<<"PRE_APPROVED", "CONFIRMED">>},
   OPERATE |-> ({"CONFIRMED"} \X {"ACTIVE", "CANCELLED", "NO_SHOW"})
                 \cup ({"ACTIVE"} \X {"ACTIVE", "COMPLETED"}),
   REPLY   |-> {<<"MORE_INFORMATION_REQUIRED", "UNDER_REVIEW">>},
   ANSWER  |-> {<<"ALTERNATIVE_OFFERED", "UNDER_REVIEW">>}]

Commands == [SALES |-> {"CLAIM", "DECIDE", "OFFER", "CONFIRM", "OPERATE"},
             CUSTOMER |-> {"REPLY", "ANSWER"}]

\* Those that take the request off the desk's list.
Closing == {"REJECTED", "COMPLETED", "CANCELLED", "NO_SHOW"}

Nothing == [id |-> None, status |-> None]

RequestPagesInit ==
  /\ side \in {"SALES", "CUSTOMER"}
  /\ actual \in [Shown -> {"PENDING_REVIEW", "MORE_INFORMATION_REQUIRED", "PRE_APPROVED"}]
  /\ past = [r \in Shown |-> {actual[r]}]
  /\ moves = 0
  /\ list = [r \in Shown |-> None]
  /\ panel = Nothing
  /\ loaded = FALSE
  /\ RequestInit

MoveTo(r, to) ==
  /\ moves < MaxMoves /\ moves' = moves + 1
  /\ actual' = [actual EXCEPT ![r] = to]
  /\ past' = [past EXCEPT ![r] = @ \cup {to}]

\* Somebody else's command, on another screen.
MovesElsewhere(r) ==
  /\ \E op \in DOMAIN Moves : \E m \in Moves[op] : m[1] = actual[r] /\ MoveTo(r, m[2])
  /\ UNCHANGED <<side, pageVars, request>>
-----------------------------------------------------------------------------
(* Reading.                                                                *)

\* The list is asked for once; it holds what has not been closed.
ListArrives ==
  /\ ~loaded /\ loaded' = TRUE
  /\ list' = [r \in Shown |->
       IF side = "SALES" /\ actual[r] \in Closing THEN None ELSE actual[r]]
  /\ UNCHANGED <<side, serverVars, panel, request>>

\* The desk empties the panel first; the customer's page keeps the old one.
OpenRequest(h, r) ==
  /\ list[r] # None
  /\ Begin(h, [op |-> "OPEN", id |-> r])
  /\ panel' = IF side = "SALES" THEN Nothing ELSE panel
  /\ UNCHANGED <<side, serverVars, list, loaded>>

RequestRead(h) ==
  /\ request[h].op = "OPEN"
  /\ Continue(h, [op |-> "SHOW", id |-> request[h].id, status |-> actual[request[h].id]])
  /\ UNCHANGED <<side, serverVars, pageVars>>

\* The panel shows whatever arrived last, opened last or not.
RequestArrives(h) ==
  /\ request[h].op = "SHOW"
  /\ panel' = [id |-> request[h].id, status |-> request[h].status]
  /\ Finish(h)
  /\ UNCHANGED <<side, serverVars, list, loaded>>
-----------------------------------------------------------------------------
(* Acting.                                                                 *)

\* The panel offers what its status allows.
Offered(op) ==
  /\ op \in Commands[side]
  /\ panel.id # None
  /\ \E m \in Moves[op] : m[1] = panel.status

\* One of a kind at a time: its button is disabled meanwhile.
Send(h, op) ==
  /\ Offered(op)
  /\ ~\E g \in Handlers : request[g] # NoRequest /\ request[g].op \in {op, "DONE"}
                           /\ (request[g].op = "DONE" => request[g].command = op)
  /\ Begin(h, [op |-> op, id |-> panel.id])
  /\ UNCHANGED <<side, serverVars, pageVars>>

ClaimReview(h) == Send(h, "CLAIM")
SubmitDecision(h) == Send(h, "DECIDE")
SubmitAlternativeOffer(h) == Send(h, "OFFER")
ConfirmFinalBooking(h) == Send(h, "CONFIRM")
SubmitBookingOperation(h) == Send(h, "OPERATE")
SendReply(h) == Send(h, "REPLY")
RespondToAlternative(h) == Send(h, "ANSWER")

\* The server carries it out if the status still allows it.
CarryOut(h) ==
  LET r == request[h].id
      op == request[h].op
  IN
  /\ op \in DOMAIN Moves
  /\ \E m \in Moves[op] :
       /\ m[1] = actual[r] /\ MoveTo(r, m[2])
       /\ Continue(h, [op |-> "DONE", command |-> op, id |-> r, status |-> m[2]])
  /\ UNCHANGED <<side, pageVars>>

\* It does not, or the call fails, before or after: an error is shown.
CallFails(h) ==
  /\ request[h] # NoRequest
  /\ Finish(h)
  /\ panel' \in {panel} \cup
       IF request[h].op \in {"OPEN", "SHOW"} /\ side = "CUSTOMER" THEN {Nothing} ELSE {}
  /\ UNCHANGED <<side, serverVars, list, loaded>>

\* The entry an answer updates.  (Slip: that of the request in the panel.)
EntryInPanel(h) == panel.id

EntryOf(h) == request[h].id

\* A claim's answer fills the panel; any other writes its status over the one
\* shown, of whichever request.
CommandAnswered(h) ==
  LET e == EntryOf(h)
      to == request[h].status
  IN
  /\ request[h].op = "DONE"
  /\ list' = [r \in Shown |->
       IF r # e \/ list[r] = None THEN list[r]
       ELSE IF side = "SALES" /\ to \in Closing THEN None ELSE to]
  /\ panel' = CASE request[h].command = "CLAIM" -> [id |-> request[h].id, status |-> to]
                [] request[h].command # "CLAIM" /\ (panel.id = None \/ to = "REJECTED") -> panel
                [] OTHER -> [panel EXCEPT !.status = to]
  /\ Finish(h)
  /\ UNCHANGED <<side, serverVars, loaded>>

RequestPagesNext ==
  \/ ListArrives
  \/ \E r \in Shown : MovesElsewhere(r) \/ \E h \in Handlers : OpenRequest(h, r)
  \/ \E h \in Handlers :
       \/ RequestRead(h) \/ RequestArrives(h) \/ CarryOut(h)
       \/ CommandAnswered(h) \/ CallFails(h)
       \/ ClaimReview(h) \/ SubmitDecision(h) \/ SubmitAlternativeOffer(h)
       \/ ConfirmFinalBooking(h) \/ SubmitBookingOperation(h)
       \/ SendReply(h) \/ RespondToAlternative(h)

RequestPagesSpec == RequestPagesInit /\ [][RequestPagesNext]_requestPageVars
-----------------------------------------------------------------------------
PageStatuses == UNION {UNION {{m[1], m[2]} : m \in Moves[op]} : op \in DOMAIN Moves}

Panels == [id : Shown \cup {None}, status : PageStatuses \cup {None}]

RequestPagesTypeOK ==
  /\ side \in {"SALES", "CUSTOMER"}
  /\ actual \in [Shown -> PageStatuses]
  /\ past \in [Shown -> SUBSET PageStatuses]
  /\ moves \in 0..MaxMoves
  /\ list \in [Shown -> PageStatuses \cup {None}]
  /\ panel \in Panels
  /\ loaded \in BOOLEAN

(***************************************************************************)
(* What the list says of a request, the server has said of that request:   *)
(* answers are entered under the id they were asked for, also when the     *)
(* panel has moved on to another request meanwhile (submitDecision,        *)
(* submitAlternativeOffer, confirmFinalBooking, sendReply).  Of the panel  *)
(* this does not hold.                                                     *)
(***************************************************************************)
ListWasTrue == \A r \in Shown : list[r] # None => list[r] \in past[r]
=============================================================================
