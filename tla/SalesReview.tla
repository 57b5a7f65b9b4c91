----------------------------- MODULE SalesReview -----------------------------
(***************************************************************************)
(* The sales half of a rental: a submitted request is claimed, its         *)
(* document is previewed and verified or rejected, the reviewer decides or *)
(* offers another car or other dates, the customer answers, and the sweep  *)
(* ends offers and pre-approvals whose 48 hours have passed.               *)
(*                                                                         *)
(* As in BranchBookings a handler reads in one step and writes in a later  *)
(* one, and only the WHERE clause of the write is examined again.  A       *)
(* request has one document type here; the rows a replacement soft-deletes *)
(* are told apart from the row that counts by its generation.  Whether an  *)
(* offered car is free is left to BranchBookings: an offer that is refused *)
(* changes nothing.                                                        *)
(*                                                                         *)
(* A definition marked "Slip" is no part of the model: it is a plausible   *)
(* mistake in the definition after it, kept to show which property would   *)
(* catch it.                                                               *)
(***************************************************************************)
EXTENDS Integers, Sequences, FiniteSets

CONSTANTS
  Reservations,     \* submitted requests
  Documented,       \* those the customer uploaded a document for
  Sales, Admins,    \* staff with role SALES; ADMIN and SUPER_ADMIN
  Handlers,         \* API requests in flight
  None,             \* an absent value (SQL NULL)
  Window,           \* the 48 hours of an offer and of a pre-approval
  MaxTime,          \* bound of the clock
  MaxOffers,        \* bound of the offers made on one request
  MaxUploads        \* bound of the replacements of one document

Staff == Sales \cup Admins

Statuses == {"PENDING_REVIEW", "UNDER_REVIEW", "MORE_INFORMATION_REQUIRED",
             "ALTERNATIVE_OFFERED", "PRE_APPROVED", "REJECTED", "EXPIRED"}

ASSUME SalesAssumption ==
  /\ Documented \subseteq Reservations
  /\ Sales \cap Admins = {}
  /\ None \notin Staff \cup Nat \cup Statuses
  /\ Window \in Nat /\ MaxTime \in Nat /\ MaxOffers \in Nat /\ MaxUploads \in Nat

VARIABLES
  status,       \* Reservation.status
  assigned,     \* Reservation.assignedSalesId
  expiresAt,    \* Reservation.preApprovalExpiresAt
  terms,        \* whose car, dates and rates the request has: 0, its own, or an offer's
  offers,       \* the request's AlternativeOffer rows, oldest first
  document,     \* the document that is not soft-deleted
  previewed,    \* who read that document in the last 15 minutes
  event,        \* toStatus of the last ReservationEvent
  tx,           \* what each handler read and means to write
  sweepAt,      \* the instant the running sweep took as now
  clock

caseVars == <<status, assigned, expiresAt, terms, event>>
docVars  == <<document, previewed>>
vars == <<status, assigned, expiresAt, terms, offers, document, previewed,
          event, tx, sweepAt, clock>>

OfferStatuses == {"PENDING", "ACCEPTED", "DECLINED", "WITHDRAWN", "EXPIRED"}
DocumentStatuses == {"ABSENT", "UPLOADED", "UNDER_REVIEW", "VERIFIED", "REJECTED"}

\* (Slip: a rejection is stored under a name of its own.)
MisnamedDecisions == [d \in {"REQUEST_INFORMATION", "PRE_APPROVE", "REJECT"} |->
                        IF d = "PRE_APPROVE" THEN "PRE_APPROVED" ELSE d]

\* What each decision makes of the request.
Decisions == [d \in {"REQUEST_INFORMATION", "PRE_APPROVE", "REJECT"} |->
                CASE d = "REQUEST_INFORMATION" -> "MORE_INFORMATION_REQUIRED"
                  [] d = "PRE_APPROVE" -> "PRE_APPROVED"
                  [] OTHER -> "REJECTED"]
Responses == [a \in {"ACCEPT", "DECLINE"} |->
                IF a = "ACCEPT" THEN "ACCEPTED" ELSE "DECLINED"]
Verdicts == [a \in {"VERIFY", "REJECT_DOCUMENT"} |->
                IF a = "VERIFY" THEN "VERIFIED" ELSE "REJECTED"]

Intents == DOMAIN Decisions \cup DOMAIN Responses \cup DOMAIN Verdicts
             \cup {"CLAIM", "OFFER", "REPLY", "LATE", "UPLOAD", "REPLACE"}

NoTx == [intent |-> "NONE"]

\* A handler on its way: its actor (None for the customer), the instant it took
\* as now, the offer or document generation it read, and, of a document
\* decision, the request status it saw inside the transaction.
Txs == [intent : Intents, res : Reservations, actor : Staff \cup {None},
        at : Nat, ref : Nat, seen : Statuses \cup {None}]
-----------------------------------------------------------------------------
\* The assignee acts, or an administrator overrides.
MayAct(a, r) == a \in Admins \/ assigned[r] = a

PendingOffers(r) == {i \in DOMAIN offers[r] : offers[r][i].status = "PENDING"}

\* The offer the customer's answer is about: the latest one still pending.
IsCurrentOffer(r, i) ==
  i \in PendingOffers(r) /\ \A j \in PendingOffers(r) : j <= i

\* Documents of a request can be decided on until the review is over.
InDocumentReview(r) ==
  status[r] \in {"PENDING_REVIEW", "UNDER_REVIEW", "MORE_INFORMATION_REQUIRED"}

Unread(r) == document[r].status \in {"UPLOADED", "UNDER_REVIEW"}

\* Every Begin: the handler keeps what it read and nothing else changes.
Begin(h, intent, r, actor, ref) ==
  /\ tx[h] = NoTx
  /\ tx' = [tx EXCEPT ![h] = [intent |-> intent, res |-> r, actor |-> actor,
                              at |-> clock, ref |-> ref, seen |-> None]]
  /\ UNCHANGED <<caseVars, offers, docVars, sweepAt, clock>>

Finish(h) == tx' = [tx EXCEPT ![h] = NoTx]

\* Every Commit: the request moves and its history records the move.
Move(h, r, next) ==
  /\ status' = [status EXCEPT ![r] = next]
  /\ event' = [event EXCEPT ![r] = next]
  /\ Finish(h)
  /\ UNCHANGED <<sweepAt, clock>>

\* A guard fails at the write, or the connection is lost.
Rollback(h) ==
  /\ tx[h] # NoTx
  /\ Finish(h)
  /\ UNCHANGED <<caseVars, offers, docVars, sweepAt, clock>>
-----------------------------------------------------------------------------
Init ==
  /\ status = [r \in Reservations |-> "PENDING_REVIEW"]
  /\ assigned = [r \in Reservations |-> None]
  /\ expiresAt = [r \in Reservations |-> None]
  /\ terms = [r \in Reservations |-> 0]
  /\ offers = [r \in Reservations |-> <<>>]
  /\ document = [r \in Reservations |->
                   [generation |-> 0,
                    status |-> IF r \in Documented THEN "UPLOADED" ELSE "ABSENT"]]
  /\ previewed = [r \in Reservations |-> {}]
  /\ event = [r \in Reservations |-> "PENDING_REVIEW"]
  /\ tx = [h \in Handlers |-> NoTx]
  /\ sweepAt = None
  /\ clock = 0

ClaimAccepted(r) == status[r] = "PENDING_REVIEW" /\ assigned[r] = None

BeginClaim(h, r, s) ==
  /\ ClaimAccepted(r)
  /\ Begin(h, "CLAIM", r, s, 0)

\* The WHERE clause of the claim.
Unclaimed(r) == status[r] = "PENDING_REVIEW" /\ assigned[r] = None

CommitClaim(h) ==
  LET r == tx[h].res IN
  /\ tx[h].intent = "CLAIM"
  /\ Unclaimed(r)
  /\ assigned' = [assigned EXCEPT ![r] = tx[h].actor]
  /\ Move(h, r, "UNDER_REVIEW")
  /\ UNCHANGED <<expiresAt, terms, offers, docVars>>

\* What a decision and an offer ask of the request and of who makes them.
ReviewAccepted(r, s) == status[r] = "UNDER_REVIEW" /\ MayAct(s, r)

\* Only windows that close by MaxTime are opened: the bound of the clock.
BeginDecide(h, r, s, d) ==
  /\ ReviewAccepted(r, s)
  /\ d = "PRE_APPROVE" => clock + Window <= MaxTime
  /\ Begin(h, d, r, s, 0)

CommitDecide(h) ==
  LET r == tx[h].res IN
  /\ tx[h].intent \in DOMAIN Decisions
  /\ status[r] = "UNDER_REVIEW"
  /\ MayAct(tx[h].actor, r)
  /\ expiresAt' = [expiresAt EXCEPT ![r] =
                     IF tx[h].intent = "PRE_APPROVE" THEN tx[h].at + Window ELSE None]
  /\ Move(h, r, Decisions[tx[h].intent])
  /\ UNCHANGED <<assigned, terms, offers, docVars>>

BeginOffer(h, r, s) ==
  /\ ReviewAccepted(r, s)
  /\ clock + Window <= MaxTime /\ Len(offers[r]) < MaxOffers
  /\ Begin(h, "OFFER", r, s, 0)

\* (Slip: an offer is left open when the next one is made, because the request
\* cannot be waiting for an answer.)
LeftOpen(o) == o

\* An unanswered offer gives way to the next one.
Withdrawn(o) == IF o.status = "PENDING" THEN [o EXCEPT !.status = "WITHDRAWN"] ELSE o

CommitOffer(h) ==
  LET r == tx[h].res
      earlier == [i \in DOMAIN offers[r] |-> Withdrawn(offers[r][i])]
      new == [status |-> "PENDING", expiresAt |-> tx[h].at + Window]
  IN
  /\ tx[h].intent = "OFFER"
  /\ status[r] = "UNDER_REVIEW"
  /\ MayAct(tx[h].actor, r)
  /\ Len(offers[r]) < MaxOffers
  /\ offers' = [offers EXCEPT ![r] = Append(earlier, new)]
  /\ Move(h, r, "ALTERNATIVE_OFFERED")
  /\ UNCHANGED <<assigned, expiresAt, terms, docVars>>
-----------------------------------------------------------------------------
(* The customer's answers.                                                 *)

ReplyAccepted(r) ==
  status[r] = "MORE_INFORMATION_REQUIRED" /\ document[r].status # "REJECTED"

BeginReply(h, r) ==
  /\ ReplyAccepted(r)
  /\ Begin(h, "REPLY", r, None, 0)

CommitReply(h) ==
  LET r == tx[h].res IN
  /\ tx[h].intent = "REPLY"
  /\ status[r] = "MORE_INFORMATION_REQUIRED"
  /\ Move(h, r, "UNDER_REVIEW")
  /\ UNCHANGED <<assigned, expiresAt, terms, offers, docVars>>

\* The offer an answer is about, in time or late.
AnswerAccepted(r, i) == status[r] = "ALTERNATIVE_OFFERED" /\ IsCurrentOffer(r, i)

BeginRespond(h, r, i, a) ==
  /\ AnswerAccepted(r, i)
  /\ offers[r][i].expiresAt > clock
  /\ Begin(h, a, r, None, i)

\* The WHERE clause of the answer: the offer is pending, and was open when the
\* handler read the clock.
StillPending(h, r, i) == i \in PendingOffers(r) /\ offers[r][i].expiresAt > tx[h].at

\* (Slip: nobody looks at how many offers the guarded update changed.)
CommitRespondUncounted(h) ==
  LET r == tx[h].res
      i == tx[h].ref
  IN
  /\ tx[h].intent \in DOMAIN Responses
  /\ status[r] = "ALTERNATIVE_OFFERED"
  /\ offers' = [offers EXCEPT ![r][i].status =
                  IF StillPending(h, r, i) THEN Responses[tx[h].intent] ELSE @]
  /\ terms' = [terms EXCEPT ![r] = IF tx[h].intent = "ACCEPT" THEN i ELSE @]
  /\ Move(h, r, "UNDER_REVIEW")
  /\ UNCHANGED <<assigned, expiresAt, docVars>>

\* Either update finding no row rolls both back.
CommitRespond(h) ==
  LET r == tx[h].res
      i == tx[h].ref
  IN
  /\ tx[h].intent \in DOMAIN Responses
  /\ StillPending(h, r, i)
  /\ status[r] = "ALTERNATIVE_OFFERED"
  /\ offers' = [offers EXCEPT ![r][i].status = Responses[tx[h].intent]]
  /\ terms' = [terms EXCEPT ![r] = IF tx[h].intent = "ACCEPT" THEN i ELSE @]
  /\ Move(h, r, "UNDER_REVIEW")
  /\ UNCHANGED <<assigned, expiresAt, docVars>>

\* The customer answers after the window: the handler itself ends the offer.
BeginLate(h, r, i) ==
  /\ AnswerAccepted(r, i)
  /\ offers[r][i].expiresAt <= clock
  /\ Begin(h, "LATE", r, None, i)

\* (Slip: the request is returned to review by its id alone.)
ReturnedById(s) == IF s \in Statuses THEN "UNDER_REVIEW" ELSE s

\* Only a request that waits for an answer returns to its reviewer.
ReturnedIfOffered(s) == IF s = "ALTERNATIVE_OFFERED" THEN "UNDER_REVIEW" ELSE s

\* Two updates, neither conditional on the other, and no event.
CommitLate(h) ==
  LET r == tx[h].res
      i == tx[h].ref
  IN
  /\ tx[h].intent = "LATE"
  /\ offers' = [offers EXCEPT ![r][i].status = IF @ = "PENDING" THEN "EXPIRED" ELSE @]
  /\ status' = [status EXCEPT ![r] = ReturnedIfOffered(@)]
  /\ Finish(h)
  /\ UNCHANGED <<assigned, expiresAt, terms, event, docVars, sweepAt, clock>>
-----------------------------------------------------------------------------
(* The document.                                                           *)

PreviewAccepted(r, s) ==
  /\ document[r].status # "ABSENT"
  /\ MayAct(s, r)
  /\ status[r] \notin {"REJECTED", "EXPIRED"}

\* Reading the bytes is logged and marks a new upload as being reviewed.  A
\* reading that ends after a replacement is logged on the row that is gone.
Preview(r, s) ==
  /\ PreviewAccepted(r, s)
  /\ previewed' = [previewed EXCEPT ![r] = @ \cup {s}]
  /\ document' = [document EXCEPT ![r].status = IF @ = "UPLOADED" THEN "UNDER_REVIEW" ELSE @]
  /\ UNCHANGED <<caseVars, offers, tx, sweepAt, clock>>

\* Fifteen minutes pass, which is less than the clock tells apart.
PreviewAges(r, s) ==
  /\ s \in previewed[r]
  /\ previewed' = [previewed EXCEPT ![r] = @ \ {s}]
  /\ UNCHANGED <<caseVars, offers, document, tx, sweepAt, clock>>

\* The service's checks of request and reviewer, and the transaction's of the
\* document.  A rejected document may be verified, not rejected again.
VerdictAccepted(r, s, a) ==
  /\ InDocumentReview(r)
  /\ MayAct(s, r)
  /\ Unread(r) \/ (a = "VERIFY" /\ document[r].status = "REJECTED")
  /\ s \in previewed[r]

BeginVerdict(h, r, s, a) ==
  /\ VerdictAccepted(r, s, a)
  /\ Begin(h, a, r, s, document[r].generation)

\* Inside the transaction, the request is read again for the event.
SeeRequest(h) ==
  /\ tx[h].intent \in DOMAIN Verdicts
  /\ tx[h].seen = None
  /\ tx' = [tx EXCEPT ![h].seen = status[tx[h].res]]
  /\ UNCHANGED <<caseVars, offers, docVars, sweepAt, clock>>

\* (Slip: the verdict is written on the current document of the type.)
AnyGeneration(h, r) == document[r].status # "ABSENT"

\* The row the reviewer read, by id, is still the one that counts.
SameRow(h, r) == document[r].generation = tx[h].ref

\* The document is written by id; the request goes back to the customer only
\* if it is still being reviewed; the event records what was seen.
CommitVerdict(h) ==
  LET r == tx[h].res
      back == tx[h].intent = "REJECT_DOCUMENT"
      open == {"PENDING_REVIEW", "UNDER_REVIEW"}
  IN
  /\ tx[h].intent \in DOMAIN Verdicts
  /\ tx[h].seen # None
  /\ document' = [document EXCEPT ![r].status =
                    IF SameRow(h, r) THEN Verdicts[tx[h].intent] ELSE @]
  /\ event' = [event EXCEPT ![r] = IF back /\ tx[h].seen \in open
                                   THEN "MORE_INFORMATION_REQUIRED" ELSE tx[h].seen]
  /\ status' = [status EXCEPT ![r] = IF back /\ @ \in open
                                     THEN "MORE_INFORMATION_REQUIRED" ELSE @]
  /\ Finish(h)
  /\ UNCHANGED <<assigned, expiresAt, terms, offers, previewed, sweepAt, clock>>

\* uploadDocument after submission: only a rejected document is replaced.
UploadAccepted(r) ==
  status[r] = "MORE_INFORMATION_REQUIRED" /\ document[r].status = "REJECTED"

BeginUpload(h, r) ==
  /\ UploadAccepted(r)
  /\ document[r].generation < MaxUploads
  /\ Begin(h, "UPLOAD", r, None, 0)

\* The bytes are scanned and stored; replaceDocument reads the request again.
BeginReplace(h) ==
  LET r == tx[h].res IN
  /\ tx[h].intent = "UPLOAD"
  /\ status[r] = "MORE_INFORMATION_REQUIRED"
  /\ tx' = [tx EXCEPT ![h].intent = "REPLACE", ![h].seen = status[r]]
  /\ UNCHANGED <<caseVars, offers, docVars, sweepAt, clock>>

CommitReplace(h) ==
  LET r == tx[h].res IN
  /\ tx[h].intent = "REPLACE"
  /\ document[r].generation < MaxUploads
  /\ document' = [document EXCEPT ![r] = [generation |-> @.generation + 1,
                                          status |-> "UPLOADED"]]
  /\ previewed' = [previewed EXCEPT ![r] = {}]
  /\ event' = [event EXCEPT ![r] = tx[h].seen]
  /\ Finish(h)
  /\ UNCHANGED <<status, assigned, expiresAt, terms, offers, sweepAt, clock>>
-----------------------------------------------------------------------------
(* The expiry sweep, with now taken at its start.                          *)

OfferDue(r, i) == i \in PendingOffers(r) /\ offers[r][i].expiresAt <= sweepAt

\* (Slip: the sweep ends the offer and leaves the request where it is.)
ReturnsNothing(r) == r \notin Reservations

\* The sweep ends an offer of the request, which goes back to its reviewer.
ReturnsToReview(r) ==
  status[r] = "ALTERNATIVE_OFFERED" /\ \E i \in DOMAIN offers[r] : OfferDue(r, i)

ApprovalDue(r) ==
  status[r] = "PRE_APPROVED" /\ expiresAt[r] # None /\ expiresAt[r] <= sweepAt

SweepBegin ==
  /\ sweepAt = None
  /\ sweepAt' = clock
  /\ UNCHANGED <<caseVars, offers, docVars, tx, clock>>

\* One transaction, each update conditional on its row.
SweepCommit ==
  LET swept == [r \in Reservations |->
                  IF ReturnsToReview(r) THEN "UNDER_REVIEW"
                  ELSE IF ApprovalDue(r) THEN "EXPIRED" ELSE status[r]]
  IN
  /\ sweepAt # None
  /\ offers' = [r \in Reservations |-> [i \in DOMAIN offers[r] |->
                  IF OfferDue(r, i) THEN [offers[r][i] EXCEPT !.status = "EXPIRED"]
                                    ELSE offers[r][i]]]
  /\ status' = swept
  /\ event' = [r \in Reservations |->
                 IF swept[r] # status[r] THEN swept[r] ELSE event[r]]
  /\ sweepAt' = None
  /\ UNCHANGED <<assigned, expiresAt, terms, docVars, tx, clock>>

SweepFail ==
  /\ sweepAt # None
  /\ sweepAt' = None
  /\ UNCHANGED <<caseVars, offers, docVars, tx, clock>>

Tick ==
  /\ clock < MaxTime
  /\ clock' = clock + 1
  /\ UNCHANGED <<caseVars, offers, docVars, tx, sweepAt>>
-----------------------------------------------------------------------------
StaffBegins(h, r, s) ==
  \/ BeginClaim(h, r, s)
  \/ \E d \in DOMAIN Decisions : BeginDecide(h, r, s, d)
  \/ BeginOffer(h, r, s)
  \/ \E a \in DOMAIN Verdicts : BeginVerdict(h, r, s, a)

CustomerBegins(h, r) ==
  \/ BeginReply(h, r)
  \/ \E i \in DOMAIN offers[r] :
        BeginLate(h, r, i) \/ \E a \in DOMAIN Responses : BeginRespond(h, r, i, a)
  \/ BeginUpload(h, r)

CommitAny(h) ==
  \/ CommitClaim(h) \/ CommitDecide(h) \/ CommitOffer(h)
  \/ CommitReply(h) \/ CommitRespond(h) \/ CommitLate(h)
  \/ SeeRequest(h) \/ CommitVerdict(h)
  \/ BeginReplace(h) \/ CommitReplace(h)

Next ==
  \/ \E h \in Handlers, r \in Reservations :
        CustomerBegins(h, r) \/ \E s \in Staff : StaffBegins(h, r, s)
  \/ \E h \in Handlers : CommitAny(h) \/ Rollback(h)
  \/ \E r \in Reservations, s \in Staff : Preview(r, s) \/ PreviewAges(r, s)
  \/ SweepBegin \/ SweepCommit \/ SweepFail
  \/ Tick

Spec == Init /\ [][Next]_vars

\* Time passes and the interval timer keeps starting sweeps, not every one of
\* which fails.  Neither staff nor customer is obliged to act.
Fairness == WF_vars(Tick) /\ WF_vars(SweepBegin) /\ SF_vars(SweepCommit)

FairSpec == Spec /\ Fairness
-----------------------------------------------------------------------------
(* Properties.                                                             *)

Offers == [status : OfferStatuses, expiresAt : Nat]

\* Every variable keeps its type, over all the handlers above.
TypeOK ==
  /\ status \in [Reservations -> Statuses]
  /\ assigned \in [Reservations -> Staff \cup {None}]
  /\ expiresAt \in [Reservations -> Nat \cup {None}]
  /\ terms \in [Reservations -> Nat]
  /\ offers \in [Reservations -> Seq(Offers)]
  /\ document \in [Reservations -> [generation : Nat, status : DocumentStatuses]]
  /\ previewed \in [Reservations -> SUBSET Staff]
  /\ event \in [Reservations -> Statuses]
  /\ tx \in [Handlers -> Txs \cup {NoTx}]
  /\ sweepAt \in Nat \cup {None}
  /\ clock \in Nat

\* A request that waits for the customer's answer has an offer to answer, so
\* that either the customer or the sweep can move it on.
OfferOutstanding ==
  \A r \in Reservations : status[r] = "ALTERNATIVE_OFFERED" => PendingOffers(r) # {}

\* The customer never has two offers to choose from, whatever late answers, sweeps
\* and new offers overlap: only the offer made last may be open, also when a late
\* answer to an earlier one has returned the request over its head, and while the
\* request waits for the customer it is.
OpenOfferIsLast ==
  \A r \in Reservations :
    /\ PendingOffers(r) \subseteq {Len(offers[r])}
    /\ status[r] = "ALTERNATIVE_OFFERED" => PendingOffers(r) = {Len(offers[r])}

\* Car, dates and rates of a request are those of the last offer the customer
\* accepted, whatever answers raced the sweep, and its own if there is none.
AcceptedTermsHold ==
  \A r \in Reservations :
    LET accepted == {i \in DOMAIN offers[r] : offers[r][i].status = "ACCEPTED"} IN
    IF accepted = {} THEN terms[r] = 0
    ELSE terms[r] \in accepted /\ \A i \in accepted : i <= terms[r]

\* Once a reviewer has a request, nobody takes it over.
AssignmentStands ==
  [][\A r \in Reservations : assigned[r] # None => assigned'[r] = assigned[r]]_vars

\* A verdict never falls on a document that nobody has opened since it was
\* uploaded, even when a replacement overtakes the reviewer.
VerdictOnReadDocument ==
  [][\A r \in Reservations :
       /\ document[r].status = "UPLOADED"
       /\ document'[r].generation = document[r].generation
       => document'[r].status \in {"UPLOADED", "UNDER_REVIEW"}]_vars

\* The request only moves along its life cycle: this module implements
\* ReservationLifecycle up to the pre-approval.
Lifecycle == INSTANCE ReservationLifecycle WITH Clashes <- {}

ImplementsLifecycle == Lifecycle!Spec

\* An offer does not hold a request for ever: it is answered or swept.
OfferResolves ==
  \A r \in Reservations :
    status[r] = "ALTERNATIVE_OFFERED" ~> status[r] # "ALTERNATIVE_OFFERED"

(* What a document of the repository says and the code does not keep.      *)

\* docs/IMPLEMENTATION_PLAN.md:296: the expiry of an offer writes a reservation
\* event.
ExpiryIsRecorded ==
  [][\A r \in Reservations :
       status[r] = "ALTERNATIVE_OFFERED" /\ status'[r] = "UNDER_REVIEW"
         => event'[r] = "UNDER_REVIEW"]_vars

\* docs/ARCHITECTURE.md:274: rejecting a document returns the request to the
\* customer.
RejectionReturnsRequest ==
  \A r \in Reservations :
    document[r].status = "REJECTED" => status[r] \notin {"PRE_APPROVED", "ALTERNATIVE_OFFERED"}

\* docs/IMPLEMENTATION_PLAN.md:291: the customer's reply notifies the assigned
\* reviewer, so there is one.
ReplyHasReviewer ==
  \A r \in Reservations : status[r] = "UNDER_REVIEW" => assigned[r] # None
=============================================================================
