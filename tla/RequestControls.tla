--------------------------- MODULE RequestControls ---------------------------
(***************************************************************************)
(* What the page of the sales team and the page of the customer offer      *)
(* while a request is under review, next to what the API accepts.  A page  *)
(* that has just been loaded shows the request as it stands; which panels  *)
(* and buttons it has is decided in the browser, from the status, the      *)
(* reviewer, the documents and the offer it was sent, and the handlers of  *)
(* SalesReview decide for themselves.  Texts, fields and the length of     *)
(* notes are left out: whoever presses a button has filled the form.       *)
(***************************************************************************)
EXTENDS SalesReview

\* findSalesQueue and the card of a request: the oldest 100, which are all.
InQueue(r, s) ==
  /\ status[r] \notin {"REJECTED", "EXPIRED"}
  /\ \/ s \in Admins
     \/ status[r] = "PENDING_REVIEW" /\ assigned[r] = None
     \/ assigned[r] = s

\* findSalesReview: a rejected or expired request is not found.
Found(r) == status[r] \notin {"REJECTED", "EXPIRED"}

\* getSalesReview answers everybody but a colleague of the reviewer.
Readable(r, s) ==
  /\ Found(r)
  /\ s \in Sales => assigned[r] \in {None, s}

\* The page opens what its queue lists.
OpenOnPage(r, s) == InQueue(r, s) /\ Readable(r, s)

\* assignedToCurrentUser
Mine(r, s) == assigned[r] = s

\* canReviewDocuments
CanReviewDocuments(r, s) == s \in Admins \/ Mine(r, s)
-----------------------------------------------------------------------------
(* The sales page.                                                         *)

ClaimPanel(r, s) ==
  IF ~ Mine(r, s) /\ status[r] = "PENDING_REVIEW" THEN {"CLAIM"} ELSE {}

DecisionPanel(r, s) ==
  IF Mine(r, s) /\ status[r] = "UNDER_REVIEW" THEN DOMAIN Decisions ELSE {}

OfferPanel(r, s) ==
  IF Mine(r, s) /\ status[r] = "UNDER_REVIEW" THEN {"OFFER"} ELSE {}

\* The card of a document opens the studio and its gate.
StudioGate(r, s) ==
  IF CanReviewDocuments(r, s) /\ document[r].status # "ABSENT" THEN {"PREVIEW"} ELSE {}

\* (Slip: decisionsEnabled is left out.)
StudioDecisionsAlways(r, s) ==
  IF CanReviewDocuments(r, s) /\ s \in previewed[r]
  THEN {a \in DOMAIN Verdicts :
          Unread(r) \/ (a = "VERIFY" /\ document[r].status = "REJECTED")}
  ELSE {}

\* canVerify and canReject: the studio has just shown the document.
StudioDecisions(r, s) ==
  IF /\ CanReviewDocuments(r, s)
     /\ InDocumentReview(r)
     /\ s \in previewed[r]
  THEN {a \in DOMAIN Verdicts :
          Unread(r) \/ (a = "VERIFY" /\ document[r].status = "REJECTED")}
  ELSE {}

SalesControls(r, s) ==
  IF OpenOnPage(r, s)
  THEN ClaimPanel(r, s) \cup DecisionPanel(r, s) \cup OfferPanel(r, s)
         \cup StudioGate(r, s) \cup StudioDecisions(r, s)
  ELSE {}
-----------------------------------------------------------------------------
(* The customer's page.                                                    *)

\* needsResponse
NeedsResponse(r) == status[r] \in {"MORE_INFORMATION_REQUIRED", "ALTERNATIVE_OFFERED"}

ReplyPanel(r) == IF NeedsResponse(r) THEN {"REPLY"} ELSE {}

\* (Slip: the field appears only while the request is being reviewed.)
ReplacementDuringReview(r) ==
  IF document[r].status = "REJECTED" /\ status[r] = "UNDER_REVIEW" THEN {"UPLOAD"} ELSE {}

ReplacementField(r) ==
  IF document[r].status = "REJECTED" /\ status[r] = "MORE_INFORMATION_REQUIRED"
  THEN {"UPLOAD"} ELSE {}

\* The page shows the latest offer made, and its buttons while it is pending.
OfferSection(r) ==
  IF /\ status[r] = "ALTERNATIVE_OFFERED"
     /\ offers[r] # <<>>
     /\ offers[r][Len(offers[r])].status = "PENDING"
  THEN DOMAIN Responses ELSE {}

CustomerControls(r) == ReplyPanel(r) \cup ReplacementField(r) \cup OfferSection(r)
-----------------------------------------------------------------------------
(* What the API asks of the request when a button of the page is pressed.  *)

\* Button by button, what the handler examines before it begins.
StaffAccepted(r, s, c) ==
  \/ c = "CLAIM" /\ ClaimAccepted(r)
  \/ c \in DOMAIN Decisions \cup {"OFFER"} /\ ReviewAccepted(r, s)
  \/ c = "PREVIEW" /\ PreviewAccepted(r, s)
  \/ c \in DOMAIN Verdicts /\ VerdictAccepted(r, s, c)

\* An answer that comes late is refused, and ends the offer.
CustomerAccepted(r, c) ==
  \/ c = "REPLY" /\ ReplyAccepted(r)
  \/ c = "UPLOAD" /\ UploadAccepted(r)
  \/ c \in DOMAIN Responses /\ \E i \in DOMAIN offers[r] : AnswerAccepted(r, i)

\* Every button of a page just loaded by the staff is one the API accepts: page
\* and handlers agree on status, reviewer and documents, in every order in
\* which claims, answers, replacements and sweeps may have brought them about.
StaffServed ==
  \A r \in Reservations, s \in Staff :
    \A c \in SalesControls(r, s) : StaffAccepted(r, s, c)

\* A control that moves the request on, offered to somebody and accepted.
MovesOn(r) ==
  \/ \E s \in Staff : \E c \in SalesControls(r, s) \ {"PREVIEW", "VERIFY"} :
        StaffAccepted(r, s, c)
  \/ \E c \in CustomerControls(r) : CustomerAccepted(r, c)

\* A request under review that nobody reviews: the one way out is not on a page.
Orphaned(r) == status[r] = "UNDER_REVIEW" /\ assigned[r] = None

\* While a request is open, the page of the customer or of somebody of the staff
\* offers a step that the API accepts and that takes it on.  The reply form is
\* offered in states that refuse it (an offer to answer, a document to replace);
\* then there is another control beside it.
WayForward ==
  \A r \in Reservations :
    ~ Orphaned(r) /\ status[r] \notin {"PRE_APPROVED", "REJECTED", "EXPIRED"} => MovesOn(r)
=============================================================================
