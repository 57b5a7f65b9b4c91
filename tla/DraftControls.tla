---------------------------- MODULE DraftControls ----------------------------
(***************************************************************************)
(* The card of a draft on the customer's page and the reservation page     *)
(* that resumes it, next to what the API accepts.  The card names the next *)
(* step from the columns of the draft; the page opens its sections one     *)
(* after another from what it was answered about draft, policies,          *)
(* documents and review.  A page just loaded is meant: whoever presses a   *)
(* button has filled the form beside it.                                   *)
(***************************************************************************)
EXTENDS DraftSubmission

\* findCustomerDrafts and findCustomerDraft: a draft whose pickup is to come.
Listed(r) == status[r] = "DRAFT" /\ ~ due[r]

\* hasRequiredDraftConsents
HasRequiredDraftConsents(r) == terms[r] # 0

\* uploadedTypes, as far as the rules of the stored category ask for them.
Missing(r) == Required[category[r]] \ {document[k].type : k \in LiveKeys(r)}

StepDone(r) ==
  [s \in {"CUSTOMER_DETAILS", "CONSENTS", "DOCUMENTS"} |->
     CASE s = "CUSTOMER_DETAILS" -> category[r] # None
       [] s = "CONSENTS" -> HasRequiredDraftConsents(r)
       [] s = "DOCUMENTS" ->
            category[r] # None /\ Required[category[r]] # {} /\ Missing(r) = {}]

\* The card's next step, and the share of the bar beside it.
DraftSteps == <<"CUSTOMER_DETAILS", "CONSENTS", "DOCUMENTS">>

CardStep(r) ==
  CHOOSE n \in 1..4 :
    /\ n = 4 \/ ~ StepDone(r)[DraftSteps[n]]
    /\ \A i \in 1..(n - 1) : StepDone(r)[DraftSteps[i]]

CompletedSteps(r) == {n \in 1..3 : StepDone(r)[DraftSteps[n]]}
-----------------------------------------------------------------------------
(* The page, after the answers that resuming a draft asks for.             *)

\* (Slip: consents once given are shown as given, whatever was published since.)
SavedConsentsOfAnyVersion(r) == category[r] # None /\ HasRequiredDraftConsents(r)

\* savedConsents: those of an older bundle are dropped when the bundle arrives.
SavedConsents(r) ==
  category[r] # None /\ HasRequiredDraftConsents(r) /\ terms[r] = bundle

\* documentChecklist: asked for with the consents, refused without rules.
DocumentChecklist(r) ==
  SavedConsents(r) /\ DocumentContext(r) /\ Required[category[r]] # {}

\* getReview: what it knows to be missing, but for address and car.
Blockers(r) ==
  {b \in {"CUSTOMER_DETAILS", "REQUIRED_CONSENTS", "NON_EGYPTIAN_DECLARATION"} :
     CASE b = "CUSTOMER_DETAILS" -> category[r] = None
       [] b = "REQUIRED_CONSENTS" -> ~ HasRequiredDraftConsents(r)
       [] b = "NON_EGYPTIAN_DECLARATION" -> ~ declared[r]}

\* canSubmit and declarationOnly: the dialog takes the declaration.
FinalReview(r) ==
  IF DocumentChecklist(r) /\ Blockers(r) \subseteq {"NON_EGYPTIAN_DECLARATION"}
  THEN {"SUBMIT"} ELSE {}

ConsentsForm(r) == IF category[r] # None THEN {"CONSENTS"} ELSE {}

\* A row for each type the rules ask for; files of other types are not shown.
DocumentsSection(r) ==
  IF ~ DocumentChecklist(r) THEN {}
  ELSE {"UPLOAD"} \cup (IF Missing(r) = Required[category[r]] THEN {} ELSE {"REMOVE"})

DraftForm(r) == {"DETAILS"} \cup ConsentsForm(r) \cup DocumentsSection(r) \cup FinalReview(r)

\* A listed draft can be given up on its card, and resumed.
DraftCard(r) == IF Listed(r) THEN {"ABANDON"} \cup DraftForm(r) ELSE {}
-----------------------------------------------------------------------------
\* What the handlers ask of the draft before they begin, button by button; the
\* page sends the one category that is still offered.
Accepted(r, c) ==
  \/ c \in {"ABANDON", "DETAILS"} /\ Editable(r)
  \/ c = "CONSENTS" /\ ConsentsAccepted(r)
  \/ c = "UPLOAD" /\ \E t \in Types : UploadAccepted(r, t)
  \/ c = "REMOVE" /\ \E k \in Keys : DeleteAccepted(r, k)
  \/ c = "SUBMIT" /\ Ready(r)

\* The review has no blocker for a category that is no longer accepted, so the
\* button of such a draft is answered with a refusal; saving the details again
\* is the way on.
OfOldCategory(r, c) == c = "SUBMIT" /\ category[r] # Foreign

\* A category left without a document rule: its documents cannot be listed.
WithoutRules(r) == category[r] # None /\ Required[category[r]] = {}

(***************************************************************************)
(* A draft resumed at any moment, between any two steps of another tab, of *)
(* a publication or of the clearing of documents: every button its card    *)
(* and its page offer is one the API accepts (toCustomerDraftSummary,      *)
(* getReview and the effects of the page, against the handlers); the card  *)
(* counts exactly the steps before the one it names; and where that step   *)
(* is past the consents the request can be submitted, or the bundle        *)
(* changed and the page asks for the consents again, or no rule is left.   *)
(***************************************************************************)
DraftResumes ==
  \A r \in Drafts : Listed(r) =>
    /\ \A c \in DraftCard(r) : OfOldCategory(r, c) \/ Accepted(r, c)
    /\ CompletedSteps(r) = 1..(CardStep(r) - 1)
    /\ CardStep(r) > 2 =>
         /\ "CONSENTS" \in DraftCard(r)
         /\ "SUBMIT" \in DraftCard(r) \/ terms[r] # bundle \/ WithoutRules(r)
=============================================================================
