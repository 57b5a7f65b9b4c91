----------------------------- MODULE RequestForm -----------------------------
(***************************************************************************)
(* The form in which a customer writes a request: the dates, then the      *)
(* draft saved for them, the details, the consents, the documents and the  *)
(* final review, each step shown once the one before it is saved.          *)
(*                                                                         *)
(* What the page reads (the policies, the checklist, the review) it reads  *)
(* in effects, cancelled and started again when what they depend on is     *)
(* set; what it saves it sends and waits for, and the answer is used       *)
(* whatever happened on the page meanwhile.                                *)
(*                                                                         *)
(* A draft is named by the dates and driver it was saved for: saving the   *)
(* same ones again finds the same draft.                                   *)
(***************************************************************************)
EXTENDS Requests

CONSTANTS
  Choices,      \* dates and driver choices
  Later         \* the one that leaves the driver to sales

ASSUME RequestFormAssumption == Later \in Choices /\ None \notin Choices

VARIABLES
  requested,   \* the draft the page was opened to resume, None for none
  chosen,      \* the dates and driver in the form
  form,        \* what the page holds as saved or read
  awaited      \* reads under way: what is read, and the draft it is of

requestFormVars == <<requested, chosen, form, awaited, request>>

Blank ==
  [summary |-> FALSE, draft |-> None, details |-> FALSE, bundle |-> FALSE,
   consents |-> FALSE, checklist |-> None, review |-> None, submitted |-> None]

Saveable == Choices \ {Later}

RequestFormInit ==
  /\ requested \in Saveable \cup {None}
  /\ chosen \in Choices
  /\ form = Blank
  /\ awaited = IF requested = None THEN {} ELSE {[what |-> "RESUME", draft |-> requested]}
  /\ RequestInit

\* What each read depends on, and whether the page makes it.
DependsOn ==
  [RESUME |-> {}, POLICIES |-> {"details"}, CHECKLIST |-> {"draft", "consents"},
   REVIEW |-> {"draft", "checklist", "submitted"}]

Wanted(f) ==
  (IF f.details THEN {"POLICIES"} ELSE {})
    \cup (IF f.draft # None /\ f.consents THEN {"CHECKLIST"} ELSE {})
    \cup (IF f.draft # None /\ f.checklist # None /\ f.submitted = None
          THEN {"REVIEW"} ELSE {})

\* The reads that go on when "set" is set.  (Slip: none is cancelled.)
KeptAll(set) == awaited

Kept(set) == {a \in awaited : DependsOn[a.what] \cap set = {}}

\* The page with "set" set: reads are cancelled and started again.
Show(f, set) ==
  /\ form' = f
  /\ awaited' = Kept(set)
       \cup {[what |-> w, draft |-> f.draft] :
               w \in {v \in Wanted(f) : DependsOn[v] \cap set # {}}}

OneAtATime(op) == \A h \in Handlers : request[h].op # op

Post(h, op, draft) ==
  /\ Begin(h, [op |-> op, draft |-> draft])
  /\ UNCHANGED <<requested, chosen, form, awaited>>
-----------------------------------------------------------------------------
(* What the customer does.  The fields stay open while they are saved.     *)

EverySet == {"draft", "details", "consents", "checklist", "submitted"}

ChooseAnother(c) ==
  /\ c # chosen /\ chosen' = c
  /\ Show(Blank, EverySet)
  /\ UNCHANGED <<requested, request>>

ReviewSelections ==
  /\ Show([form EXCEPT !.summary = TRUE], {})
  /\ UNCHANGED <<requested, chosen, request>>

SaveSelections(h) ==
  /\ form.summary /\ form.draft = None /\ chosen # Later
  /\ OneAtATime("SAVE")
  /\ Post(h, "SAVE", chosen)

EditDetails ==
  /\ form.summary /\ form.draft # None
  /\ Show([Blank EXCEPT !.summary = TRUE, !.draft = form.draft], EverySet \ {"draft"})
  /\ UNCHANGED <<requested, chosen, request>>

SaveDetails(h) ==
  /\ form.summary /\ form.draft # None
  /\ OneAtATime("DETAILS")
  /\ Post(h, "DETAILS", form.draft)

ChangeConsents ==
  /\ form.summary /\ form.details /\ form.bundle
  /\ Show([form EXCEPT !.consents = FALSE, !.checklist = None, !.review = None,
                       !.submitted = None], {"consents", "checklist", "submitted"})
  /\ UNCHANGED <<requested, chosen, request>>

SavePolicyConsents(h) ==
  /\ form.summary /\ form.details /\ form.bundle /\ form.draft # None
  /\ OneAtATime("CONSENTS")
  /\ Post(h, "CONSENTS", form.draft)

\* Only an upload under way holds either back.
ChangeDocument(h, op) ==
  /\ op \in {"UPLOAD", "REMOVE"}
  /\ form.summary /\ form.consents /\ form.checklist # None /\ form.draft # None
  /\ OneAtATime("UPLOAD")
  /\ Post(h, op, form.draft)

\* Whether the review says the draft is complete, and the declaration asked
\* for before the call, are the server's to decide and are left out.
SubmitRequest(h) ==
  /\ form.summary /\ form.draft # None /\ form.checklist # None
  /\ form.review # None /\ form.submitted = None
  /\ OneAtATime("SUBMIT")
  /\ Post(h, "SUBMIT", form.draft)
-----------------------------------------------------------------------------
(* What answers.                                                           *)

\* A saved answer, used whatever the page shows now.
PostAnswered(h) ==
  LET r == request[h] IN
  /\ r # NoRequest /\ Finish(h)
  /\ CASE r.op = "SAVE" -> Show([form EXCEPT !.draft = r.draft], {"draft"})
       [] r.op = "DETAILS" -> Show([form EXCEPT !.details = TRUE], {"details"})
       [] r.op = "CONSENTS" -> Show([form EXCEPT !.consents = TRUE], {"consents"})
       [] r.op \in {"UPLOAD", "REMOVE"} ->
            Show([form EXCEPT !.checklist = r.draft], {"checklist"})
       [] r.op = "SUBMIT" -> Show([form EXCEPT !.submitted = r.draft], {"submitted"})
  /\ UNCHANGED <<requested, chosen>>

PostRefused(h) ==
  /\ request[h] # NoRequest /\ Finish(h)
  /\ UNCHANGED <<requested, chosen, form, awaited>>

ReadArrives(a) ==
  LET Answered(f, set) ==
        /\ form' = f
        /\ awaited' = (Kept(set) \ {a})
             \cup {[what |-> w, draft |-> f.draft] :
                     w \in {v \in Wanted(f) : DependsOn[v] \cap set # {}}}
  IN
  /\ a \in awaited
  /\ \/ /\ a.what = "RESUME" /\ chosen' = a.draft
        /\ \E d, c \in BOOLEAN :
             Answered([form EXCEPT !.summary = TRUE, !.draft = a.draft,
                         !.details = @ \/ d, !.consents = @ \/ c],
                      {"draft", "details", "consents"})
     \* A resumed consent of an earlier version of the policies is dropped.
     \/ /\ a.what = "POLICIES" /\ chosen' = chosen
        /\ \/ Answered([form EXCEPT !.bundle = TRUE], {})
           \/ /\ requested # None
              /\ Answered([form EXCEPT !.bundle = TRUE, !.consents = FALSE,
                                       !.checklist = None], {"consents", "checklist"})
     \/ /\ a.what = "CHECKLIST" /\ chosen' = chosen
        /\ Answered([form EXCEPT !.checklist = a.draft], {"checklist"})
     \/ /\ a.what = "REVIEW" /\ chosen' = chosen
        /\ Answered([form EXCEPT !.review = a.draft], {})
  /\ UNCHANGED <<requested, request>>

ReadFails(a) ==
  /\ a \in awaited /\ awaited' = awaited \ {a}
  /\ UNCHANGED <<requested, chosen, form, request>>

RequestFormNext ==
  \/ \E c \in Choices : ChooseAnother(c)
  \/ ReviewSelections \/ EditDetails \/ ChangeConsents
  \/ \E h \in Handlers :
       \/ SaveSelections(h) \/ SaveDetails(h) \/ SavePolicyConsents(h)
       \/ SubmitRequest(h) \/ PostAnswered(h) \/ PostRefused(h)
       \/ \E op \in {"UPLOAD", "REMOVE"} : ChangeDocument(h, op)
  \/ \E a \in awaited : ReadArrives(a) \/ ReadFails(a)

RequestFormSpec == RequestFormInit /\ [][RequestFormNext]_requestFormVars
-----------------------------------------------------------------------------
Drafts == Saveable \cup {None}

Forms ==
  [summary : BOOLEAN, draft : Drafts, details : BOOLEAN, bundle : BOOLEAN, consents : BOOLEAN,
   checklist : Drafts, review : Drafts, submitted : Drafts]

RequestFormTypeOK ==
  /\ requested \in Drafts
  /\ chosen \in Choices
  /\ form \in Forms
  /\ awaited \subseteq [what : DOMAIN DependsOn, draft : Drafts]

(***************************************************************************)
(* The review the customer sends the request from is that of the draft the *)
(* button submits, whatever answers come late: a new choice cancels the    *)
(* reads of the old draft, and no second save can be under way.  A page    *)
(* opened to resume a draft is left out: there the draft may be replaced   *)
(* by that of a save sent before it was read.                              *)
(***************************************************************************)
ReviewOfThisDraft == requested = None => form.review \in {None, form.draft}
=============================================================================
