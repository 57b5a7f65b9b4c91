--------------------------- MODULE DraftSubmission ---------------------------
(***************************************************************************)
(* The customer's half of a rental before anybody reviews it: a draft is   *)
(* saved, filled with details, consents and private documents, and then    *)
(* submitted, abandoned, or ended by the sweep once its pickup has passed. *)
(* Document bytes live in an object store that no transaction covers, so   *)
(* an upload stores first and a removal removes last.                      *)
(*                                                                         *)
(* Handlers read in one step and write in a later one, as in SalesReview.  *)
(* Several requests of one customer may be in flight: a second tab, a      *)
(* double click, a retry.  Whether the car is free and the e-mail address  *)
(* verified is the environment's choice: a submission refused for either   *)
(* changes nothing.                                                        *)
(*                                                                         *)
(* A definition marked "Slip" is no part of the model: it is a plausible   *)
(* mistake in the definition after it, kept to show which property would   *)
(* catch it.                                                               *)
(***************************************************************************)
EXTENDS Naturals

CONSTANTS
  Drafts,        \* reservation rows, saved or still to be saved
  Selection,     \* car, period and driver choice of each row
  Categories,    \* CustomerCategory
  Foreign,       \* the category whose requests are accepted
  Types,         \* document types
  Required,      \* the document types the active rules ask of a category
  Keys,          \* object keys, each drawn once (randomUUID)
  Handlers,      \* API requests of the customer in flight
  None,          \* an absent value (SQL NULL)
  MaxVersion     \* bound of the policy bundles published

ASSUME DraftAssumption ==
  /\ Foreign \in Categories
  /\ Required \in [Categories -> SUBSET Types]
  /\ None \notin Categories \cup Types \cup Keys \cup Drafts
  /\ MaxVersion \in Nat

VARIABLES
  status,      \* Reservation.status
  category,    \* customerCategorySnapshot, set with customerDetailsCompletedAt
  terms,       \* termsVersion, set with the four consent times; 0, none
  declared,    \* nonEgyptianAcknowledgedAt is set
  due,         \* pickupAt has passed
  bundle,      \* the version of the four policies in force
  document,    \* per object key, the ReservationDocument row that names it
  objects,     \* the objects in the store
  tx,          \* what each handler read and means to do next
  sweep,       \* the same of the expiry sweep
  submissions, \* ReservationEvents that say PENDING_REVIEW
  lost         \* keys of uploads that committed and were answered with an error

formVars == <<category, terms, declared>>
factVars == <<due, bundle>>
fileVars == <<document, objects, lost>>
vars == <<status, formVars, factVars, fileVars, tx, sweep, submissions>>

Statuses == {"NEW", "DRAFT", "PENDING_REVIEW", "EXPIRED"}

\* UNUSED, stored without a row, or the state of its row.
RowStates == {"UNUSED", "ROWLESS", "LIVE", "DELETED"}
Rows == [of : Drafts \cup {None}, type : Types \cup {None}, state : RowStates]

\* A handler's next step, the draft it works on, what it carries (a category,
\* a version, a document type), the category it read, its object key, and the
\* keys whose objects it is to remove.
Ops == {"SAVE", "DETAILS", "CLEAR", "CLEARING", "CONSENTS", "STORED", "REPLACE",
        "DELETE", "SUBMIT", "ABANDON", "REMOVE"}
Txs == [op : Ops, draft : Drafts, choice : Categories \cup Types \cup Nat \cup {None},
        seen : Categories \cup {None}, key : Keys \cup {None}, keys : SUBSET Keys]
NoTx == [op |-> "NONE"]

Sweeps == [op : {"SWEEP", "REMOVE"}, drafts : SUBSET Drafts, keys : SUBSET Keys]

LiveKeys(r) == {k \in Keys : document[k].state = "LIVE" /\ document[k].of = r}
-----------------------------------------------------------------------------
Init ==
  /\ status = [r \in Drafts |-> "NEW"]
  /\ category = [r \in Drafts |-> None]
  /\ terms = [r \in Drafts |-> 0]
  /\ declared = [r \in Drafts |-> FALSE]
  /\ due = [r \in Drafts |-> FALSE]
  /\ bundle = 1
  /\ document = [k \in Keys |-> [of |-> None, type |-> None, state |-> "UNUSED"]]
  /\ objects = {}
  /\ tx = [h \in Handlers |-> NoTx]
  /\ sweep = NoTx
  /\ submissions = [r \in Drafts |-> 0]
  /\ lost = {}

\* A handler that starts, with what it read.
Begin(h, t) == tx[h] = NoTx /\ tx' = [tx EXCEPT ![h] = t]

Continue(h, t) == tx' = [tx EXCEPT ![h] = t]

Finish(h) == tx' = [tx EXCEPT ![h] = NoTx]

Carry(op, r, choice, seen) ==
  [op |-> op, draft |-> r, choice |-> choice, seen |-> seen, key |-> None, keys |-> {}]

\* The handler has committed; it may be left with objects to remove.
Removing(r, K) ==
  IF K = {} THEN NoTx ELSE [Carry("REMOVE", r, None, None) EXCEPT !.keys = K]

\* (Slip: a retired row is given a state no reader knows.)
RetireUnknown(K) ==
  [k \in Keys |-> IF k \in K THEN [document[k] EXCEPT !.state = "REMOVED"] ELSE document[k]]

\* The rows a transaction soft-deletes.
Retire(K) ==
  [k \in Keys |-> IF k \in K THEN [document[k] EXCEPT !.state = "DELETED"] ELSE document[k]]

\* The process stops, or a write is refused, or its connection is lost before
\* the commit: nothing of the transaction is kept, and whatever the handler
\* still had to remove stays in the store.
Abort(h) ==
  /\ tx[h] # NoTx
  /\ Finish(h)
  /\ UNCHANGED <<status, formVars, factVars, fileVars, sweep, submissions>>
-----------------------------------------------------------------------------
(* The steps of the form.                                                  *)

\* An equal draft is returned as it is; only when there is none is one made.
BeginSave(h, r) ==
  /\ status[r] = "NEW"
  /\ ~\E q \in Drafts : status[q] = "DRAFT" /\ Selection[q] = Selection[r]
  /\ Begin(h, Carry("SAVE", r, None, None))
  /\ UNCHANGED <<status, formVars, factVars, fileVars, sweep, submissions>>

CommitSave(h) ==
  LET r == tx[h].draft IN
  /\ tx[h].op = "SAVE"
  /\ status[r] = "NEW"
  /\ status' = [status EXCEPT ![r] = "DRAFT"]
  /\ Finish(h)
  /\ UNCHANGED <<formVars, factVars, fileVars, sweep, submissions>>

\* What the draft is asked for before its details are saved, or it is given up.
Editable(r) == status[r] = "DRAFT"

BeginDetails(h, r, c) ==
  /\ Editable(r)
  /\ Begin(h, Carry("DETAILS", r, c, category[r]))
  /\ UNCHANGED <<status, formVars, factVars, fileVars, sweep, submissions>>

\* A change of category goes on to clear the documents of the old one.
CommitDetails(h) ==
  LET r == tx[h].draft
      changed == tx[h].seen # None /\ tx[h].seen # tx[h].choice
  IN
  /\ tx[h].op = "DETAILS"
  /\ status[r] = "DRAFT"
  /\ category' = [category EXCEPT ![r] = tx[h].choice]
  /\ IF changed THEN Continue(h, Carry("CLEAR", r, None, None)) ELSE Finish(h)
  /\ UNCHANGED <<status, terms, declared, factVars, fileVars, sweep, submissions>>

\* The second transaction of that handler reads the rows of a draft.
BeginClear(h) ==
  LET r == tx[h].draft IN
  /\ tx[h].op = "CLEAR"
  /\ status[r] = "DRAFT" /\ LiveKeys(r) # {}
  /\ Continue(h, [Carry("CLEARING", r, None, None) EXCEPT !.keys = LiveKeys(r)])
  /\ UNCHANGED <<status, formVars, factVars, fileVars, sweep, submissions>>

\* Its update names the reservation and neither its status nor the rows read.
CommitClear(h) ==
  LET r == tx[h].draft IN
  /\ tx[h].op = "CLEARING"
  /\ document' = Retire(LiveKeys(r))
  /\ Continue(h, Removing(r, tx[h].keys))
  /\ UNCHANGED <<status, formVars, factVars, objects, lost, sweep, submissions>>

ConsentsAccepted(r) == status[r] = "DRAFT" /\ category[r] # None

\* The version the customer was shown is still the one in force.
BeginConsents(h, r) ==
  /\ ConsentsAccepted(r)
  /\ Begin(h, Carry("CONSENTS", r, bundle, None))
  /\ UNCHANGED <<status, formVars, factVars, fileVars, sweep, submissions>>

CommitConsents(h) ==
  LET r == tx[h].draft IN
  /\ tx[h].op = "CONSENTS"
  /\ status[r] = "DRAFT" /\ category[r] # None
  /\ terms' = [terms EXCEPT ![r] = tx[h].choice]
  /\ Finish(h)
  /\ UNCHANGED <<status, category, declared, factVars, fileVars, sweep, submissions>>
-----------------------------------------------------------------------------
(* Private documents.                                                      *)

\* What every document operation asks of the draft first.
DocumentContext(r) == status[r] = "DRAFT" /\ category[r] # None /\ terms[r] # 0

UploadAccepted(r, t) == DocumentContext(r) /\ t \in Required[category[r]]

\* The object is stored under a fresh key before the database is asked.
BeginUpload(h, r, t, k) ==
  /\ UploadAccepted(r, t)
  /\ document[k].state = "UNUSED"
  /\ document' = [document EXCEPT ![k].state = "ROWLESS"]
  /\ objects' = objects \cup {k}
  /\ Begin(h, [Carry("STORED", r, t, None) EXCEPT !.key = k])
  /\ UNCHANGED <<status, formVars, factVars, lost, sweep, submissions>>

\* The transaction finds the draft, and the rows the new one replaces.
ReadReplaced(h) ==
  LET r == tx[h].draft
      replaced == {k \in LiveKeys(r) : document[k].type = tx[h].choice}
  IN
  /\ tx[h].op = "STORED"
  /\ status[r] = "DRAFT"
  /\ Continue(h, [tx[h] EXCEPT !.op = "REPLACE", !.keys = replaced])
  /\ UNCHANGED <<status, formVars, factVars, fileVars, sweep, submissions>>

\* Every live row of the type gives way to the new one.
Replaced(h) ==
  LET r == tx[h].draft
      old == {k \in LiveKeys(r) : document[k].type = tx[h].choice}
  IN [Retire(old) EXCEPT
        ![tx[h].key] = [of |-> r, type |-> tx[h].choice, state |-> "LIVE"]]

\* (Slip: the clean-up after an upload takes the new object for an old one.)
CommitUploadRemovingAll(h) ==
  /\ tx[h].op = "REPLACE"
  /\ document' = Replaced(h)
  /\ Continue(h, Removing(tx[h].draft, tx[h].keys \cup {tx[h].key}))
  /\ UNCHANGED <<status, formVars, factVars, objects, lost, sweep, submissions>>

CommitUpload(h) ==
  /\ tx[h].op = "REPLACE"
  /\ document' = Replaced(h)
  /\ Continue(h, Removing(tx[h].draft, tx[h].keys))
  /\ UNCHANGED <<status, formVars, factVars, objects, lost, sweep, submissions>>

\* The draft is gone, or the transaction fails: the object is taken back.
UploadRefused(h) ==
  /\ \/ tx[h].op = "STORED" /\ status[tx[h].draft] # "DRAFT"
     \/ tx[h].op = "REPLACE"
  /\ Continue(h, Removing(tx[h].draft, {tx[h].key}))
  /\ UNCHANGED <<status, formVars, factVars, fileVars, sweep, submissions>>

\* The transaction commits and its answer is lost: the handler takes that for
\* a failure and takes back the object of the row it has just committed.
UploadAnswerLost(h) ==
  /\ tx[h].op = "REPLACE"
  /\ document' = Replaced(h)
  /\ lost' = lost \cup {tx[h].key}
  /\ Continue(h, Removing(tx[h].draft, {tx[h].key}))
  /\ UNCHANGED <<status, formVars, factVars, objects, sweep, submissions>>

DeleteAccepted(r, k) == DocumentContext(r) /\ k \in LiveKeys(r)

BeginDelete(h, r, k) ==
  /\ DeleteAccepted(r, k)
  /\ Begin(h, [Carry("DELETE", r, None, None) EXCEPT !.key = k])
  /\ UNCHANGED <<status, formVars, factVars, fileVars, sweep, submissions>>

\* The row is updated by its id alone.
CommitDelete(h) ==
  /\ tx[h].op = "DELETE"
  /\ document' = Retire({tx[h].key})
  /\ Continue(h, Removing(tx[h].draft, {tx[h].key}))
  /\ UNCHANGED <<status, formVars, factVars, objects, lost, sweep, submissions>>

\* What was committed away is removed from the store, as far as the store
\* answers: a removal that fails is not tried again.
RemoveObjects(h) ==
  /\ tx[h].op = "REMOVE"
  /\ \E K \in SUBSET tx[h].keys : objects' = objects \ K
  /\ Finish(h)
  /\ UNCHANGED <<status, formVars, factVars, document, lost, sweep, submissions>>
-----------------------------------------------------------------------------
(* The ways a draft ends.                                                  *)

\* (Slip: the consents are left to the form to ask for.)
ReadyWithoutConsents(r) ==
  /\ status[r] = "DRAFT"
  /\ category[r] = Foreign /\ ~due[r]

\* Nothing of the draft itself keeps the customer from submitting it.
Ready(r) ==
  /\ status[r] = "DRAFT"
  /\ category[r] = Foreign
  /\ terms[r] # 0 /\ terms[r] = bundle
  /\ ~due[r]

BeginSubmit(h, r) ==
  /\ Ready(r)
  /\ Begin(h, Carry("SUBMIT", r, None, None))
  /\ UNCHANGED <<status, formVars, factVars, fileVars, sweep, submissions>>

\* (Slip: the submission is written by id.)
SubmittableById(r) == status[r] # "NEW"

\* The WHERE clause of the submission.
Submittable(r) == status[r] = "DRAFT"

CommitSubmit(h) ==
  LET r == tx[h].draft IN
  /\ tx[h].op = "SUBMIT"
  /\ Submittable(r)
  /\ status' = [status EXCEPT ![r] = "PENDING_REVIEW"]
  /\ declared' = [declared EXCEPT ![r] = TRUE]
  /\ submissions' = [submissions EXCEPT ![r] = @ + 1]
  /\ Finish(h)
  /\ UNCHANGED <<category, terms, factVars, fileVars, sweep>>

BeginAbandon(h, r) ==
  /\ Editable(r)
  /\ Begin(h, [Carry("ABANDON", r, None, None) EXCEPT !.keys = LiveKeys(r)])
  /\ UNCHANGED <<status, formVars, factVars, fileVars, sweep, submissions>>

\* (Slip: the abandonment is written by id.)
CommitAbandonById(h) ==
  LET r == tx[h].draft IN
  /\ tx[h].op = "ABANDON"
  /\ status' = [status EXCEPT ![r] = "EXPIRED"]
  /\ document' = Retire(LiveKeys(r))
  /\ Continue(h, Removing(r, tx[h].keys))
  /\ UNCHANGED <<formVars, factVars, objects, lost, sweep, submissions>>

\* The rows are soft-deleted as they are now, the objects removed as read.
CommitAbandon(h) ==
  LET r == tx[h].draft IN
  /\ tx[h].op = "ABANDON"
  /\ status[r] = "DRAFT"
  /\ status' = [status EXCEPT ![r] = "EXPIRED"]
  /\ document' = Retire(LiveKeys(r))
  /\ Continue(h, Removing(r, tx[h].keys))
  /\ UNCHANGED <<formVars, factVars, objects, lost, sweep, submissions>>

DueDrafts == {r \in Drafts : status[r] = "DRAFT" /\ due[r]}

SweepBegin ==
  /\ sweep = NoTx
  /\ DueDrafts # {}
  /\ sweep' = [op |-> "SWEEP", drafts |-> DueDrafts,
               keys |-> UNION {LiveKeys(r) : r \in DueDrafts}]
  /\ UNCHANGED <<status, formVars, factVars, fileVars, tx, submissions>>

SweepCommit ==
  LET ended == {r \in sweep.drafts : status[r] = "DRAFT"} IN
  /\ sweep # NoTx /\ sweep.op = "SWEEP"
  /\ status' = [r \in Drafts |-> IF r \in ended THEN "EXPIRED" ELSE status[r]]
  /\ document' = Retire(UNION {LiveKeys(r) : r \in ended})
  /\ sweep' = [op |-> "REMOVE", drafts |-> {},
               keys |-> {k \in sweep.keys : document[k].of \in ended}]
  /\ UNCHANGED <<formVars, factVars, objects, lost, tx, submissions>>

SweepRemove ==
  /\ sweep # NoTx /\ sweep.op = "REMOVE"
  /\ \E K \in SUBSET sweep.keys : objects' = objects \ K
  /\ sweep' = NoTx
  /\ UNCHANGED <<status, formVars, factVars, document, lost, tx, submissions>>

\* The error is logged and the running flag cleared.
SweepFails ==
  /\ sweep # NoTx /\ sweep.op = "SWEEP"
  /\ sweep' = NoTx
  /\ UNCHANGED <<status, formVars, factVars, fileVars, tx, submissions>>
-----------------------------------------------------------------------------
(* What the rest of the system does meanwhile.                             *)

PublishBundle ==
  /\ bundle < MaxVersion /\ bundle' = bundle + 1
  /\ UNCHANGED <<status, formVars, due, fileVars, tx, sweep, submissions>>

PickupPasses(r) ==
  /\ status[r] # "NEW" /\ ~due[r]
  /\ due' = [due EXCEPT ![r] = TRUE]
  /\ UNCHANGED <<status, formVars, bundle, fileVars, tx, sweep, submissions>>

Form(h) ==
  \/ \E r \in Drafts :
       \/ BeginSave(h, r)
       \/ \E c \in Categories : BeginDetails(h, r, c)
       \/ BeginConsents(h, r)
  \/ CommitSave(h) \/ CommitDetails(h) \/ BeginClear(h) \/ CommitClear(h)
  \/ CommitConsents(h)

Files(h) ==
  \/ \E r \in Drafts, k \in Keys :
       (\E t \in Types : BeginUpload(h, r, t, k)) \/ BeginDelete(h, r, k)
  \/ ReadReplaced(h) \/ CommitUpload(h) \/ UploadRefused(h)
  \/ UploadAnswerLost(h) \/ CommitDelete(h) \/ RemoveObjects(h)

Ending(h) ==
  \/ \E r \in Drafts : BeginSubmit(h, r) \/ BeginAbandon(h, r)
  \/ CommitSubmit(h) \/ CommitAbandon(h)

Sweeping == SweepBegin \/ SweepCommit \/ SweepRemove \/ SweepFails

World == PublishBundle \/ \E r \in Drafts : PickupPasses(r)

Next ==
  \/ \E h \in Handlers : Form(h) \/ Files(h) \/ Ending(h) \/ Abort(h)
  \/ Sweeping
  \/ World

Spec == Init /\ [][Next]_vars
-----------------------------------------------------------------------------
TypeOK ==
  /\ status \in [Drafts -> Statuses]
  /\ category \in [Drafts -> Categories \cup {None}]
  /\ terms \in [Drafts -> Nat]
  /\ declared \in [Drafts -> BOOLEAN]
  /\ due \in [Drafts -> BOOLEAN]
  /\ bundle \in Nat
  /\ document \in [Keys -> Rows]
  /\ objects \subseteq Keys
  /\ tx \in [Handlers -> Txs \cup {NoTx}]
  /\ sweep \in Sweeps \cup {NoTx}
  /\ submissions \in [Drafts -> Nat]
  /\ lost \subseteq Keys

(***************************************************************************)
(* A request that reached the sales team is complete: its details and the  *)
(* consents to one policy version are recorded and the declaration was     *)
(* made (submitDraft), although they are read before the write and the     *)
(* write names the status only.                                            *)
(***************************************************************************)
SubmittedIsComplete ==
  \A r \in Drafts : status[r] = "PENDING_REVIEW" =>
     category[r] # None /\ terms[r] # 0 /\ declared[r]

(***************************************************************************)
(* A document row that counts names an object of the store: uploads store  *)
(* before they commit and removals come after the commit that retires the  *)
(* row (uploadDocument, deleteDocument, abandonment and sweep).  The one   *)
(* exception is an upload whose commit was answered with an error.         *)
(***************************************************************************)
LiveRowHasObject ==
  \A k \in Keys : document[k].state = "LIVE" => k \in objects \/ k \in lost

(***************************************************************************)
(* However often the customer submits, retries or submits beside an        *)
(* abandonment and the sweep, a request enters the sales queue once.       *)
(***************************************************************************)
SubmittedOnce ==
  \A r \in Drafts :
     submissions[r] = IF status[r] = "PENDING_REVIEW" THEN 1 ELSE 0

(***************************************************************************)
(* A draft is submitted or ended, and neither is taken back: the status    *)
(* column moves along the life cycle.  A row not yet saved counts as a     *)
(* draft.                                                                  *)
(***************************************************************************)
Lifecycle == INSTANCE ReservationLifecycle
  WITH Reservations <- Drafts, Clashes <- {},
       status <- [r \in Drafts |-> IF status[r] = "NEW" THEN "DRAFT" ELSE status[r]]

ImplementsLifecycle == Lifecycle!Spec
=============================================================================
