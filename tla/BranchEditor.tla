----------------------------- MODULE BranchEditor -----------------------------
(***************************************************************************)
(* The page on which branches are kept: its list, and one dialog in which  *)
(* a branch is written, disabled or deleted.                               *)
(*                                                                         *)
(* Only a save holds back the next save.  The fields stay open during one, *)
(* the dialog can be closed and another branch opened, and two changes may *)
(* be under way.  Their answers are put into the list and into the dialog, *)
(* whichever branch that shows by then, or none.                           *)
(*                                                                         *)
(* A branch is what its last change left: a version.  Which fields were    *)
(* typed, whether they pass, the rights shown and the reason asked for a   *)
(* deletion are left out; a call may fail for each of them.                *)
(***************************************************************************)
EXTENDS Requests, Naturals

CONSTANTS
  Offices,       \* the branches
  MaxChanges     \* bound of the versions of one branch

ASSUME BranchEditorAssumption == MaxChanges \in Nat \ {0}

VARIABLES
  kept,        \* per branch, its version in the database, 0 for no row
  deleted,     \* branches that were
  shown,       \* per branch, its version in the list, 0 for no entry
  dialog,      \* what the dialog shows
  dirty,       \* closing it asks first
  working      \* a change is said to be under way

branchEditorVars == <<kept, deleted, shown, dialog, dirty, working, request>>

NoDialog == [open |-> FALSE, id |-> None, version |-> 0, typed |-> FALSE]

FormOf(id, version) == [open |-> TRUE, id |-> id, version |-> version, typed |-> FALSE]

\* The list has arrived; nothing is done before.
BranchEditorInit ==
  /\ kept \in [Offices -> 0..1] /\ shown = kept
  /\ deleted = {}
  /\ dialog = NoDialog /\ dirty = FALSE /\ working = FALSE
  /\ RequestInit

Turn(d, isDirty) ==
  /\ dialog' = d /\ dirty' = isDirty
  /\ UNCHANGED <<kept, deleted, shown, working, request>>

\* What was typed is dropped once the question, asked if dirty, is answered.
OpenCreate == Turn(FormOf(None, 0), FALSE)

OpenEdit(b) == shown[b] # 0 /\ Turn(FormOf(b, shown[b]), FALSE)

CloseDialog == dialog.open /\ Turn(NoDialog, FALSE)

ChangeField == dialog.open /\ Turn([dialog EXCEPT !.typed = TRUE], TRUE)
-----------------------------------------------------------------------------
Call(h, op) ==
  /\ Begin(h, [op |-> op, id |-> dialog.id])
  /\ working' = TRUE
  /\ UNCHANGED <<kept, deleted, shown, dialog, dirty>>

SaveBranch(h) == dialog.open /\ ~working /\ Call(h, "SAVE")

DisableOrDelete(h, op) ==
  /\ op \in {"DISABLE", "DELETE"}
  /\ dialog.open /\ dialog.id # None
  /\ Call(h, op)

\* The row a change is of: a new one for a branch without an id.
RowOf(r, b) == IF r.id = None THEN kept[b] = 0 /\ b \notin deleted ELSE b = r.id /\ kept[b] # 0

BranchStored(h, b) ==
  LET r == request[h] IN
  /\ r.op \in {"SAVE", "DISABLE"}
  /\ RowOf(r, b) /\ kept[b] < MaxChanges
  /\ kept' = [kept EXCEPT ![b] = @ + 1]
  /\ Continue(h, [op |-> "STORED", what |-> r.op, id |-> b, version |-> kept[b] + 1])
  /\ UNCHANGED <<deleted, shown, dialog, dirty, working>>

\* Nothing refers to the branch.
RowDeleted(h) ==
  LET b == request[h].id IN
  /\ request[h].op = "DELETE" /\ kept[b] # 0
  /\ kept' = [kept EXCEPT ![b] = 0] /\ deleted' = deleted \cup {b}
  /\ Continue(h, [op |-> "DELETED", id |-> b])
  /\ UNCHANGED <<shown, dialog, dirty, working>>

Answered(h, list, d) ==
  /\ shown' = list /\ dialog' = d
  /\ dirty' = FALSE /\ working' = FALSE
  /\ Finish(h)
  /\ UNCHANGED <<kept, deleted>>

\* The dialog after an answer.  (Slip: the form is left as it is.)
FormLeft(r) == dialog

FormAnswered(r) == FormOf(r.id, r.version)

\* A save adds an entry the list lacks, also that of a branch deleted since.
StoredAnswered(h) ==
  LET r == request[h] IN
  /\ r.op = "STORED"
  /\ Answered(h, IF r.what = "SAVE" \/ shown[r.id] # 0
                 THEN [shown EXCEPT ![r.id] = r.version] ELSE shown,
              FormAnswered(r))

DeletedAnswered(h) ==
  /\ request[h].op = "DELETED"
  /\ Answered(h, [shown EXCEPT ![request[h].id] = 0], NoDialog)

\* Refused, or lost before or after.
ChangeFails(h) ==
  /\ request[h] # NoRequest /\ Finish(h)
  /\ working' = FALSE
  /\ UNCHANGED <<kept, deleted, shown, dialog, dirty>>

BranchEditorNext ==
  \/ OpenCreate \/ CloseDialog \/ ChangeField
  \/ \E b \in Offices : OpenEdit(b)
  \/ \E h \in Handlers :
       \/ SaveBranch(h) \/ RowDeleted(h) \/ \E b \in Offices : BranchStored(h, b)
       \/ StoredAnswered(h) \/ DeletedAnswered(h) \/ ChangeFails(h)
       \/ \E op \in {"DISABLE", "DELETE"} : DisableOrDelete(h, op)

BranchEditorSpec == BranchEditorInit /\ [][BranchEditorNext]_branchEditorVars
-----------------------------------------------------------------------------
Dialogs ==
  [open : BOOLEAN, id : Offices \cup {None}, version : 0..MaxChanges, typed : BOOLEAN]

BranchEditorTypeOK ==
  /\ kept \in [Offices -> 0..MaxChanges] /\ shown \in [Offices -> 0..MaxChanges]
  /\ deleted \in SUBSET Offices
  /\ dialog \in Dialogs
  /\ dirty \in BOOLEAN /\ working \in BOOLEAN

(***************************************************************************)
(* The page asks before it drops the form exactly if something was typed   *)
(* since the form was put there, and the dialog of a branch is of the      *)
(* version the list shows, unless the list lacks it: whatever answers come *)
(* late, in which order, and of which branch.  An answer takes the form's  *)
(* place without a question; what was typed meanwhile goes with it.        *)
(***************************************************************************)
UnsavedIsKnown ==
  /\ dirty <=> dialog.typed
  /\ dialog.id # None => shown[dialog.id] \in {0, dialog.version}
=============================================================================
