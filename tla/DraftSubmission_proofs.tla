----------------------- MODULE DraftSubmission_proofs -----------------------
(***************************************************************************)
(* Proofs about DraftSubmission, for any number of drafts, object keys and *)
(* requests in flight, whatever the document rules, and wherever handlers  *)
(* and sweep stop.                                                         *)
(***************************************************************************)
EXTENDS DraftControls, TLAPS

\* What a transaction carries is what its next step will write.
Carried(t) ==
  /\ t.op = "DETAILS" => t.choice \in Categories
  /\ t.op = "CONSENTS" => t.choice \in Nat \ {0}
  /\ t.op \in {"STORED", "REPLACE"} => t.choice \in Types /\ t.key \in Keys
  /\ t.op = "DELETE" => t.key \in Keys

Typed ==
  /\ TypeOK
  /\ bundle # 0
  /\ \A h \in Handlers : Carried(tx[h])

\* Details and consents are recorded; neither is ever taken back.
Filled(r) == category[r] # None /\ terms[r] # 0

Complete ==
  /\ \A h \in Handlers : tx[h].op = "SUBMIT" => Filled(tx[h].draft)
  /\ SubmittedIsComplete

\* An upload that has stored its object and not yet committed.
Pending(t) == t.op \in {"STORED", "REPLACE"}

\* The key belongs to a committed row.
Rowed(k) == document[k].state \in {"LIVE", "DELETED"}

\* Nothing needs the object any more, a lost upload's row excepted.
Spent(k) ==
  /\ document[k].state # "UNUSED"
  /\ document[k].state = "LIVE" => k \in lost
  /\ \A h \in Handlers : Pending(tx[h]) => tx[h].key # k

\* What a handler knows of the files it is about to write or remove.
Knows(t) ==
  /\ Pending(t) => document[t.key].state = "ROWLESS" /\ t.key \in objects
  /\ t.op \in {"REPLACE", "CLEARING", "ABANDON"} =>
       \A k \in t.keys : Rowed(k) /\ document[k].of = t.draft
  /\ t.op = "REPLACE" => \A k \in t.keys : document[k].type = t.choice
  /\ t.op = "DELETE" => Rowed(t.key)
  /\ t.op = "REMOVE" => \A k \in t.keys : Spent(k)

\* Fresh keys are drawn once.
Apart ==
  \A g, h \in Handlers :
    g # h /\ Pending(tx[g]) /\ Pending(tx[h]) => tx[g].key # tx[h].key

SweepKnows ==
  /\ sweep.op = "SWEEP" =>
       \A k \in sweep.keys : Rowed(k) /\ document[k].of \in sweep.drafts
  /\ sweep.op = "REMOVE" => \A k \in sweep.keys : Spent(k)

Stored ==
  /\ \A h \in Handlers : Knows(tx[h])
  /\ Apart
  /\ SweepKnows
  /\ LiveRowHasObject
-----------------------------------------------------------------------------
(* Types.                                                                  *)

LEMMA TxTypes ==
  ASSUME Typed, NEW h \in Handlers, tx[h].op # "NONE"
  PROVE  /\ tx[h] \in Txs /\ tx[h].op \in Ops /\ tx[h].draft \in Drafts
         /\ tx[h].keys \in SUBSET Keys /\ tx[h].seen \in Categories \cup {None}
BY DEF Typed, TypeOK, Txs, NoTx

LEMMA CarryTypes ==
  ASSUME NEW op \in Ops, NEW r \in Drafts,
         NEW choice \in Categories \cup Types \cup Nat \cup {None},
         NEW seen \in Categories \cup {None}
  PROVE  /\ Carry(op, r, choice, seen) \in Txs
         /\ \A K \in SUBSET Keys : [Carry(op, r, choice, seen) EXCEPT !.keys = K] \in Txs
         /\ \A k \in Keys : [Carry(op, r, choice, seen) EXCEPT !.key = k] \in Txs
BY DEF Carry, Txs

LEMMA RemovingTypes ==
  ASSUME NEW r \in Drafts, NEW K \in SUBSET Keys
  PROVE  Removing(r, K) \in Txs \cup {NoTx} /\ Carried(Removing(r, K))
<1>1. [Carry("REMOVE", r, None, None) EXCEPT !.keys = K] \in Txs
  BY CarryTypes DEF Ops
<1> QED BY <1>1 DEF Removing, Carry, Carried, NoTx

LEMMA RowTypes ==
  ASSUME Typed, NEW K \in SUBSET Keys
  PROVE  /\ Retire(K) \in [Keys -> Rows]
         /\ \A k \in Keys, r \in Drafts, t \in Types :
              [Retire(K) EXCEPT ![k] = [of |-> r, type |-> t, state |-> "LIVE"]]
                \in [Keys -> Rows]
<1>1. \A k \in Keys : document[k] \in Rows
  BY DEF Typed, TypeOK
<1>2. \A k \in Keys : [document[k] EXCEPT !.state = "DELETED"] \in Rows
  BY <1>1 DEF Rows, RowStates
<1>3. Retire(K) \in [Keys -> Rows]
  BY <1>1, <1>2 DEF Retire
<1>4. \A r \in Drafts, t \in Types : [of |-> r, type |-> t, state |-> "LIVE"] \in Rows
  BY DEF Rows, RowStates
<1> QED BY <1>3, <1>4

LEMMA ReplacedTypes ==
  ASSUME Typed, NEW h \in Handlers, tx[h].op = "REPLACE"
  PROVE  Replaced(h) \in [Keys -> Rows]
<1>1. tx[h].draft \in Drafts /\ tx[h].choice \in Types /\ tx[h].key \in Keys
  BY TxTypes DEF Typed, Carried
<1>2. {k \in LiveKeys(tx[h].draft) : document[k].type = tx[h].choice} \in SUBSET Keys
  BY DEF LiveKeys
<1> QED BY <1>1, <1>2, RowTypes DEF Replaced

\* A step of handler h that puts t in its place keeps the types of all.
LEMMA PutTypes ==
  ASSUME Typed, NEW h \in Handlers, NEW t \in Txs \cup {NoTx}, Carried(t),
         tx' = [tx EXCEPT ![h] = t]
  PROVE  tx' \in [Handlers -> Txs \cup {NoTx}] /\ \A g \in Handlers : Carried(tx'[g])
BY DEF Typed, TypeOK

LEMMA FormTypes == ASSUME Typed, NEW h \in Handlers, Form(h) PROVE Typed'
<1> USE DraftAssumption
<1>1. NoTx \in Txs \cup {NoTx} /\ Carried(NoTx)
  BY DEF NoTx, Carried
<1>2. ASSUME NEW r \in Drafts, BeginSave(h, r) PROVE Typed'
  <2>1. Carry("SAVE", r, None, None) \in Txs /\ Carried(Carry("SAVE", r, None, None))
    BY CarryTypes DEF Ops, Carried, Carry
  <2> QED BY <1>2, <2>1, PutTypes DEF BeginSave, Begin, Typed, TypeOK, formVars, factVars, fileVars
<1>3. ASSUME NEW r \in Drafts, NEW c \in Categories, BeginDetails(h, r, c) PROVE Typed'
  <2>1. category[r] \in Categories \cup {None}
    BY DEF Typed, TypeOK
  <2>2. Carry("DETAILS", r, c, category[r]) \in Txs /\ Carried(Carry("DETAILS", r, c, category[r]))
    BY <2>1, CarryTypes DEF Ops, Carried, Carry
  <2> QED BY <1>3, <2>2, PutTypes DEF BeginDetails, Begin, Typed, TypeOK, formVars, factVars, fileVars
<1>4. ASSUME NEW r \in Drafts, BeginConsents(h, r) PROVE Typed'
  <2>1. bundle \in Nat \ {0}
    BY DEF Typed, TypeOK
  <2>2. Carry("CONSENTS", r, bundle, None) \in Txs /\ Carried(Carry("CONSENTS", r, bundle, None))
    BY <2>1, CarryTypes DEF Ops, Carried, Carry
  <2> QED BY <1>4, <2>2, PutTypes DEF BeginConsents, Begin, Typed, TypeOK, formVars, factVars, fileVars
<1>5. CASE CommitSave(h)
  <2>1. tx[h].draft \in Drafts
    BY <1>5, TxTypes DEF CommitSave
  <2> QED BY <1>1, <1>5, <2>1, PutTypes
          DEF CommitSave, Finish, Typed, TypeOK, Statuses, formVars, factVars, fileVars
<1>6. CASE CommitDetails(h)
  <2>1. tx[h].draft \in Drafts /\ tx[h].choice \in Categories
    BY <1>6, TxTypes DEF CommitDetails, Typed, Carried
  <2>2. Carry("CLEAR", tx[h].draft, None, None) \in Txs
          /\ Carried(Carry("CLEAR", tx[h].draft, None, None))
    BY <2>1, CarryTypes DEF Ops, Carried, Carry
  <2>3. PICK t \in Txs \cup {NoTx} : Carried(t) /\ tx' = [tx EXCEPT ![h] = t]
    BY <1>1, <1>6, <2>2 DEF CommitDetails, Continue, Finish
  <2>4. category' \in [Drafts -> Categories \cup {None}]
    BY <1>6, <2>1 DEF CommitDetails, Typed, TypeOK
  <2> QED BY <1>6, <2>3, <2>4, PutTypes DEF CommitDetails, Typed, TypeOK, factVars, fileVars
<1>7. CASE BeginClear(h)
  <2> DEFINE t == [Carry("CLEARING", tx[h].draft, None, None) EXCEPT !.keys = LiveKeys(tx[h].draft)]
  <2>1. tx[h].draft \in Drafts /\ LiveKeys(tx[h].draft) \in SUBSET Keys
    BY <1>7, TxTypes DEF BeginClear, LiveKeys
  <2>2. t \in Txs /\ Carried(t)
    BY <2>1, CarryTypes DEF Ops, Carried, Carry
  <2>3. tx' = [tx EXCEPT ![h] = t]
    BY <1>7 DEF BeginClear, Continue
  <2> HIDE DEF t
  <2> QED BY <1>7, <2>2, <2>3, PutTypes DEF BeginClear, Typed, TypeOK, formVars, factVars, fileVars
<1>8. CASE CommitClear(h)
  <2>1. tx[h].draft \in Drafts /\ tx[h].keys \in SUBSET Keys
    BY <1>8, TxTypes DEF CommitClear
  <2>2. document' \in [Keys -> Rows]
    BY <1>8, RowTypes DEF CommitClear, LiveKeys
  <2> QED BY <1>8, <2>1, <2>2, RemovingTypes, PutTypes
          DEF CommitClear, Continue, Typed, TypeOK, formVars, factVars
<1>9. CASE CommitConsents(h)
  <2>1. tx[h].draft \in Drafts /\ tx[h].choice \in Nat
    BY <1>9, TxTypes DEF CommitConsents, Typed, Carried
  <2> QED BY <1>1, <1>9, <2>1, PutTypes
          DEF CommitConsents, Finish, Typed, TypeOK, factVars, fileVars
<1> QED BY <1>2, <1>3, <1>4, <1>5, <1>6, <1>7, <1>8, <1>9 DEF Form

LEMMA FilesTypes == ASSUME Typed, NEW h \in Handlers, Files(h) PROVE Typed'
<1> USE DraftAssumption
<1>1. NoTx \in Txs \cup {NoTx} /\ Carried(NoTx)
  BY DEF NoTx, Carried
<1>2. ASSUME NEW r \in Drafts, NEW k \in Keys, NEW t \in Types, BeginUpload(h, r, t, k) PROVE Typed'
  <2> DEFINE u == [Carry("STORED", r, t, None) EXCEPT !.key = k]
  <2>1. u \in Txs /\ Carried(u)
    BY CarryTypes DEF Ops, Carried, Carry
  <2>2. tx' = [tx EXCEPT ![h] = u]
    BY <1>2 DEF BeginUpload, Begin
  <2>3. [document[k] EXCEPT !.state = "ROWLESS"] \in Rows
    BY DEF Typed, TypeOK, Rows, RowStates
  <2>4. document' \in [Keys -> Rows]
    BY <1>2, <2>3 DEF BeginUpload, Typed, TypeOK
  <2> HIDE DEF u
  <2> QED BY <1>2, <2>1, <2>2, <2>4, PutTypes DEF BeginUpload, Typed, TypeOK, formVars, factVars
<1>3. ASSUME NEW r \in Drafts, NEW k \in Keys, BeginDelete(h, r, k) PROVE Typed'
  <2> DEFINE u == [Carry("DELETE", r, None, None) EXCEPT !.key = k]
  <2>1. u \in Txs /\ Carried(u)
    BY CarryTypes DEF Ops, Carried, Carry
  <2>2. tx' = [tx EXCEPT ![h] = u]
    BY <1>3 DEF BeginDelete, Begin
  <2> HIDE DEF u
  <2> QED BY <1>3, <2>1, <2>2, PutTypes DEF BeginDelete, Typed, TypeOK, formVars, factVars, fileVars
<1>4. CASE ReadReplaced(h)
  <2> DEFINE K == {k \in LiveKeys(tx[h].draft) : document[k].type = tx[h].choice}
             u == [tx[h] EXCEPT !.op = "REPLACE", !.keys = K]
  <2>1. tx[h] \in Txs /\ K \in SUBSET Keys /\ Carried(tx[h]) /\ tx[h].op = "STORED"
    BY <1>4, TxTypes DEF ReadReplaced, LiveKeys, Typed
  <2>2. u \in Txs /\ Carried(u)
    BY <2>1 DEF Txs, Ops, Carried
  <2>3. tx' = [tx EXCEPT ![h] = u]
    BY <1>4 DEF ReadReplaced, Continue
  <2> HIDE DEF u
  <2> QED BY <1>4, <2>2, <2>3, PutTypes DEF ReadReplaced, Typed, TypeOK, formVars, factVars, fileVars
<1>5. CASE CommitUpload(h)
  <2>1. tx[h].draft \in Drafts /\ tx[h].keys \in SUBSET Keys
    BY <1>5, TxTypes DEF CommitUpload
  <2> QED BY <1>5, <2>1, ReplacedTypes, RemovingTypes, PutTypes
          DEF CommitUpload, Continue, Typed, TypeOK, formVars, factVars
<1>6. CASE UploadRefused(h) \/ UploadAnswerLost(h)
  <2>1. tx[h].draft \in Drafts /\ {tx[h].key} \in SUBSET Keys
    BY <1>6, TxTypes DEF UploadRefused, UploadAnswerLost, Typed, Carried
  <2>2. document' \in [Keys -> Rows] /\ lost' \subseteq Keys
    BY <1>6, <2>1, ReplacedTypes DEF UploadRefused, UploadAnswerLost, fileVars, Typed, TypeOK
  <2>3. tx' = [tx EXCEPT ![h] = Removing(tx[h].draft, {tx[h].key})]
    BY <1>6 DEF UploadRefused, UploadAnswerLost, Continue
  <2> QED BY <1>6, <2>1, <2>2, <2>3, RemovingTypes, PutTypes
          DEF UploadRefused, UploadAnswerLost, Typed, TypeOK, formVars, factVars, fileVars
<1>7. CASE CommitDelete(h)
  <2>1. tx[h].draft \in Drafts /\ {tx[h].key} \in SUBSET Keys
    BY <1>7, TxTypes DEF CommitDelete, Typed, Carried
  <2>2. document' \in [Keys -> Rows]
    BY <1>7, <2>1, RowTypes DEF CommitDelete
  <2> QED BY <1>7, <2>1, <2>2, RemovingTypes, PutTypes
          DEF CommitDelete, Continue, Typed, TypeOK, formVars, factVars
<1>8. CASE RemoveObjects(h)
  BY <1>1, <1>8, PutTypes DEF RemoveObjects, Finish, Typed, TypeOK, formVars, factVars
<1> QED BY <1>2, <1>3, <1>4, <1>5, <1>6, <1>7, <1>8 DEF Files

LEMMA EndingTypes ==
  ASSUME Typed, NEW h \in Handlers, Ending(h) \/ Abort(h) PROVE Typed'
<1> USE DraftAssumption
<1>1. NoTx \in Txs \cup {NoTx} /\ Carried(NoTx)
  BY DEF NoTx, Carried
<1>2. ASSUME NEW r \in Drafts, BeginSubmit(h, r) PROVE Typed'
  <2>1. Carry("SUBMIT", r, None, None) \in Txs /\ Carried(Carry("SUBMIT", r, None, None))
    BY CarryTypes DEF Ops, Carried, Carry
  <2> QED BY <1>2, <2>1, PutTypes DEF BeginSubmit, Begin, Typed, TypeOK, formVars, factVars, fileVars
<1>3. ASSUME NEW r \in Drafts, BeginAbandon(h, r) PROVE Typed'
  <2> DEFINE u == [Carry("ABANDON", r, None, None) EXCEPT !.keys = LiveKeys(r)]
  <2>1. u \in Txs /\ Carried(u)
    BY CarryTypes DEF Ops, Carried, Carry, LiveKeys
  <2>2. tx' = [tx EXCEPT ![h] = u]
    BY <1>3 DEF BeginAbandon, Begin
  <2> HIDE DEF u
  <2> QED BY <1>3, <2>1, <2>2, PutTypes DEF BeginAbandon, Typed, TypeOK, formVars, factVars, fileVars
<1>4. CASE CommitSubmit(h)
  <2>1. tx[h].draft \in Drafts
    BY <1>4, TxTypes DEF CommitSubmit
  <2>2. submissions' \in [Drafts -> Nat]
    BY <1>4, <2>1 DEF CommitSubmit, Typed, TypeOK
  <2> QED BY <1>1, <1>4, <2>1, <2>2, PutTypes
          DEF CommitSubmit, Finish, Typed, TypeOK, Statuses, factVars, fileVars
<1>5. CASE CommitAbandon(h)
  <2>1. tx[h].draft \in Drafts /\ tx[h].keys \in SUBSET Keys
    BY <1>5, TxTypes DEF CommitAbandon
  <2>2. document' \in [Keys -> Rows]
    BY <1>5, RowTypes DEF CommitAbandon, LiveKeys
  <2> QED BY <1>5, <2>1, <2>2, RemovingTypes, PutTypes
          DEF CommitAbandon, Continue, Typed, TypeOK, Statuses, formVars, factVars
<1>6. CASE Abort(h)
  BY <1>1, <1>6, PutTypes DEF Abort, Finish, Typed, TypeOK, formVars, factVars, fileVars
<1> QED BY <1>2, <1>3, <1>4, <1>5, <1>6 DEF Ending

LEMMA AsideTypes ==
  ASSUME Typed, Sweeping \/ World \/ UNCHANGED vars PROVE Typed'
<1>1. CASE SweepBegin
  <2>1. sweep' \in Sweeps
    BY <1>1 DEF SweepBegin, Sweeps, DueDrafts, LiveKeys
  <2> QED BY <1>1, <2>1 DEF SweepBegin, Typed, TypeOK, formVars, factVars, fileVars
<1>2. CASE SweepCommit
  <2> DEFINE R == {r \in sweep.drafts : status[r] = "DRAFT"}
             K == UNION {LiveKeys(r) : r \in R}
  <2>1. sweep \in Sweeps
    BY <1>2 DEF SweepCommit, Typed, TypeOK
  <2>2. sweep' \in Sweeps
    BY <1>2, <2>1 DEF SweepCommit, Sweeps
  <2>3. K \in SUBSET Keys
    BY DEF LiveKeys
  <2>4. document' \in [Keys -> Rows]
    BY <1>2, <2>3, RowTypes DEF SweepCommit
  <2>5. status' \in [Drafts -> Statuses]
    BY <1>2 DEF SweepCommit, Typed, TypeOK, Statuses
  <2> QED BY <1>2, <2>2, <2>4, <2>5 DEF SweepCommit, Typed, TypeOK, formVars, factVars
<1>3. CASE SweepRemove \/ SweepFails
  BY <1>3 DEF SweepRemove, SweepFails, Typed, TypeOK, formVars, factVars, fileVars
<1>4. CASE World
  <2>1. CASE PublishBundle
    <3>1. bundle' \in Nat /\ bundle' # 0
      BY <2>1 DEF PublishBundle, Typed, TypeOK
    <3> QED BY <2>1, <3>1 DEF PublishBundle, Typed, TypeOK, formVars, fileVars
  <2>2. ASSUME NEW r \in Drafts, PickupPasses(r) PROVE Typed'
    BY <2>2 DEF PickupPasses, Typed, TypeOK, formVars, fileVars
  <2> QED BY <1>4, <2>1, <2>2 DEF World
<1>5. CASE UNCHANGED vars
  BY <1>5 DEF vars, Typed, TypeOK, formVars, factVars, fileVars
<1> QED BY <1>1, <1>2, <1>3, <1>4, <1>5 DEF Sweeping

LEMMA TypedAlways == Spec => []Typed
<1>1. Init => Typed
  <2> SUFFICES ASSUME Init PROVE Typed
    OBVIOUS
  <2>1. [of |-> None, type |-> None, state |-> "UNUSED"] \in Rows
    BY DEF Rows, RowStates
  <2> QED BY <2>1 DEF Init, Typed, TypeOK, Statuses, NoTx, Carried
<1>2. Typed /\ [Next]_vars => Typed'
  BY FormTypes, FilesTypes, EndingTypes, AsideTypes DEF Next
<1> QED BY <1>1, <1>2, PTL DEF Spec

\* TypeOK: every variable keeps its type, and every transaction in flight
\* carries what the write of its handler takes.
THEOREM TypeCorrect == Spec => []TypeOK
BY TypedAlways, PTL DEF Typed
-----------------------------------------------------------------------------
(* Submissions.                                                            *)

\* The steps that write the status column.
LEMMA StatusSteps ==
  ASSUME [Next]_vars
  PROVE  \/ UNCHANGED <<status, submissions>>
         \/ \E h \in Handlers : CommitSave(h) \/ CommitSubmit(h) \/ CommitAbandon(h)
         \/ SweepCommit
<1>1. ASSUME NEW h \in Handlers, Form(h) \/ Files(h) \/ Ending(h) \/ Abort(h)
      PROVE  \/ UNCHANGED <<status, submissions>>
             \/ CommitSave(h) \/ CommitSubmit(h) \/ CommitAbandon(h)
  <2>1. CASE Form(h)
    BY <2>1 DEF Form, BeginSave, BeginDetails, CommitDetails, BeginConsents, BeginClear,
                CommitClear, CommitConsents
  <2>2. CASE Files(h)
    BY <2>2 DEF Files, BeginUpload, BeginDelete, ReadReplaced, CommitUpload, UploadRefused,
                UploadAnswerLost, CommitDelete, RemoveObjects
  <2>3. CASE Ending(h) \/ Abort(h)
    BY <2>3 DEF Ending, BeginSubmit, BeginAbandon, Abort
  <2> QED BY <1>1, <2>1, <2>2, <2>3
<1>2. CASE SweepBegin \/ SweepRemove \/ SweepFails \/ World \/ UNCHANGED vars
  BY <1>2 DEF SweepBegin, SweepRemove, SweepFails, World, PublishBundle, PickupPasses, vars
<1> QED BY <1>1, <1>2 DEF Next, Sweeping

\* SubmittedOnce: whatever is retried, doubled or raced, one submission is
\* counted exactly for a request that waits for review.
THEOREM OneSubmission == Spec => []SubmittedOnce
<1>1. Init => SubmittedOnce
  BY DEF Init, SubmittedOnce
<1>2. Typed /\ SubmittedOnce /\ [Next]_vars => SubmittedOnce'
  <2> SUFFICES ASSUME Typed, SubmittedOnce, [Next]_vars PROVE SubmittedOnce'
    OBVIOUS
  <2>1. CASE UNCHANGED <<status, submissions>>
    BY <2>1 DEF SubmittedOnce
  <2>2. ASSUME NEW h \in Handlers, CommitSave(h) \/ CommitAbandon(h) PROVE SubmittedOnce'
    <3>1. tx[h].draft \in Drafts
      BY <2>2, TxTypes DEF CommitSave, CommitAbandon
    <3> QED BY <2>2, <3>1 DEF CommitSave, CommitAbandon, SubmittedOnce, Typed, TypeOK
  <2>3. ASSUME NEW h \in Handlers, CommitSubmit(h) PROVE SubmittedOnce'
    <3>1. tx[h].draft \in Drafts /\ submissions[tx[h].draft] = 0
      BY <2>3, TxTypes DEF CommitSubmit, Submittable, SubmittedOnce
    <3> QED BY <2>3, <3>1 DEF CommitSubmit, SubmittedOnce, Typed, TypeOK
  <2>4. CASE SweepCommit
    BY <2>4 DEF SweepCommit, SubmittedOnce, Typed, TypeOK
  <2> QED BY StatusSteps, <2>1, <2>2, <2>3, <2>4
<1> QED BY <1>1, <1>2, TypedAlways, PTL DEF Spec

\* The steps that write what the customer filled in.
LEMMA FormSteps ==
  ASSUME [Next]_vars
  PROVE  \/ UNCHANGED formVars
         \/ \E h \in Handlers : CommitDetails(h) \/ CommitConsents(h) \/ CommitSubmit(h)
<1>1. ASSUME NEW h \in Handlers, Form(h) \/ Files(h) \/ Ending(h) \/ Abort(h)
      PROVE  \/ UNCHANGED formVars
             \/ CommitDetails(h) \/ CommitConsents(h) \/ CommitSubmit(h)
  <2>1. CASE Form(h)
    BY <2>1 DEF Form, BeginSave, CommitSave, BeginDetails, BeginConsents, BeginClear, CommitClear
  <2>2. CASE Files(h)
    BY <2>2 DEF Files, BeginUpload, BeginDelete, ReadReplaced, CommitUpload, UploadRefused,
                UploadAnswerLost, CommitDelete, RemoveObjects
  <2>3. CASE Ending(h) \/ Abort(h)
    BY <2>3 DEF Ending, BeginSubmit, BeginAbandon, CommitAbandon, Abort
  <2> QED BY <1>1, <2>1, <2>2, <2>3
<1>2. CASE Sweeping \/ World \/ UNCHANGED vars
  BY <1>2 DEF Sweeping, SweepBegin, SweepCommit, SweepRemove, SweepFails, World,
              PublishBundle, PickupPasses, vars
<1> QED BY <1>1, <1>2 DEF Next

\* Details and consents are replaced, never taken back; so is the declaration.
LEMMA FilledStays ==
  ASSUME Typed, [Next]_vars, NEW r \in Drafts
  PROVE  (Filled(r) => Filled(r)') /\ (declared[r] => declared'[r])
<1> USE DraftAssumption
<1>1. CASE UNCHANGED formVars
  BY <1>1 DEF formVars, Filled
<1>2. ASSUME NEW h \in Handlers, CommitDetails(h)
      PROVE  (Filled(r) => Filled(r)') /\ (declared[r] => declared'[r])
  <2>1. tx[h].choice \in Categories
    BY <1>2 DEF CommitDetails, Typed, Carried
  <2> QED BY <1>2, <2>1 DEF CommitDetails, Filled, Typed, TypeOK
<1>3. ASSUME NEW h \in Handlers, CommitConsents(h)
      PROVE  (Filled(r) => Filled(r)') /\ (declared[r] => declared'[r])
  <2>1. tx[h].choice # 0
    BY <1>3 DEF CommitConsents, Typed, Carried
  <2> QED BY <1>3, <2>1 DEF CommitConsents, Filled, Typed, TypeOK
<1>4. ASSUME NEW h \in Handlers, CommitSubmit(h)
      PROVE  (Filled(r) => Filled(r)') /\ (declared[r] => declared'[r])
  BY <1>4 DEF CommitSubmit, Filled, Typed, TypeOK
<1> QED BY FormSteps, <1>1, <1>2, <1>3, <1>4

\* A submission in flight has read a draft that was ready.
LEMMA SubmitBegins ==
  ASSUME Typed, [Next]_vars, NEW g \in Handlers, tx'[g].op = "SUBMIT"
  PROVE  tx'[g] = tx[g] \/ (tx'[g].draft \in Drafts /\ Filled(tx'[g].draft))
<1>1. CASE UNCHANGED tx
  BY <1>1
<1>2. ASSUME NEW h \in Handlers, Form(h) \/ Files(h) \/ Abort(h)
      PROVE  tx'[g] = tx[g]
  <2>1. tx \in [Handlers -> Txs \cup {NoTx}]
    BY DEF Typed, TypeOK
  <2>3. CASE Form(h)
    BY <2>1, <2>3 DEF Form, BeginSave, CommitSave, BeginDetails, CommitDetails, BeginConsents,
            BeginClear, CommitClear, CommitConsents, Begin, Continue, Finish, Carry, NoTx, Removing
  <2>4. CASE Files(h)
    <3>1. ASSUME NEW r \in Drafts, NEW k \in Keys,
                 BeginDelete(h, r, k) \/ \E t \in Types : BeginUpload(h, r, t, k)
          PROVE  tx'[g] = tx[g]
      BY <2>1, <3>1 DEF BeginUpload, BeginDelete, Begin, Carry
    <3>2. CASE ReadReplaced(h)
      <4>1. tx[h] \in Txs
        BY <3>2, TxTypes DEF ReadReplaced
      <4>2. \A K : [tx[h] EXCEPT !.op = "REPLACE", !.keys = K].op = "REPLACE"
        BY <4>1 DEF Txs
      <4> QED BY <2>1, <3>2, <4>2 DEF ReadReplaced, Continue
    <3>4. CASE RemoveObjects(h)
      BY <2>1, <3>4 DEF RemoveObjects, Finish, NoTx
    <3>3. CASE CommitUpload(h) \/ UploadRefused(h) \/ UploadAnswerLost(h) \/ CommitDelete(h)
      BY <2>1, <3>3 DEF CommitUpload, UploadRefused, UploadAnswerLost, CommitDelete, Continue,
                        Removing, Carry, NoTx
    <3> QED BY <2>4, <3>1, <3>2, <3>3, <3>4 DEF Files
  <2>5. CASE Abort(h)
    BY <2>1, <2>5 DEF Abort, Finish, NoTx
  <2> QED BY <1>2, <2>3, <2>4, <2>5
<1>3. ASSUME NEW h \in Handlers, Ending(h)
      PROVE  tx'[g] = tx[g] \/ (tx'[g].draft \in Drafts /\ Filled(tx'[g].draft))
  <2>1. tx \in [Handlers -> Txs \cup {NoTx}]
    BY DEF Typed, TypeOK
  <2>2. ASSUME NEW r \in Drafts, BeginSubmit(h, r)
        PROVE  tx'[g] = tx[g] \/ (tx'[g].draft \in Drafts /\ Filled(tx'[g].draft))
    <3>1. Filled(r)
      BY <2>2, DraftAssumption DEF BeginSubmit, Ready, Filled
    <3> QED BY <2>1, <2>2, <3>1 DEF BeginSubmit, Begin, Carry
  <2>3. ASSUME NEW r \in Drafts, BeginAbandon(h, r) PROVE tx'[g] = tx[g]
    BY <2>1, <2>3 DEF BeginAbandon, Begin, Carry
  <2>4. CASE CommitSubmit(h) \/ CommitAbandon(h)
    BY <2>1, <2>4 DEF CommitSubmit, CommitAbandon, Continue, Finish, Removing, Carry, NoTx
  <2> QED BY <1>3, <2>2, <2>3, <2>4 DEF Ending
<1> QED BY <1>1, <1>2, <1>3 DEF Next, Sweeping, SweepBegin, SweepCommit, SweepRemove,
           SweepFails, World, PublishBundle, PickupPasses, vars

\* SubmittedIsComplete: what reaches the sales team has details, consents and
\* the declaration, although the submission reads them before it writes.
THEOREM CompleteWhenSubmitted == Spec => []SubmittedIsComplete
<1>1. Init => Complete
  BY DEF Init, Complete, SubmittedIsComplete, NoTx
<1>2. Typed /\ Complete /\ [Next]_vars => Complete'
  <2> SUFFICES ASSUME Typed, Complete, [Next]_vars PROVE Complete'
    OBVIOUS
  <2>1. ASSUME NEW g \in Handlers, (tx[g].op = "SUBMIT")' PROVE Filled(tx[g].draft)'
    <3>1. PICK r \in Drafts : r = tx'[g].draft /\ Filled(r)
      BY <2>1, SubmitBegins, TxTypes DEF Complete
    <3> QED BY <3>1, FilledStays DEF Filled
  <2>2. ASSUME NEW r \in Drafts, status'[r] = "PENDING_REVIEW"
        PROVE  Filled(r)' /\ declared'[r]
    <3>1. CASE status[r] = "PENDING_REVIEW"
      BY <3>1, FilledStays DEF Complete, SubmittedIsComplete, Filled
    <3>2. CASE status[r] # "PENDING_REVIEW"
      <4>1. PICK h \in Handlers : CommitSubmit(h) /\ r = tx[h].draft
        BY <2>2, <3>2, StatusSteps
           DEF CommitSave, CommitSubmit, CommitAbandon, SweepCommit, Typed, TypeOK
      <4>2. Filled(r) /\ declared'[r]
        BY <4>1 DEF Complete, CommitSubmit, Typed, TypeOK
      <4> QED BY <4>2, FilledStays
    <3> QED BY <3>1, <3>2
  <2> QED BY <2>1, <2>2 DEF Complete, SubmittedIsComplete, Filled
<1>3. Complete => SubmittedIsComplete
  BY DEF Complete
<1> QED BY <1>1, <1>2, <1>3, TypedAlways, PTL DEF Spec

\* ImplementsLifecycle: every step of the form, its files, the submission, the
\* abandonment and the sweep is a step of the abstract life cycle or leaves all
\* drafts where they are.
THEOREM LifecycleImplemented == Spec => ImplementsLifecycle
<1> DEFINE life == [r \in Drafts |-> IF status[r] = "NEW" THEN "DRAFT" ELSE status[r]]
<1>1. Init => Lifecycle!Init
  BY DEF Init, Lifecycle!Init
<1>2. Typed /\ [Next]_vars => [Lifecycle!Next]_life
  <2> SUFFICES ASSUME Typed, [Next]_vars PROVE [Lifecycle!Next]_life
    OBVIOUS
  <2>1. CASE UNCHANGED <<status, submissions>>
    BY <2>1
  <2>2. ASSUME NEW h \in Handlers, CommitSave(h) PROVE UNCHANGED life
    BY <2>2 DEF CommitSave, Typed, TypeOK
  <2>3. ASSUME NEW h \in Handlers, CommitSubmit(h) PROVE Lifecycle!Next
    <3>1. PICK r \in Drafts : r = tx[h].draft /\ status[r] = "DRAFT"
      BY <2>3, TxTypes DEF CommitSubmit, Submittable
    <3>2. life[r] = "DRAFT" /\ life' = [life EXCEPT ![r] = "PENDING_REVIEW"]
      BY <2>3, <3>1 DEF CommitSubmit, Typed, TypeOK
    <3>3. Lifecycle!Move(r)
      BY <3>2 DEF Lifecycle!Move, Lifecycle!Edges, Lifecycle!Statuses
    <3> QED BY <3>1, <3>3 DEF Lifecycle!Next
  <2>4. ASSUME NEW CONSTANT R \in SUBSET Drafts, \A r \in R : status[r] = "DRAFT",
               status' = [r \in Drafts |-> IF r \in R THEN "EXPIRED" ELSE status[r]]
        PROVE  Lifecycle!Next
    <3>1. Lifecycle!Lapse(R)
      BY <2>4 DEF Lifecycle!Lapse, Lifecycle!Lapsed
    <3> QED BY <3>1 DEF Lifecycle!Next
  <2>5. ASSUME NEW h \in Handlers, CommitAbandon(h) PROVE Lifecycle!Next
    <3>1. PICK R \in SUBSET Drafts : R = {tx[h].draft}
      BY <2>5, TxTypes DEF CommitAbandon
    <3>2. /\ \A r \in R : status[r] = "DRAFT"
          /\ status' = [r \in Drafts |-> IF r \in R THEN "EXPIRED" ELSE status[r]]
      BY <2>5, <3>1 DEF CommitAbandon, Typed, TypeOK
    <3> QED BY <2>4, <3>1, <3>2
  <2>6. CASE SweepCommit
    <3>1. PICK R \in SUBSET Drafts : R = {r \in sweep.drafts : status[r] = "DRAFT"}
      BY <2>6 DEF SweepCommit, Typed, TypeOK, Sweeps
    <3> QED BY <2>4, <2>6, <3>1 DEF SweepCommit
  <2> QED BY StatusSteps, <2>1, <2>2, <2>3, <2>5, <2>6
<1> QED BY <1>1, <1>2, TypedAlways, PTL DEF Spec, ImplementsLifecycle, Lifecycle!Spec
-----------------------------------------------------------------------------
(* Rows and objects.                                                       *)

\* What every step leaves of the rows: committed ones are at most retired, and
\* only an upload in flight makes one live.
Gentle ==
  /\ \A k \in Keys :
       /\ document[k].state # "UNUSED" => document'[k].state # "UNUSED"
       /\ Rowed(k) => /\ document'[k].state \in {"LIVE", "DELETED"}
                      /\ document'[k].of = document[k].of
                      /\ document'[k].type = document[k].type
       /\ document'[k].state = "LIVE" =>
            \/ document[k].state = "LIVE"
            \/ \E h \in Handlers : Pending(tx[h]) /\ tx[h].key = k
  /\ lost \subseteq lost'
  /\ \A h \in Handlers : Pending(tx'[h]) =>
       \/ Pending(tx[h]) /\ tx'[h].key = tx[h].key
       \/ document[tx'[h].key].state = "UNUSED"

LEMMA SpentStays ==
  ASSUME Gentle, NEW k \in Keys, Spent(k)
  PROVE  Spent(k)'
BY DEF Gentle, Spent

LEMMA StillKnows ==
  ASSUME Typed, Gentle, NEW g \in Handlers, Knows(tx[g]), tx'[g] = tx[g],
         Pending(tx[g]) => document'[tx[g].key].state = "ROWLESS" /\ tx[g].key \in objects'
  PROVE  Knows(tx[g])'
<1>1. CASE tx[g].op = "NONE"
  BY <1>1 DEF Knows, Pending
<1>2. CASE tx[g].op # "NONE"
  <2>1. tx[g].keys \subseteq Keys /\ (tx[g].op = "DELETE" => tx[g].key \in Keys)
    BY <1>2, TxTypes DEF Typed, Carried
  <2>2. tx[g].op = "REMOVE" => \A k \in tx[g].keys : Spent(k)'
    BY <2>1, SpentStays DEF Knows
  <2>3. \A k \in Keys : Rowed(k) => /\ Rowed(k)'
                                   /\ document'[k].of = document[k].of
                                   /\ document'[k].type = document[k].type
    BY DEF Gentle, Rowed
  <2>4. \A k \in tx[g].keys : k \in Keys
    BY <2>1
  <2>5. (Pending(tx[g]) => document[tx[g].key].state = "ROWLESS" /\ tx[g].key \in objects)'
    BY DEF Pending
  <2>6. (tx[g].op = "REMOVE" => \A k \in tx[g].keys : Spent(k))'
    BY <2>2
  <2>7. (/\ tx[g].op \in {"REPLACE", "CLEARING", "ABANDON"} =>
              \A k \in tx[g].keys : Rowed(k) /\ document[k].of = tx[g].draft
         /\ tx[g].op = "REPLACE" => \A k \in tx[g].keys : document[k].type = tx[g].choice
         /\ tx[g].op = "DELETE" => Rowed(tx[g].key))'
    <3>1. (\A k \in tx[g].keys : k \in Keys) /\ Knows(tx[g])
      BY <2>4
    <3> HIDE DEF Rowed
    <3> QED BY <2>1, <2>3, <3>1 DEF Knows
  <2> QED BY <2>5, <2>6, <2>7 DEF Knows
<1> QED BY <1>1, <1>2

LEMMA SweepStillKnows ==
  ASSUME Typed, Gentle, SweepKnows, UNCHANGED sweep
  PROVE  SweepKnows'
<1>1. \A k \in sweep.keys : sweep.op # "NONE" => k \in Keys
  BY DEF Typed, TypeOK, Sweeps, NoTx
<1>2. sweep.op = "REMOVE" => \A k \in sweep.keys : Spent(k)'
  BY <1>1, SpentStays DEF SweepKnows
<1> QED BY <1>1, <1>2 DEF SweepKnows, Gentle, Rowed

\* A step of handler h, whatever it does to rows and objects.
LEMMA StoredAfter ==
  ASSUME Typed, Stored, Gentle, NEW h \in Handlers, NEW t,
         tx' = [tx EXCEPT ![h] = t], UNCHANGED sweep, Knows(tx[h])', LiveRowHasObject',
         \A g \in Handlers \ {h} : Pending(tx[g]) =>
           document'[tx[g].key].state = "ROWLESS" /\ tx[g].key \in objects'
  PROVE  Stored'
<1>1. ASSUME NEW g \in Handlers PROVE Knows(tx[g])'
  <2>1. CASE g = h
    BY <2>1
  <2>2. CASE g # h
    <3>1. tx'[g] = tx[g] /\ Knows(tx[g])
      BY <2>2 DEF Typed, TypeOK, Stored
    <3> QED BY <2>2, <3>1, StillKnows
  <2> QED BY <2>1, <2>2
<1>2. Apart'
  <2>1. \A g \in Handlers : Pending(tx[g]) => document[tx[g].key].state = "ROWLESS"
    BY DEF Stored, Knows
  <2>2. \A g \in Handlers \ {h} : tx'[g] = tx[g]
    BY DEF Typed, TypeOK
  <2> QED BY <2>1, <2>2 DEF Stored, Apart, Gentle
<1>3. SweepKnows'
  BY SweepStillKnows DEF Stored
<1> QED BY <1>1, <1>2, <1>3 DEF Stored

\* A step of handler h that leaves rows and objects alone.
LEMMA FilesUntouched ==
  ASSUME Typed, Stored, NEW h \in Handlers, NEW t,
         tx' = [tx EXCEPT ![h] = t], UNCHANGED <<sweep, fileVars>>, Knows(tx[h])',
         Pending(t) => Pending(tx[h]) /\ t.key = tx[h].key
  PROVE  Stored'
<1>1. UNCHANGED <<document, objects, lost>>
  BY DEF fileVars
<1>2. \A g \in Handlers : tx'[g] = IF g = h THEN t ELSE tx[g]
  BY DEF Typed, TypeOK
<1>3. Gentle
  BY <1>1, <1>2 DEF Gentle, Rowed
<1>4. LiveRowHasObject'
  BY <1>1 DEF Stored, LiveRowHasObject
<1>5. \A g \in Handlers \ {h} : Pending(tx[g]) =>
        document'[tx[g].key].state = "ROWLESS" /\ tx[g].key \in objects'
  BY <1>1 DEF Stored, Knows
<1> QED BY <1>3, <1>4, <1>5, StoredAfter

\* What is retired, or was when it was read, is spent.
LEMMA RetiredIsSpent ==
  ASSUME Typed, Stored, NEW k \in Keys, Rowed(k), document'[k].state = "DELETED",
         \A g \in Handlers : Pending(tx'[g]) => Pending(tx[g]) /\ tx'[g].key = tx[g].key
  PROVE  Spent(k)'
<1>1. \A g \in Handlers : Pending(tx[g]) => tx[g].key # k
  BY DEF Stored, Knows, Rowed
<1> QED BY <1>1 DEF Spent

\* The rows a retirement touches, and the others.
LEMMA RetiredRows ==
  ASSUME Typed, NEW K \in SUBSET Keys, NEW k \in Keys
  PROVE  /\ Retire(K)[k].of = document[k].of
         /\ Retire(K)[k].type = document[k].type
         /\ Retire(K)[k].state = IF k \in K THEN "DELETED" ELSE document[k].state
BY DEF Typed, TypeOK, Rows, Retire

\* A step of handler h that retires committed rows and goes on to remove some.
LEMMA RowsRetired ==
  ASSUME Typed, Stored, NEW h \in Handlers, NEW r \in Drafts,
         NEW K \in SUBSET Keys, NEW D \in SUBSET Keys,
         \A k \in K \cup D : Rowed(k),
         \A k \in D \ K : document[k].state # "LIVE",
         document' = Retire(K), UNCHANGED <<objects, lost, sweep>>,
         tx' = [tx EXCEPT ![h] = Removing(r, D)]
  PROVE  Stored'
<1>1. \A k \in Keys : /\ document'[k].of = document[k].of
                      /\ document'[k].type = document[k].type
                      /\ document'[k].state = IF k \in K THEN "DELETED" ELSE document[k].state
  BY RetiredRows
<1>2. ~ Pending(Removing(r, D))
  BY DEF Pending, Removing, Carry, NoTx
<1>3. \A g \in Handlers : tx'[g] = IF g = h THEN Removing(r, D) ELSE tx[g]
  BY DEF Typed, TypeOK
<1>4. Gentle
  BY <1>1, <1>2, <1>3 DEF Gentle, Rowed
<1>5. \A k \in D : Spent(k)'
  BY <1>1, <1>2, <1>3, RetiredIsSpent DEF Rowed
<1>6. Knows(tx[h])'
  <2>1. Removing(r, D).op \in {"NONE", "REMOVE"}
        /\ (Removing(r, D).op = "REMOVE" => Removing(r, D).keys = D)
    BY DEF Removing, Carry, NoTx
  <2>2. tx'[h] = Removing(r, D)
    BY <1>3
  <2> QED BY <1>5, <2>1, <2>2 DEF Knows, Pending
<1>7. LiveRowHasObject'
  BY <1>1 DEF Stored, LiveRowHasObject
<1>8. \A g \in Handlers \ {h} : Pending(tx[g]) =>
        document'[tx[g].key].state = "ROWLESS" /\ tx[g].key \in objects'
  <2>1. \A g \in Handlers : Pending(tx[g]) =>
          tx[g].key \in Keys /\ document[tx[g].key].state = "ROWLESS" /\ tx[g].key \in objects
    BY DEF Stored, Knows, Typed, Carried, Pending
  <2> QED BY <1>1, <2>1 DEF Rowed
<1> QED BY <1>4, <1>6, <1>7, <1>8, StoredAfter

\* A step of handler h after which it knows nothing of the files.
LEMMA NothingKnown ==
  ASSUME Typed, Stored, NEW h \in Handlers, NEW t,
         tx' = [tx EXCEPT ![h] = t], UNCHANGED <<sweep, fileVars>>,
         t.op \in {"NONE", "SAVE", "DETAILS", "CLEAR", "CONSENTS", "SUBMIT"}
  PROVE  Stored'
<1>1. tx'[h] = t
  BY DEF Typed, TypeOK
<1>2. Knows(tx[h])' /\ ~ Pending(t)
  BY <1>1 DEF Knows, Pending
<1> QED BY <1>2, FilesUntouched

\* A handler that reads the live rows of its draft knows them.
LEMMA LiveRowsRead ==
  ASSUME Typed, Stored, NEW h \in Handlers, NEW r \in Drafts, NEW op \in {"CLEARING", "ABANDON"},
         tx' = [tx EXCEPT ![h] = [Carry(op, r, None, None) EXCEPT !.keys = LiveKeys(r)]],
         UNCHANGED <<sweep, fileVars>>
  PROVE  Stored'
<1> DEFINE t == [Carry(op, r, None, None) EXCEPT !.keys = LiveKeys(r)]
<1>1. t.op = op /\ t.draft = r /\ t.keys = LiveKeys(r)
  BY DEF Carry
<1>2. tx'[h] = t
  BY DEF Typed, TypeOK
<1>3. document' = document
  BY DEF fileVars
<1>4. Knows(tx[h])' /\ ~ Pending(t)
  BY <1>1, <1>2, <1>3 DEF Knows, Pending, LiveKeys, Rowed
<1> HIDE DEF t
<1>5. tx' = [tx EXCEPT ![h] = t]
  BY DEF t
<1> QED BY <1>4, <1>5, FilesUntouched

LEMMA FormStored == ASSUME Typed, Stored, NEW h \in Handlers, Form(h) PROVE Stored'
<1>1. CASE (\E r \in Drafts : BeginSave(h, r) \/ BeginConsents(h, r)
              \/ \E c \in Categories : BeginDetails(h, r, c))
           \/ CommitSave(h) \/ CommitDetails(h) \/ CommitConsents(h)
  <2>1. PICK t : /\ tx' = [tx EXCEPT ![h] = t]
                 /\ t.op \in {"NONE", "SAVE", "DETAILS", "CLEAR", "CONSENTS", "SUBMIT"}
    BY <1>1 DEF BeginSave, BeginConsents, BeginDetails, CommitSave, CommitDetails,
                CommitConsents, Begin, Continue, Finish, Carry, NoTx
  <2>2. UNCHANGED <<sweep, fileVars>>
    BY <1>1 DEF BeginSave, BeginConsents, BeginDetails, CommitSave, CommitDetails, CommitConsents
  <2> QED BY <2>1, <2>2, NothingKnown
<1>2. CASE BeginClear(h)
  <2>1. tx[h].draft \in Drafts
    BY <1>2, TxTypes DEF BeginClear
  <2> QED BY <1>2, <2>1, LiveRowsRead DEF BeginClear, Continue
<1>3. CASE CommitClear(h)
  <2> DEFINE r == tx[h].draft
             K == LiveKeys(r)
             D == tx[h].keys
  <2>1. r \in Drafts /\ K \in SUBSET Keys /\ D \in SUBSET Keys
    BY <1>3, TxTypes DEF CommitClear, LiveKeys
  <2>2. \A k \in D : Rowed(k) /\ document[k].of = r
    BY <1>3 DEF CommitClear, Stored, Knows
  <2>3. (\A k \in K \cup D : Rowed(k)) /\ \A k \in D \ K : document[k].state # "LIVE"
    BY <2>1, <2>2 DEF LiveKeys, Rowed
  <2>4. /\ document' = Retire(K) /\ UNCHANGED <<objects, lost, sweep>>
        /\ tx' = [tx EXCEPT ![h] = Removing(r, D)]
    BY <1>3 DEF CommitClear, Continue
  <2> HIDE DEF r, K, D
  <2> QED BY <2>1, <2>3, <2>4, RowsRetired
<1> QED BY <1>1, <1>2, <1>3 DEF Form

LEMMA EndingStored ==
  ASSUME Typed, Stored, NEW h \in Handlers, Ending(h) \/ Abort(h) PROVE Stored'
<1>1. CASE (\E r \in Drafts : BeginSubmit(h, r)) \/ CommitSubmit(h) \/ Abort(h)
  <2>1. PICK t : /\ tx' = [tx EXCEPT ![h] = t]
                 /\ t.op \in {"NONE", "SAVE", "DETAILS", "CLEAR", "CONSENTS", "SUBMIT"}
    BY <1>1 DEF BeginSubmit, CommitSubmit, Abort, Begin, Finish, Carry, NoTx
  <2>2. UNCHANGED <<sweep, fileVars>>
    BY <1>1 DEF BeginSubmit, CommitSubmit, Abort
  <2> QED BY <2>1, <2>2, NothingKnown
<1>2. ASSUME NEW r \in Drafts, BeginAbandon(h, r) PROVE Stored'
  BY <1>2, LiveRowsRead DEF BeginAbandon, Begin
<1>3. CASE CommitAbandon(h)
  <2> DEFINE r == tx[h].draft
             K == LiveKeys(r)
             D == tx[h].keys
  <2>1. r \in Drafts /\ K \in SUBSET Keys /\ D \in SUBSET Keys
    BY <1>3, TxTypes DEF CommitAbandon, LiveKeys
  <2>2. \A k \in D : Rowed(k) /\ document[k].of = r
    BY <1>3 DEF CommitAbandon, Stored, Knows
  <2>3. (\A k \in K \cup D : Rowed(k)) /\ \A k \in D \ K : document[k].state # "LIVE"
    BY <2>1, <2>2 DEF LiveKeys, Rowed
  <2>4. /\ document' = Retire(K) /\ UNCHANGED <<objects, lost, sweep>>
        /\ tx' = [tx EXCEPT ![h] = Removing(r, D)]
    BY <1>3 DEF CommitAbandon, Continue
  <2> HIDE DEF r, K, D
  <2> QED BY <2>1, <2>3, <2>4, RowsRetired
<1> QED BY <1>1, <1>2, <1>3 DEF Ending

\* Both ways an upload commits: its row goes live, those of its type retire.
LEMMA UploadStored ==
  ASSUME Typed, Stored, NEW h \in Handlers, CommitUpload(h) \/ UploadAnswerLost(h)
  PROVE  Stored'
<1> DEFINE u == tx[h].key
           r == tx[h].draft
           old == {k \in LiveKeys(r) : document[k].type = tx[h].choice}
           D == IF CommitUpload(h) THEN tx[h].keys ELSE {u}
<1>1. /\ tx[h].op = "REPLACE" /\ Pending(tx[h]) /\ Knows(tx[h])
      /\ u \in Keys /\ r \in Drafts /\ tx[h].keys \in SUBSET Keys
  BY TxTypes DEF CommitUpload, UploadAnswerLost, Pending, Stored, Typed, Carried
<1>2. document[u].state = "ROWLESS" /\ u \in objects
  BY <1>1 DEF Knows
<1>3. \A k \in Keys \ {u} :
        /\ document'[k].of = document[k].of /\ document'[k].type = document[k].type
        /\ document'[k].state = IF k \in old THEN "DELETED" ELSE document[k].state
  <2>1. old \in SUBSET Keys
    BY DEF LiveKeys
  <2>2. \A k \in Keys \ {u} : document'[k] = Retire(old)[k]
    BY <1>1, <2>1 DEF CommitUpload, UploadAnswerLost, Replaced, Retire
  <2> HIDE DEF old
  <2> QED BY <2>1, <2>2, RetiredRows
<1>4. document'[u].state = "LIVE"
  BY <1>1 DEF CommitUpload, UploadAnswerLost, Replaced, Retire, Typed, TypeOK
<1>5. /\ tx' = [tx EXCEPT ![h] = Removing(r, D)]
      /\ UNCHANGED <<objects, sweep>> /\ lost \subseteq lost'
      /\ (~ CommitUpload(h) => u \in lost')
  BY DEF CommitUpload, UploadAnswerLost, Continue
<1>6. ~ Pending(Removing(r, D))
  BY DEF Pending, Removing, Carry, NoTx
<1>7. \A g \in Handlers : tx'[g] = IF g = h THEN Removing(r, D) ELSE tx[g]
  BY <1>5 DEF Typed, TypeOK
<1>8. \A g \in Handlers \ {h} : Pending(tx[g]) =>
        /\ tx[g].key \in Keys \ {u} /\ document[tx[g].key].state = "ROWLESS"
        /\ tx[g].key \in objects
  BY <1>1 DEF Stored, Apart, Knows, Typed, Carried, Pending
<1>9. \A k \in old : document[k].state = "LIVE"
  BY DEF LiveKeys
<1>10. Gentle
  BY <1>1, <1>2, <1>3, <1>4, <1>5, <1>6, <1>7, <1>9 DEF Gentle, Rowed
<1>11. \A k \in D : Spent(k)'
  <2>1. CASE CommitUpload(h)
    <3> SUFFICES ASSUME NEW k \in tx[h].keys PROVE Spent(k)'
      BY <2>1
    <3>1. Rowed(k) /\ document[k].of = r /\ document[k].type = tx[h].choice /\ k \in Keys
      BY <1>1 DEF Knows
    <3>2. k # u
      BY <1>2, <3>1 DEF Rowed
    <3>3. document'[k].state = "DELETED"
      BY <1>3, <3>1, <3>2 DEF Rowed, LiveKeys
    <3> QED BY <1>6, <1>7, <3>1, <3>3, RetiredIsSpent
  <2>2. CASE ~ CommitUpload(h)
    BY <1>4, <1>5, <1>6, <1>7, <1>8, <2>2 DEF Spent
  <2> QED BY <2>1, <2>2
<1>12. Knows(tx[h])'
  <2>1. Removing(r, D).op \in {"NONE", "REMOVE"}
        /\ (Removing(r, D).op = "REMOVE" => Removing(r, D).keys = D)
    BY DEF Removing, Carry, NoTx
  <2>2. tx'[h] = Removing(r, D)
    BY <1>7
  <2> QED BY <1>11, <2>1, <2>2 DEF Knows, Pending
<1>13. LiveRowHasObject'
  BY <1>2, <1>3, <1>5 DEF Stored, LiveRowHasObject
<1>14. \A g \in Handlers \ {h} : Pending(tx[g]) =>
         document'[tx[g].key].state = "ROWLESS" /\ tx[g].key \in objects'
  BY <1>3, <1>5, <1>8, <1>9
<1>15. UNCHANGED sweep
  BY <1>5
<1> HIDE DEF D, r
<1> QED BY <1>5, <1>10, <1>12, <1>13, <1>14, <1>15, StoredAfter

LEMMA FilesStored == ASSUME Typed, Stored, NEW h \in Handlers, Files(h) PROVE Stored'
<1>1. ASSUME NEW r \in Drafts, NEW k \in Keys, NEW y \in Types, BeginUpload(h, r, y, k)
      PROVE  Stored'
  <2> DEFINE t == [Carry("STORED", r, y, None) EXCEPT !.key = k]
  <2>1. t.op = "STORED" /\ t.key = k
    BY DEF Carry
  <2>2. tx' = [tx EXCEPT ![h] = t] /\ UNCHANGED <<lost, sweep>> /\ objects' = objects \cup {k}
    BY <1>1 DEF BeginUpload, Begin
  <2> HIDE DEF t
  <2>3. \A g \in Handlers : tx'[g] = IF g = h THEN t ELSE tx[g]
    BY <2>2 DEF Typed, TypeOK
  <2>4. document[k].state = "UNUSED"
    BY <1>1 DEF BeginUpload
  <2>5. document'[k].state = "ROWLESS" /\ \A q \in Keys \ {k} : document'[q] = document[q]
    BY <1>1 DEF BeginUpload, Typed, TypeOK, Rows
  <2>6. Gentle
    BY <2>1, <2>2, <2>3, <2>4, <2>5 DEF Gentle, Rowed
  <2>7. Knows(tx[h])'
    BY <2>1, <2>2, <2>3, <2>5 DEF Knows, Pending
  <2>8. LiveRowHasObject'
    BY <2>2, <2>5 DEF Stored, LiveRowHasObject
  <2>9. \A g \in Handlers \ {h} : Pending(tx[g]) =>
          document'[tx[g].key].state = "ROWLESS" /\ tx[g].key \in objects'
    BY <2>2, <2>4, <2>5 DEF Stored, Knows, Pending, Typed, Carried
  <2>10. UNCHANGED sweep
    BY <2>2
  <2> QED BY <2>2, <2>6, <2>7, <2>8, <2>9, <2>10, StoredAfter
<1>2. ASSUME NEW r \in Drafts, NEW k \in Keys, BeginDelete(h, r, k) PROVE Stored'
  <2> DEFINE t == [Carry("DELETE", r, None, None) EXCEPT !.key = k]
  <2>1. t.op = "DELETE" /\ t.key = k
    BY DEF Carry
  <2>2. tx' = [tx EXCEPT ![h] = t] /\ UNCHANGED <<sweep, fileVars>>
    BY <1>2 DEF BeginDelete, Begin
  <2> HIDE DEF t
  <2>3. Knows(tx[h])' /\ ~ Pending(t)
    BY <1>2, <2>1, <2>2
       DEF BeginDelete, DeleteAccepted, LiveKeys, Rowed, Knows, Pending, fileVars, Typed, TypeOK
  <2> QED BY <2>2, <2>3, FilesUntouched
<1>3. CASE ReadReplaced(h)
  <2> DEFINE K == {k \in LiveKeys(tx[h].draft) : document[k].type = tx[h].choice}
             t == [tx[h] EXCEPT !.op = "REPLACE", !.keys = K]
  <2>1. tx[h] \in Txs /\ tx[h].op = "STORED"
    BY <1>3, TxTypes DEF ReadReplaced
  <2>2. /\ t.op = "REPLACE" /\ t.keys = K /\ t.key = tx[h].key
        /\ t.draft = tx[h].draft /\ t.choice = tx[h].choice
    BY <2>1 DEF Txs
  <2>3. tx' = [tx EXCEPT ![h] = t] /\ UNCHANGED <<sweep, fileVars>>
    BY <1>3 DEF ReadReplaced, Continue
  <2>4. \A k \in K : /\ Rowed(k) /\ document[k].of = tx[h].draft
                     /\ document[k].type = tx[h].choice
    BY DEF LiveKeys, Rowed
  <2>5. Pending(tx[h]) /\ Knows(tx[h])
    BY <2>1 DEF Pending, Stored
  <2> HIDE DEF t, K
  <2>6. tx'[h] = t /\ UNCHANGED <<document, objects>>
    BY <2>3 DEF Typed, TypeOK, fileVars
  <2>7. Knows(tx[h])'
    BY <2>2, <2>4, <2>5, <2>6 DEF Knows, Pending, Rowed
  <2> QED BY <2>2, <2>3, <2>5, <2>7, FilesUntouched
<1>4. CASE UploadRefused(h)
  <2>1. PICK u \in Keys : u = tx[h].key /\ Pending(tx[h]) /\ Knows(tx[h])
    BY <1>4 DEF UploadRefused, Pending, Stored, Typed, Carried
  <2> DEFINE t == Removing(tx[h].draft, {u})
  <2>2. tx' = [tx EXCEPT ![h] = t] /\ UNCHANGED <<sweep, fileVars>>
    BY <1>4, <2>1 DEF UploadRefused, Continue
  <2>3. t.op = "REMOVE" /\ t.keys = {u}
    BY DEF Removing, Carry
  <2> HIDE DEF t
  <2>4. \A g \in Handlers : tx'[g] = IF g = h THEN t ELSE tx[g]
    BY <2>2 DEF Typed, TypeOK
  <2>5. Spent(u)'
    BY <2>1, <2>2, <2>3, <2>4 DEF Spent, Stored, Apart, Knows, Pending, fileVars
  <2>6. Knows(tx[h])' /\ ~ Pending(t)
    BY <2>3, <2>4, <2>5 DEF Knows, Pending
  <2> QED BY <2>2, <2>6, FilesUntouched
<1>5. CASE CommitDelete(h)
  <2> DEFINE r == tx[h].draft
             K == {tx[h].key}
  <2>1. r \in Drafts /\ K \in SUBSET Keys /\ \A k \in K \cup K : Rowed(k)
    BY <1>5, TxTypes DEF CommitDelete, Typed, Carried, Stored, Knows
  <2>2. /\ document' = Retire(K) /\ UNCHANGED <<objects, lost, sweep>>
        /\ tx' = [tx EXCEPT ![h] = Removing(r, K)]
    BY <1>5 DEF CommitDelete, Continue
  <2>3. \A k \in K \ K : document[k].state # "LIVE"
    OBVIOUS
  <2> HIDE DEF r, K
  <2> QED BY <2>1, <2>2, <2>3, RowsRetired
<1>6. CASE RemoveObjects(h)
  <2>1. \A k \in tx[h].keys : Spent(k) /\ k \in Keys
    BY <1>6, TxTypes DEF RemoveObjects, Stored, Knows
  <2>2. /\ tx' = [tx EXCEPT ![h] = NoTx] /\ UNCHANGED <<document, lost, sweep>>
        /\ objects \ tx[h].keys \subseteq objects'
    BY <1>6 DEF RemoveObjects, Finish
  <2>3. \A g \in Handlers : tx'[g] = IF g = h THEN NoTx ELSE tx[g]
    BY <2>2 DEF Typed, TypeOK
  <2>4. Gentle
    BY <2>2, <2>3 DEF Gentle, Rowed, Pending, NoTx
  <2>5. Knows(tx[h])'
    BY <2>3 DEF Knows, Pending, NoTx
  <2>6. LiveRowHasObject'
    BY <2>1, <2>2 DEF Stored, LiveRowHasObject, Spent
  <2>7. \A g \in Handlers \ {h} : Pending(tx[g]) =>
          document'[tx[g].key].state = "ROWLESS" /\ tx[g].key \in objects'
    BY <2>1, <2>2 DEF Stored, Knows, Spent
  <2> QED BY <2>2, <2>4, <2>5, <2>6, <2>7, StoredAfter
<1> QED BY <1>1, <1>2, <1>3, <1>4, <1>5, <1>6, UploadStored DEF Files

\* What the sweep reads, retires and removes; the world touches no file.
LEMMA AsideStored ==
  ASSUME Typed, Stored, Sweeping \/ World \/ UNCHANGED vars PROVE Stored'
<1>1. ASSUME UNCHANGED tx, Gentle, SweepKnows', LiveRowHasObject',
             \A g \in Handlers : Pending(tx[g]) =>
               document'[tx[g].key].state = "ROWLESS" /\ tx[g].key \in objects'
      PROVE  Stored'
  <2>1. \A g \in Handlers : Knows(tx[g])'
    BY <1>1, StillKnows DEF Stored
  <2> QED BY <1>1, <2>1 DEF Stored, Apart
<1>2. ASSUME UNCHANGED <<tx, fileVars>>, SweepKnows' PROVE Stored'
  <2>1. UNCHANGED <<document, objects, lost>>
    BY <1>2 DEF fileVars
  <2>2. Gentle
    BY <1>2, <2>1 DEF Gentle, Rowed
  <2> QED BY <1>1, <1>2, <2>1, <2>2 DEF Stored, LiveRowHasObject, Knows
<1>3. CASE World \/ UNCHANGED vars
  <2>1. UNCHANGED <<tx, document, objects, lost, sweep>>
    BY <1>3 DEF World, PublishBundle, PickupPasses, vars, fileVars
  <2>2. SweepKnows'
    BY <2>1 DEF Stored, SweepKnows, Spent, Rowed
  <2> QED BY <1>2, <2>1, <2>2 DEF fileVars
<1>4. CASE SweepFails
  <2>1. SweepKnows' /\ UNCHANGED <<tx, fileVars>>
    BY <1>4 DEF SweepFails, SweepKnows, NoTx
  <2> QED BY <1>2, <2>1
<1>5. CASE SweepBegin
  <2>1. UNCHANGED <<tx, fileVars, document>>
    BY <1>5 DEF SweepBegin, fileVars
  <2>2. SweepKnows'
    BY <1>5, <2>1 DEF SweepBegin, SweepKnows, LiveKeys, Rowed
  <2> QED BY <1>2, <2>1, <2>2
<1>6. CASE SweepCommit
  <2> DEFINE R == {r \in sweep.drafts : status[r] = "DRAFT"}
             K == UNION {LiveKeys(r) : r \in R}
  <2>1. K \in SUBSET Keys /\ \A k \in K : Rowed(k)
    BY DEF LiveKeys, Rowed
  <2>2. document' = Retire(K) /\ UNCHANGED <<tx, objects, lost>>
    BY <1>6 DEF SweepCommit
  <2>3. \A k \in Keys : k \in K <=> document[k].state = "LIVE" /\ document[k].of \in R
    BY DEF LiveKeys
  <2> HIDE DEF K
  <2>4. \A k \in Keys : /\ document'[k].of = document[k].of
                        /\ document'[k].type = document[k].type
                        /\ document'[k].state = IF k \in K THEN "DELETED" ELSE document[k].state
    BY <2>1, <2>2, RetiredRows
  <2>5. Gentle
    BY <2>1, <2>2, <2>4 DEF Gentle, Rowed
  <2>6. sweep \in Sweeps /\ sweep.op = "SWEEP"
    BY <1>6 DEF SweepCommit, Typed, TypeOK
  <2>7. \A k \in sweep.keys : document[k].of \in R => Spent(k)'
    <3> SUFFICES ASSUME NEW k \in sweep.keys, document[k].of \in R PROVE Spent(k)'
      OBVIOUS
    <3>1. k \in Keys /\ Rowed(k)
      BY <2>6 DEF Sweeps, Stored, SweepKnows
    <3>2. document'[k].state = "DELETED"
      BY <2>3, <2>4, <3>1 DEF Rowed
    <3> QED BY <2>2, <3>1, <3>2, RetiredIsSpent
  <2>8. SweepKnows'
    BY <1>6, <2>7 DEF SweepCommit, SweepKnows
  <2>9. LiveRowHasObject'
    BY <2>2, <2>4 DEF Stored, LiveRowHasObject
  <2>10. \A g \in Handlers : Pending(tx[g]) =>
           document'[tx[g].key].state = "ROWLESS" /\ tx[g].key \in objects'
    BY <2>1, <2>2, <2>4 DEF Stored, Knows, Typed, Carried, Pending, Rowed
  <2> QED BY <1>1, <2>2, <2>5, <2>8, <2>9, <2>10
<1>7. CASE SweepRemove
  <2>1. \A k \in sweep.keys : Spent(k)
    BY <1>7 DEF SweepRemove, Stored, SweepKnows
  <2>2. /\ UNCHANGED <<document, lost, tx>> /\ sweep' = NoTx
        /\ objects \ sweep.keys \subseteq objects'
    BY <1>7 DEF SweepRemove
  <2>3. Gentle
    BY <2>2 DEF Gentle, Rowed
  <2>4. SweepKnows'
    BY <2>2 DEF SweepKnows, NoTx
  <2>5. LiveRowHasObject'
    BY <2>1, <2>2 DEF Stored, LiveRowHasObject, Spent
  <2>6. \A g \in Handlers : Pending(tx[g]) =>
          document'[tx[g].key].state = "ROWLESS" /\ tx[g].key \in objects'
    BY <2>1, <2>2 DEF Stored, Knows, Spent
  <2> QED BY <1>1, <2>2, <2>3, <2>4, <2>5, <2>6
<1> QED BY <1>3, <1>4, <1>5, <1>6, <1>7 DEF Sweeping

\* LiveRowHasObject: no document that counts loses its bytes, whatever uploads,
\* replacements, removals, abandonments and sweeps overlap and wherever they
\* stop; a row whose commit was answered with an error is the only exception.
THEOREM LiveRowsHaveObjects == Spec => []LiveRowHasObject
<1>1. Init => Stored
  BY DEF Init, Stored, Knows, Pending, Apart, SweepKnows, LiveRowHasObject, NoTx
<1>2. Typed /\ Stored /\ [Next]_vars => Stored'
  BY FormStored, FilesStored, EndingStored, AsideStored DEF Next
<1>3. Stored => LiveRowHasObject
  BY DEF Stored
<1> QED BY <1>1, <1>2, <1>3, TypedAlways, PTL DEF Spec
-----------------------------------------------------------------------------
(* The card and the page of a draft.                                       *)

\* Consents follow details, files follow consents: what a draft has later on
\* its way it has not without what comes before.
InOrder ==
  /\ \A r \in Drafts : terms[r] # 0 => category[r] # None
  /\ \A h \in Handlers : Pending(tx[h]) => Filled(tx[h].draft)
  /\ \A k \in Keys : document[k].state = "LIVE" =>
       document[k].of \in Drafts /\ Filled(document[k].of)

\* An upload in flight has read a draft that was filled in.
LEMMA UploadBegins ==
  ASSUME Typed, [Next]_vars, NEW g \in Handlers, Pending(tx'[g])
  PROVE  \/ Pending(tx[g]) /\ tx'[g].draft = tx[g].draft
         \/ tx'[g].draft \in Drafts /\ Filled(tx'[g].draft)
<1> DEFINE Goal == \/ Pending(tx[g]) /\ tx'[g].draft = tx[g].draft
                   \/ tx'[g].draft \in Drafts /\ Filled(tx'[g].draft)
<1>0. tx \in [Handlers -> Txs \cup {NoTx}]
  BY DEF Typed, TypeOK
<1>1. CASE UNCHANGED tx
  BY <1>1
<1>2. ASSUME NEW h \in Handlers, Form(h) \/ Ending(h) \/ Abort(h) PROVE Goal
  <2>1. CASE Form(h)
    BY <1>0, <2>1 DEF Form, BeginSave, CommitSave, BeginDetails, CommitDetails, BeginConsents,
       BeginClear, CommitClear, CommitConsents, Begin, Continue, Finish, Carry, NoTx, Removing, Pending
  <2>2. CASE Ending(h) \/ Abort(h)
    <3>1. ASSUME NEW r \in Drafts, BeginSubmit(h, r) \/ BeginAbandon(h, r) PROVE Goal
      BY <1>0, <3>1 DEF BeginSubmit, BeginAbandon, Begin, Carry, Pending
    <3>2. CASE CommitSubmit(h) \/ CommitAbandon(h) \/ Abort(h)
      BY <1>0, <3>2 DEF CommitSubmit, CommitAbandon, Abort, Continue, Finish, Carry, NoTx,
                        Removing, Pending
    <3> QED BY <2>2, <3>1, <3>2 DEF Ending
  <2> QED BY <1>2, <2>1, <2>2
<1>3. ASSUME NEW h \in Handlers, Files(h) PROVE Goal
  <2>1. ASSUME NEW r \in Drafts, NEW k \in Keys, NEW t \in Types, BeginUpload(h, r, t, k) PROVE Goal
    <3>1. Filled(r)
      BY <2>1 DEF BeginUpload, UploadAccepted, DocumentContext, Filled
    <3> QED BY <1>0, <2>1, <3>1 DEF BeginUpload, Begin, Carry
  <2>2. ASSUME NEW r \in Drafts, NEW k \in Keys, BeginDelete(h, r, k) PROVE Goal
    BY <1>0, <2>2 DEF BeginDelete, Begin, Carry, Pending
  <2>3. CASE ReadReplaced(h)
    <3>1. PICK K : tx' = [tx EXCEPT ![h] = [tx[h] EXCEPT !.op = "REPLACE", !.keys = K]]
      BY <2>3 DEF ReadReplaced, Continue
    <3>2. tx[h] \in Txs /\ Pending(tx[h])
      BY <2>3, TxTypes DEF ReadReplaced, Pending
    <3>3. [tx[h] EXCEPT !.op = "REPLACE", !.keys = K].draft = tx[h].draft
      BY <3>2 DEF Txs
    <3> QED BY <1>0, <3>1, <3>2, <3>3
  <2>4. CASE CommitUpload(h) \/ UploadRefused(h) \/ UploadAnswerLost(h) \/ CommitDelete(h)
    BY <1>0, <2>4 DEF CommitUpload, UploadRefused, UploadAnswerLost, CommitDelete, Continue,
                      Removing, Carry, NoTx, Pending
  <2>5. CASE RemoveObjects(h)
    BY <1>0, <2>5 DEF RemoveObjects, Finish, NoTx, Pending
  <2> QED BY <1>3, <2>1, <2>2, <2>3, <2>4, <2>5 DEF Files
<1> QED BY <1>1, <1>2, <1>3 DEF Next, Sweeping, SweepBegin, SweepCommit, SweepRemove,
           SweepFails, World, PublishBundle, PickupPasses, vars

\* A row that counts counted before, or an upload in flight writes it.
LEMMA LiveRowsBefore ==
  ASSUME Typed, [Next]_vars, NEW k \in Keys, document'[k].state = "LIVE"
  PROVE  \/ document[k].state = "LIVE" /\ document'[k].of = document[k].of
         \/ \E h \in Handlers : Pending(tx[h]) /\ document'[k].of = tx[h].draft
<1> DEFINE Goal == \/ document[k].state = "LIVE" /\ document'[k].of = document[k].of
                   \/ \E h \in Handlers : Pending(tx[h]) /\ document'[k].of = tx[h].draft
<1>1. CASE UNCHANGED document
  BY <1>1
<1>2. ASSUME NEW K \in SUBSET Keys, document' = Retire(K) PROVE Goal
  BY <1>2, RetiredRows
<1>3. ASSUME NEW h \in Handlers, tx[h].op = "REPLACE", document' = Replaced(h) PROVE Goal
  <2>1. PICK K \in SUBSET Keys :
          document' = [Retire(K) EXCEPT
            ![tx[h].key] = [of |-> tx[h].draft, type |-> tx[h].choice, state |-> "LIVE"]]
    BY <1>3 DEF Replaced, LiveKeys
  <2>2. Retire(K) \in [Keys -> Rows]
    BY RowTypes
  <2>3. CASE k = tx[h].key
    BY <1>3, <2>1, <2>2, <2>3 DEF Pending
  <2>4. CASE k # tx[h].key
    <3>1. document'[k] = Retire(K)[k]
      BY <2>1, <2>2, <2>4
    <3> QED BY <3>1, RetiredRows
  <2> QED BY <2>3, <2>4
<1>4. ASSUME NEW h \in Handlers, NEW r \in Drafts, NEW t \in Types, NEW j \in Keys,
             BeginUpload(h, r, t, j) PROVE Goal
  BY <1>4 DEF BeginUpload, Typed, TypeOK, Rows
<1>5. ASSUME NEW h \in Handlers, Form(h) PROVE Goal
  <2>1. LiveKeys(tx[h].draft) \in SUBSET Keys
    BY DEF LiveKeys
  <2>2. CASE CommitClear(h)
    BY <1>2, <2>1, <2>2 DEF CommitClear
  <2> QED BY <1>1, <1>5, <2>2 DEF Form, BeginSave, CommitSave, BeginDetails, CommitDetails,
        BeginConsents, BeginClear, CommitConsents, fileVars
<1>6. ASSUME NEW h \in Handlers, Files(h) PROVE Goal
  <2>1. CASE CommitDelete(h)
    <3>1. {tx[h].key} \in SUBSET Keys
      BY <2>1 DEF CommitDelete, Typed, Carried
    <3> QED BY <1>2, <2>1, <3>1 DEF CommitDelete
  <2>2. CASE CommitUpload(h) \/ UploadAnswerLost(h)
    BY <1>3, <2>2 DEF CommitUpload, UploadAnswerLost
  <2> QED BY <1>1, <1>4, <1>6, <2>1, <2>2 DEF Files, BeginDelete, ReadReplaced, UploadRefused,
        RemoveObjects, fileVars
<1>7. ASSUME NEW h \in Handlers, Ending(h) \/ Abort(h) PROVE Goal
  <2>1. LiveKeys(tx[h].draft) \in SUBSET Keys
    BY DEF LiveKeys
  <2>2. CASE CommitAbandon(h)
    BY <1>2, <2>1, <2>2 DEF CommitAbandon
  <2> QED BY <1>1, <1>7, <2>2 DEF Ending, BeginSubmit, BeginAbandon, CommitSubmit, Abort, fileVars
<1>8. CASE SweepCommit
  <2>1. PICK K \in SUBSET Keys : document' = Retire(K)
    BY <1>8 DEF SweepCommit, LiveKeys
  <2> QED BY <1>2, <2>1
<1> QED BY <1>1, <1>5, <1>6, <1>7, <1>8 DEF Next, Sweeping, SweepBegin, SweepRemove,
           SweepFails, World, PublishBundle, PickupPasses, vars, fileVars

LEMMA InOrderAlways == Spec => []InOrder
<1> USE DraftAssumption
<1>1. Init => InOrder
  BY DEF Init, InOrder, Pending, NoTx
<1>2. Typed /\ InOrder /\ [Next]_vars => InOrder'
  <2> SUFFICES ASSUME Typed, InOrder, [Next]_vars PROVE InOrder'
    OBVIOUS
  <2>1. ASSUME NEW r \in Drafts, terms'[r] # 0 PROVE category'[r] # None
    <3>1. CASE UNCHANGED formVars
      BY <2>1, <3>1 DEF formVars, InOrder
    <3>2. ASSUME NEW h \in Handlers, CommitDetails(h) PROVE category'[r] # None
      <4>1. tx[h].choice \in Categories
        BY <3>2 DEF CommitDetails, Typed, Carried
      <4> QED BY <2>1, <3>2, <4>1 DEF CommitDetails, InOrder, Typed, TypeOK
    <3>3. ASSUME NEW h \in Handlers, CommitConsents(h) PROVE category'[r] # None
      BY <2>1, <3>3 DEF CommitConsents, InOrder, Typed, TypeOK
    <3>4. ASSUME NEW h \in Handlers, CommitSubmit(h) PROVE category'[r] # None
      BY <2>1, <3>4 DEF CommitSubmit, InOrder
    <3> QED BY FormSteps, <3>1, <3>2, <3>3, <3>4
  <2>2. ASSUME NEW g \in Handlers, Pending(tx'[g])
        PROVE  category'[tx'[g].draft] # None /\ terms'[tx'[g].draft] # 0
    <3>1. PICK r \in Drafts : r = tx'[g].draft /\ Filled(r)
      <4>1. CASE Pending(tx[g]) /\ tx'[g].draft = tx[g].draft
        <5>1. tx[g].draft \in Drafts
          BY <4>1, TxTypes DEF Pending
        <5> QED BY <4>1, <5>1 DEF InOrder
      <4> QED BY <2>2, <4>1, UploadBegins
    <3> QED BY <3>1, FilledStays DEF Filled
  <2>3. ASSUME NEW k \in Keys, document'[k].state = "LIVE"
        PROVE  /\ document'[k].of \in Drafts
               /\ category'[document'[k].of] # None /\ terms'[document'[k].of] # 0
    <3>1. PICK r \in Drafts : r = document'[k].of /\ Filled(r)
      <4>1. ASSUME NEW h \in Handlers, Pending(tx[h]) PROVE tx[h].draft \in Drafts /\ Filled(tx[h].draft)
        BY <4>1, TxTypes DEF InOrder, Pending
      <4> QED BY <2>3, <4>1, LiveRowsBefore DEF InOrder
    <3> QED BY <3>1, FilledStays DEF Filled
  <2> QED BY <2>1, <2>2, <2>3 DEF InOrder, Pending, Filled
<1> QED BY <1>1, <1>2, TypedAlways, PTL DEF Spec
\* The steps of the card are done in its order: there are no files without
\* consents, and no consents without details.
LEMMA StepsInOrder ==
  ASSUME Typed, InOrder, NEW r \in Drafts
  PROVE  /\ StepDone(r)[DraftSteps[1]] <=> category[r] # None
         /\ StepDone(r)[DraftSteps[2]] <=> terms[r] # 0
         /\ \A n \in 1..3 : StepDone(r)[DraftSteps[n]] =>
              \A i \in 1..n : StepDone(r)[DraftSteps[i]]
<1>1. /\ DraftSteps[1] = "CUSTOMER_DETAILS"
      /\ DraftSteps[2] = "CONSENTS"
      /\ DraftSteps[3] = "DOCUMENTS"
  BY DEF DraftSteps
<1>2. StepDone(r)["CUSTOMER_DETAILS"] <=> category[r] # None
  BY DEF StepDone
<1>3. StepDone(r)["CONSENTS"] <=> terms[r] # 0
  BY DEF StepDone, HasRequiredDraftConsents
<1>4. StepDone(r)["DOCUMENTS"] => Required[category[r]] # {} /\ Missing(r) = {}
  BY DEF StepDone
<1>5. StepDone(r)["DOCUMENTS"] => Filled(r)
  <2> SUFFICES ASSUME StepDone(r)["DOCUMENTS"] PROVE Filled(r)
    OBVIOUS
  <2>1. PICK k \in LiveKeys(r) : TRUE
    BY <1>4 DEF Missing
  <2> QED BY <2>1 DEF LiveKeys, InOrder
<1>6. StepDone(r)["CONSENTS"] => StepDone(r)["CUSTOMER_DETAILS"]
  BY <1>2, <1>3 DEF InOrder
<1>7. StepDone(r)["DOCUMENTS"] => StepDone(r)["CUSTOMER_DETAILS"] /\ StepDone(r)["CONSENTS"]
  BY <1>2, <1>3, <1>5 DEF Filled
<1>8. ASSUME NEW n \in 1..3, StepDone(r)[DraftSteps[n]], NEW i \in 1..n
      PROVE  StepDone(r)[DraftSteps[i]]
  <2>1. n \in {1, 2, 3} /\ i \in {1, 2, 3} /\ i \leq n
    BY <1>8
  <2> QED BY <1>1, <1>6, <1>7, <1>8, <2>1
<1> QED BY <1>1, <1>2, <1>3, <1>8

\* The step the card names is the first that is not done.
LEMMA CardStepIsFirst ==
  ASSUME NEW r \in Drafts
  PROVE  /\ CardStep(r) \in 1..4
         /\ CardStep(r) = 4 \/ ~ StepDone(r)[DraftSteps[CardStep(r)]]
         /\ \A i \in 1..(CardStep(r) - 1) : StepDone(r)[DraftSteps[i]]
<1> DEFINE Fits(n) == /\ n = 4 \/ ~ StepDone(r)[DraftSteps[n]]
                      /\ \A i \in 1..(n - 1) : StepDone(r)[DraftSteps[i]]
<1>1. \E n \in 1..4 : Fits(n)
  <2>1. CASE ~ StepDone(r)[DraftSteps[1]]
    <3>1. Fits(1)
      BY <2>1
    <3> QED BY <3>1
  <2>2. CASE StepDone(r)[DraftSteps[1]] /\ ~ StepDone(r)[DraftSteps[2]]
    <3>1. Fits(2)
      BY <2>2
    <3> QED BY <3>1
  <2>3. CASE /\ StepDone(r)[DraftSteps[1]] /\ StepDone(r)[DraftSteps[2]]
             /\ ~ StepDone(r)[DraftSteps[3]]
    <3>1. Fits(3)
      <4>1. \A i \in 1..(3 - 1) : i = 1 \/ i = 2
        OBVIOUS
      <4> QED BY <2>3, <4>1
    <3> QED BY <3>1
  <2>4. CASE /\ StepDone(r)[DraftSteps[1]] /\ StepDone(r)[DraftSteps[2]]
             /\ StepDone(r)[DraftSteps[3]]
    <3>1. Fits(4)
      <4>1. \A i \in 1..(4 - 1) : i = 1 \/ i = 2 \/ i = 3
        OBVIOUS
      <4> QED BY <2>4, <4>1
    <3> QED BY <3>1
  <2> QED BY <2>1, <2>2, <2>3, <2>4
<1>2. CardStep(r) = CHOOSE n \in 1..4 : Fits(n)
  BY DEF CardStep
<1> HIDE DEF Fits
<1>3. CardStep(r) \in 1..4 /\ Fits(CardStep(r))
  BY <1>1, <1>2
<1> QED BY <1>3 DEF Fits

\* DraftResumes: in every state of every draft, the buttons of its card and its
\* page are ones the handlers accept, the bar counts the steps before the one
\* the card names, and past the consents the request can be submitted unless
\* the policies or the rules have changed under it.
THEOREM DraftAlwaysResumes == Spec => []DraftResumes
<1> USE DraftAssumption
<1>1. Typed /\ InOrder => DraftResumes
  <2> SUFFICES ASSUME Typed, InOrder, NEW r \in Drafts, Listed(r)
               PROVE  /\ \A c \in DraftCard(r) : OfOldCategory(r, c) \/ Accepted(r, c)
                      /\ CompletedSteps(r) = 1..(CardStep(r) - 1)
                      /\ CardStep(r) > 2 =>
                           /\ "CONSENTS" \in DraftCard(r)
                           /\ "SUBMIT" \in DraftCard(r) \/ terms[r] # bundle \/ WithoutRules(r)
    BY DEF DraftResumes
  <2>1. status[r] = "DRAFT" /\ ~ due[r]
    BY DEF Listed
  <2>2. category[r] \in Categories \cup {None}
    BY DEF Typed, TypeOK
  <2>3. DocumentChecklist(r) =>
          /\ DocumentContext(r) /\ terms[r] # 0 /\ terms[r] = bundle
          /\ Required[category[r]] # {} /\ Required[category[r]] \subseteq Types
    BY <2>2 DEF DocumentChecklist, SavedConsents, DocumentContext
  <2>4. ASSUME NEW c \in DraftCard(r) PROVE OfOldCategory(r, c) \/ Accepted(r, c)
    <3>1. CASE c \in {"ABANDON", "DETAILS"}
      BY <2>1, <3>1 DEF Accepted, Editable
    <3>2. CASE c \in ConsentsForm(r)
      BY <2>1, <3>2 DEF ConsentsForm, Accepted, ConsentsAccepted
    <3>3. CASE c \in DocumentsSection(r) /\ c = "UPLOAD"
      <4>1. PICK t \in Types : t \in Required[category[r]] /\ DocumentContext(r)
        BY <2>3, <3>3 DEF DocumentsSection
      <4> QED BY <3>3, <4>1 DEF Accepted, UploadAccepted
    <3>4. CASE c \in DocumentsSection(r) /\ c = "REMOVE"
      <4>1. DocumentContext(r) /\ Missing(r) # Required[category[r]]
        BY <2>3, <3>4 DEF DocumentsSection
      <4>2. PICK k \in Keys : k \in LiveKeys(r)
        BY <4>1 DEF Missing, LiveKeys
      <4> QED BY <3>4, <4>1, <4>2 DEF Accepted, DeleteAccepted
    <3>5. CASE c \in FinalReview(r)
      <4>1. c = "SUBMIT" /\ DocumentChecklist(r)
        BY <3>5 DEF FinalReview
      <4> QED BY <2>1, <2>3, <4>1 DEF OfOldCategory, Accepted, Ready
    <3>6. c \in DocumentsSection(r) => c \in {"UPLOAD", "REMOVE"}
      BY DEF DocumentsSection
    <3> QED BY <3>1, <3>2, <3>3, <3>4, <3>5, <3>6 DEF DraftCard, DraftForm
  <2>5. PICK n \in 1..4 : n = CardStep(r)
    BY CardStepIsFirst
  <2>6. n = 4 \/ ~ StepDone(r)[DraftSteps[n]]
    BY <2>5, CardStepIsFirst
  <2>7. \A i \in 1..(n - 1) : StepDone(r)[DraftSteps[i]]
    BY <2>5, CardStepIsFirst
  <2>8. CompletedSteps(r) = 1..(n - 1)
    <3>1. ASSUME NEW i \in 1..3, StepDone(r)[DraftSteps[i]] PROVE i < n
      <4>1. \A j \in 1..i : StepDone(r)[DraftSteps[j]]
        BY <3>1, StepsInOrder
      <4> QED BY <2>6, <4>1
    <3>2. \A i \in 1..(n - 1) : i \in 1..3
      OBVIOUS
    <3>3. CompletedSteps(r) = {i \in 1..3 : StepDone(r)[DraftSteps[i]]}
      BY DEF CompletedSteps
    <3> QED BY <2>7, <3>1, <3>2, <3>3
  <2>9. ASSUME n > 2
        PROVE  /\ "CONSENTS" \in DraftCard(r)
               /\ "SUBMIT" \in DraftCard(r) \/ terms[r] # bundle \/ WithoutRules(r)
    <3>1. category[r] # None /\ terms[r] # 0
      <4>1. 1 \in 1..(n - 1) /\ 2 \in 1..(n - 1)
        BY <2>9
      <4>2. StepDone(r)[DraftSteps[1]] /\ StepDone(r)[DraftSteps[2]]
        BY <2>7, <4>1
      <4> QED BY <4>2, StepsInOrder
    <3>2. "CONSENTS" \in DraftCard(r)
      BY <3>1 DEF DraftCard, DraftForm, ConsentsForm
    <3>3. CASE terms[r] = bundle /\ ~ WithoutRules(r)
      <4>1. DocumentChecklist(r)
        BY <2>1, <3>1, <3>3 DEF DocumentChecklist, SavedConsents, DocumentContext,
                                HasRequiredDraftConsents, WithoutRules
      <4>2. Blockers(r) \subseteq {"NON_EGYPTIAN_DECLARATION"}
        BY <3>1 DEF Blockers, HasRequiredDraftConsents
      <4> QED BY <3>2, <4>1, <4>2 DEF DraftCard, DraftForm, FinalReview
    <3> QED BY <3>2, <3>3
  <2> QED BY <2>4, <2>5, <2>8, <2>9
<1> QED BY <1>1, TypedAlways, InOrderAlways, PTL
=============================================================================
