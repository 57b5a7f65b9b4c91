---------------------------- MODULE Office_proofs ----------------------------
(***************************************************************************)
(* Proofs about the office: Catalogue, Engagement and the pages of         *)
(* BranchEditor and OfficeLists, for any number of branches, customers,    *)
(* campaigns, entries and requests in flight.                              *)
(***************************************************************************)
EXTENDS Catalogue, Engagement, BranchEditor, OfficeLists, VehicleEditor,
        FiniteSetTheorems, SequenceTheorems, WellFoundedInduction, TLAPS
-----------------------------------------------------------------------------
(* Branches, cars and requests.                                            *)

CatalogueCalls == [op : {"DELETE", "CAR", "REQUEST"}, branch : Branches]

CatalogueTyped ==
  /\ CatalogueTypeOK
  /\ request \in [Handlers -> CatalogueCalls \cup {NoRequest}]

\* Statuses and calls in flight.
LEMMA CatalogueTypedAlways == CatalogueSpec => []CatalogueTyped
<1>1. CatalogueInit => CatalogueTyped
  BY DEF CatalogueInit, RequestInit, CatalogueTyped, CatalogueTypeOK, Status
<1>2. CatalogueTyped /\ [CatalogueNext]_catalogueVars => CatalogueTyped'
  <2> SUFFICES ASSUME CatalogueTyped, [CatalogueNext]_catalogueVars PROVE CatalogueTyped'
    OBVIOUS
  <2> USE DEF CatalogueTyped, CatalogueTypeOK
  <2>1. ASSUME NEW b \in Branches, NEW s \in Status,
               DisableBranch(b) \/ CreateBranch(b, s) \/ UpdateBranch(b, s)
        PROVE  CatalogueTyped'
    BY <2>1 DEF DisableBranch, CreateBranch, UpdateBranch, SetBranch, Status
  <2>2. ASSUME NEW h \in Handlers, NEW b \in Branches, BeginDelete(h, b) \/ BeginSaveCar(h, b)
        PROVE  CatalogueTyped'
    BY <2>2 DEF BeginDelete, BeginSaveCar, Read, Begin, CatalogueCalls
  <2>3. ASSUME NEW h \in Handlers, BeginRequest(h)
        PROVE  CatalogueTyped'
    BY <2>3 DEF BeginRequest, Read, Begin, CatalogueCalls
  <2>4. ASSUME NEW h \in Handlers, CommitDelete(h) \/ WriteRefused(h)
        PROVE  CatalogueTyped'
    BY <2>4 DEF CommitDelete, WriteRefused, Finish
  <2>5. ASSUME NEW h \in Handlers, CommitSaveCar(h) \/ CommitRequest(h)
        PROVE  CatalogueTyped'
    <3>1. request[h].branch \in Branches
      BY <2>5 DEF CommitSaveCar, CommitRequest, CatalogueCalls, NoRequest
    <3> QED BY <2>5, <3>1 DEF CommitSaveCar, CommitRequest, Finish
  <2>6. CASE UNCHANGED catalogueVars
    BY <2>6 DEF catalogueVars
  <2> QED BY <2>1, <2>2, <2>3, <2>4, <2>5, <2>6 DEF CatalogueNext, Status
<1> QED BY <1>1, <1>2, PTL DEF CatalogueSpec

(***************************************************************************)
(* Statuses are those of the schema, and whatever refers to a branch       *)
(* refers to one that was made.                                            *)
(***************************************************************************)
THEOREM CatalogueTypeCorrect == CatalogueSpec => []CatalogueTypeOK
BY CatalogueTypedAlways, PTL DEF CatalogueTyped

(***************************************************************************)
(* Whatever the deletion of a branch overlaps with, the branch of the car  *)
(* and that of every request is there: the foreign keys of the schema see  *)
(* to it, the look-ups of the handlers do not.                             *)
(***************************************************************************)
THEOREM BranchesAreThere == CatalogueSpec => []CarsHaveBranches
<1>1. CatalogueInit => CarsHaveBranches
  BY DEF CatalogueInit, CarsHaveBranches
<1>2. CatalogueTyped /\ CarsHaveBranches /\ [CatalogueNext]_catalogueVars => CarsHaveBranches'
  <2> SUFFICES ASSUME CatalogueTyped, CarsHaveBranches, [CatalogueNext]_catalogueVars
               PROVE  CarsHaveBranches'
    OBVIOUS
  <2> USE DEF CatalogueTyped, CatalogueTypeOK, CarsHaveBranches, Exists
  <2>1. ASSUME NEW b \in Branches, NEW s \in Status,
               DisableBranch(b) \/ CreateBranch(b, s) \/ UpdateBranch(b, s)
        PROVE  CarsHaveBranches'
    BY <2>1 DEF DisableBranch, CreateBranch, UpdateBranch, SetBranch, Status
  <2>2. ASSUME NEW h \in Handlers, CommitDelete(h)
        PROVE  CarsHaveBranches'
    BY <2>2 DEF CommitDelete, Deletable, ReferredTo
  <2>3. ASSUME NEW h \in Handlers, CommitSaveCar(h) \/ CommitRequest(h)
        PROVE  CarsHaveBranches'
    BY <2>3 DEF CommitSaveCar, CommitRequest, Referable
  <2>4. ASSUME UNCHANGED <<branch, car, asked>>
        PROVE  CarsHaveBranches'
    BY <2>4
  <2> QED
    BY <2>1, <2>2, <2>3, <2>4
    DEF CatalogueNext, catalogueVars, BeginDelete, BeginSaveCar, BeginRequest, Read,
        WriteRefused, Status
<1> QED BY <1>1, <1>2, CatalogueTypedAlways, PTL DEF CatalogueSpec
-----------------------------------------------------------------------------
(* Reviews, campaigns and the notification list.                           *)

EngagementCalls ==
  [op : {"REVIEW"}, customer : Customers]
    \cup [op : {"MODERATE"}, customer : Customers, verdict : {"APPROVED", "REJECTED"}]
    \cup [op : {"CAMPAIGN"}, campaign : Campaigns, to : SUBSET Customers]
    \cup [op : {"READ"}, customer : Customers, campaign : Campaigns, at : 1..MaxInstant]

EngagementTyped ==
  /\ EngagementTypeOK
  /\ request \in [Handlers -> EngagementCalls \cup {NoRequest}]

\* What a call of each kind carries.
LEMMA EngagementCallCarries ==
  ASSUME EngagementTyped, NEW h \in Handlers
  PROVE  /\ request[h].op \in {"REVIEW", "MODERATE", "READ"} => request[h].customer \in Customers
         /\ request[h].op \in {"CAMPAIGN", "READ"} => request[h].campaign \in Campaigns
         /\ request[h].op = "MODERATE" => request[h].verdict \in {"APPROVED", "REJECTED"}
         /\ request[h].op = "CAMPAIGN" => request[h].to \subseteq Customers
         /\ request[h].op = "READ" => request[h].at \in 1..MaxInstant
BY DEF EngagementTyped, EngagementCalls, NoRequest

LEMMA EngagementTypedAlways == EngagementSpec => []EngagementTyped
<1> USE EngagementAssumption
<1>1. EngagementInit => EngagementTyped
  BY DEF EngagementInit, RequestInit, EngagementTyped, EngagementTypeOK
<1>2. EngagementTyped /\ [EngagementNext]_engagementVars => EngagementTyped'
  <2> SUFFICES ASSUME EngagementTyped, [EngagementNext]_engagementVars PROVE EngagementTyped'
    OBVIOUS
  <2> USE DEF EngagementTyped, EngagementTypeOK, reviewVars, campaignVars, listVars
  <2>1. ASSUME NEW c \in Customers, CompleteRental(c) \/ WeekPasses(c) \/ MarkAllRead(c)
        PROVE  EngagementTyped'
    <3>1. CASE CompleteRental(c)
      BY <3>1 DEF CompleteRental
    <3>2. CASE WeekPasses(c)
      BY <3>2 DEF WeekPasses
    <3>3. CASE MarkAllRead(c)
      BY <3>3 DEF MarkAllRead
    <3> QED BY <2>1, <3>1, <3>2, <3>3
  <2>2. ASSUME NEW c \in Customers, NEW x \in BOOLEAN, SetOptIn(c, x)
        PROVE  EngagementTyped'
    BY <2>2 DEF SetOptIn
  <2>3. ASSUME NEW k \in Campaigns, ArchiveCampaign(k)
        PROVE  EngagementTyped'
    BY <2>3 DEF ArchiveCampaign
  <2>4. CASE InstantPasses
    BY <2>4 DEF InstantPasses
  <2>5. ASSUME NEW h \in Handlers,
               \/ \E c \in Customers :
                    \/ BeginReview(h, c)
                    \/ \E verdict \in {"APPROVED", "REJECTED"} : BeginModerate(h, c, verdict)
               \/ \E k \in Campaigns :
                    \/ \E to \in SUBSET Customers : BeginCampaign(h, k, to)
                    \/ \E c \in Customers : BeginRead(h, c, k)
        PROVE  EngagementTyped'
    <3>1. PICK q \in EngagementCalls : Begin(h, q)
      BY <2>5 DEF BeginReview, BeginModerate, BeginCampaign, BeginRead, EngagementCalls
    <3>2. UNCHANGED <<reviewVars, campaignVars, listVars>>
      BY <2>5 DEF BeginReview, BeginModerate, BeginCampaign, BeginRead
    <3> QED BY <3>1, <3>2 DEF Begin
  <2>6. ASSUME NEW h \in Handlers,
               \/ CommitReview(h) \/ CommitModerate(h) \/ CommitCampaign(h)
               \/ CommitRead(h) \/ BreaksOff(h)
        PROVE  EngagementTyped'
    <3>1. request' \in [Handlers -> EngagementCalls \cup {NoRequest}]
      BY <2>6 DEF CommitReview, CommitModerate, CommitCampaign, CommitRead, BreaksOff, Finish
    <3>2. CASE CommitReview(h) \/ CommitModerate(h)
      BY <3>1, <3>2, EngagementCallCarries DEF CommitReview, CommitModerate
    <3>3. CASE CommitCampaign(h)
      BY <3>1, <3>3, EngagementCallCarries DEF CommitCampaign
    <3>4. CASE CommitRead(h)
      BY <3>1, <3>4, EngagementCallCarries DEF CommitRead
    <3>5. CASE BreaksOff(h)
      BY <3>1, <3>5 DEF BreaksOff
    <3> QED BY <2>6, <3>2, <3>3, <3>4, <3>5
  <2>7. CASE UNCHANGED engagementVars
    BY <2>7 DEF engagementVars
  <2> QED
    BY <2>1, <2>2, <2>3, <2>4, <2>5, <2>6, <2>7
    DEF EngagementNext, ReviewNext, CampaignNext
<1> QED BY <1>1, <1>2, PTL DEF EngagementSpec

(***************************************************************************)
(* Reviews, campaigns and notifications have the statuses of the schema,   *)
(* and nothing is read at an instant that has not come.                    *)
(***************************************************************************)
THEOREM EngagementTypeCorrect == EngagementSpec => []EngagementTypeOK
BY EngagementTypedAlways, PTL DEF EngagementTyped
-----------------------------------------------------------------------------
\* The campaigns on their way to a customer.
Sending(c) == {h \in Handlers : request[h].op = "CAMPAIGN" /\ c \in request[h].to}

\* Those a customer got this week, and those it is still to get.
Capped == \A c \in Customers : reached[c] + Cardinality(Sending(c)) <= Cardinality(Handlers)

LEMMA SendingIsFinite ==
  ASSUME NEW c
  PROVE  /\ IsFiniteSet(Sending(c)) /\ Cardinality(Sending(c)) \in Nat
         /\ IsFiniteSet(Sending(c)') /\ Cardinality(Sending(c)') \in Nat
         /\ Cardinality(Sending(c)) <= Cardinality(Handlers)
         /\ Cardinality(Sending(c)') <= Cardinality(Handlers)
         /\ Cardinality(Handlers) \in Nat
<1>1. Sending(c) \in SUBSET Handlers /\ Sending(c)' \in SUBSET Handlers
  BY DEF Sending
<1> QED BY <1>1, EngagementAssumption, FS_Subset, FS_CardinalityType

LEMMA FewerOnTheirWay ==
  ASSUME EngagementTyped, Capped, NEW c \in Customers,
         Sending(c)' \subseteq Sending(c), reached'[c] \in Nat, reached'[c] <= reached[c]
  PROVE  reached'[c] + Cardinality(Sending(c)') <= Cardinality(Handlers)
<1>1. Cardinality(Sending(c)') <= Cardinality(Sending(c))
  BY SendingIsFinite, FS_Subset
<1>2. reached[c] \in Nat
  BY DEF EngagementTyped, EngagementTypeOK
<1> QED BY <1>1, <1>2, SendingIsFinite DEF Capped

LEMMA CappedAlways == EngagementSpec => []Capped
<1>1. EngagementInit => Capped
  <2> SUFFICES ASSUME EngagementInit, NEW c \in Customers
               PROVE  reached[c] + Cardinality(Sending(c)) <= Cardinality(Handlers)
    BY DEF Capped
  <2> QED BY SendingIsFinite DEF EngagementInit
<1>2. EngagementTyped /\ EngagementTyped' /\ Capped /\ [EngagementNext]_engagementVars => Capped'
  <2> SUFFICES ASSUME EngagementTyped, EngagementTyped', Capped,
                      [EngagementNext]_engagementVars, NEW c \in Customers
               PROVE  reached'[c] + Cardinality(Sending(c)') <= Cardinality(Handlers)
    BY DEF Capped
  <2>1. reached[c] \in Nat /\ reached'[c] \in Nat /\ DOMAIN request = Handlers
    BY DEF EngagementTyped, EngagementTypeOK
  \* The recipients were read: the customer had got none.
  <2>2. ASSUME NEW h \in Handlers, NEW k \in Campaigns, NEW to \in SUBSET Customers,
               BeginCampaign(h, k, to)
        PROVE  reached'[c] + Cardinality(Sending(c)') <= Cardinality(Handlers)
    <3>1. reached' = reached
      BY <2>2 DEF BeginCampaign, campaignVars
    <3>2. CASE c \in to
      <4>1. reached[c] = 0
        BY <2>2, <3>2 DEF BeginCampaign, Recipients
      <4> QED BY <3>1, <4>1, SendingIsFinite
    <3>3. CASE c \notin to
      <4>1. Sending(c)' \subseteq Sending(c)
        BY <2>1, <2>2, <3>3 DEF BeginCampaign, Begin, Sending
      <4> QED BY <2>1, <3>1, <4>1, FewerOnTheirWay
    <3> QED BY <3>2, <3>3
  \* What was on its way has arrived.
  <2>3. ASSUME NEW h \in Handlers, CommitCampaign(h)
        PROVE  reached'[c] + Cardinality(Sending(c)') <= Cardinality(Handlers)
    <3>1. Sending(c)' = Sending(c) \ {h}
      BY <2>1, <2>3 DEF CommitCampaign, Finish, Sending, NoRequest
    <3>2. CASE c \in request[h].to
      <4>1. h \in Sending(c) /\ reached'[c] = reached[c] + 1
        BY <2>3, <3>2 DEF CommitCampaign, Sending
      <4>2. Cardinality(Sending(c)') = Cardinality(Sending(c)) - 1
        BY <3>1, <4>1, SendingIsFinite, FS_RemoveElement
      <4> QED BY <2>1, <4>1, <4>2, SendingIsFinite DEF Capped
    <3>3. CASE c \notin request[h].to
      <4>1. reached'[c] = reached[c]
        BY <2>1, <2>3, <3>3 DEF CommitCampaign
      <4> QED BY <2>1, <3>1, <4>1, FewerOnTheirWay
    <3> QED BY <3>2, <3>3
  <2>4. ASSUME NEW h \in Handlers,
               \/ \E d \in Customers :
                    \/ BeginReview(h, d)
                    \/ \E verdict \in {"APPROVED", "REJECTED"} : BeginModerate(h, d, verdict)
                    \/ \E k \in Campaigns : BeginRead(h, d, k)
               \/ CommitReview(h) \/ CommitModerate(h) \/ CommitRead(h) \/ BreaksOff(h)
        PROVE  reached'[c] + Cardinality(Sending(c)') <= Cardinality(Handlers)
    <3>1. reached' = reached
      BY <2>4
      DEF BeginReview, BeginModerate, BeginRead, CommitReview, CommitModerate, CommitRead,
          BreaksOff, campaignVars
    <3>2. PICK q : request' = [request EXCEPT ![h] = q] /\ q.op # "CAMPAIGN"
      BY <2>4
      DEF BeginReview, BeginModerate, BeginRead, CommitReview, CommitModerate, CommitRead,
          BreaksOff, Begin, Finish, NoRequest
    <3>3. Sending(c)' \subseteq Sending(c)
      BY <2>1, <3>2 DEF Sending
    <3> QED BY <2>1, <3>1, <3>3, FewerOnTheirWay
  <2>5. ASSUME NEW d \in Customers, WeekPasses(d)
        PROVE  reached'[c] + Cardinality(Sending(c)') <= Cardinality(Handlers)
    <3>1. reached'[c] <= reached[c] /\ Sending(c)' = Sending(c)
      BY <2>1, <2>5 DEF WeekPasses, Sending, EngagementTyped, EngagementTypeOK
    <3> QED BY <2>1, <3>1, FewerOnTheirWay
  <2>6. ASSUME UNCHANGED <<reached, request>>
        PROVE  reached'[c] + Cardinality(Sending(c)') <= Cardinality(Handlers)
    <3>1. Sending(c)' = Sending(c)
      BY <2>6 DEF Sending
    <3> QED BY <2>1, <2>6, <3>1, FewerOnTheirWay
  <2>7. ASSUME \/ \E d \in Customers :
                    \/ CompleteRental(d) \/ MarkAllRead(d)
                    \/ \E x \in BOOLEAN : SetOptIn(d, x)
               \/ \E k \in Campaigns : ArchiveCampaign(k)
               \/ InstantPasses \/ UNCHANGED engagementVars
        PROVE  UNCHANGED <<reached, request>>
    BY <2>7
    DEF CompleteRental, MarkAllRead, SetOptIn, ArchiveCampaign, InstantPasses,
        engagementVars, campaignVars
  <2> QED
    BY <2>2, <2>3, <2>4, <2>5, <2>6, <2>7 DEF EngagementNext, ReviewNext, CampaignNext
<1> QED BY <1>1, <1>2, EngagementTypedAlways, PTL DEF EngagementSpec

(***************************************************************************)
(* However many campaigns are created at once, a customer gets at most one *)
(* within seven days for every request in flight: the recipients of each   *)
(* are read before any of them is created (createCampaign).                *)
(***************************************************************************)
THEOREM CampaignsAreCapped == EngagementSpec => []WeeklyCap
<1>1. EngagementTyped /\ Capped => WeeklyCap
  <2> SUFFICES ASSUME EngagementTyped, Capped, NEW c \in Customers
               PROVE  reached[c] <= Cardinality(Handlers)
    BY DEF WeeklyCap
  <2>1. reached[c] \in Nat
    BY DEF EngagementTyped, EngagementTypeOK
  <2> QED BY <2>1, SendingIsFinite DEF Capped
<1> QED BY <1>1, EngagementTypedAlways, CappedAlways, PTL
-----------------------------------------------------------------------------
(* The page of branches.                                                   *)

BranchCalls ==
  [op : {"SAVE"}, id : Offices \cup {None}]
    \cup [op : {"DISABLE", "DELETE", "DELETED"}, id : Offices]
    \cup [op : {"STORED"}, what : {"SAVE", "DISABLE"}, id : Offices, version : 0..MaxChanges]

BranchEditorTyped ==
  /\ BranchEditorTypeOK
  /\ request \in [Handlers -> BranchCalls \cup {NoRequest}]

\* What a call of each kind is of.
LEMMA BranchCallCarries ==
  ASSUME BranchEditorTyped, NEW h \in Handlers
  PROVE  /\ request[h].op \in {"DISABLE", "DELETE", "DELETED", "STORED"} =>
              request[h].id \in Offices
         /\ request[h].op = "STORED" => /\ request[h].version \in 0..MaxChanges
                                        /\ request[h].what \in {"SAVE", "DISABLE"}
BY DEF BranchEditorTyped, BranchCalls, NoRequest

LEMMA BranchEditorTypedAlways == BranchEditorSpec => []BranchEditorTyped
<1> USE BranchEditorAssumption
<1>1. BranchEditorInit => BranchEditorTyped
  <2> SUFFICES ASSUME BranchEditorInit PROVE BranchEditorTyped
    OBVIOUS
  <2>1. 0..1 \subseteq 0..MaxChanges /\ 0 \in 0..MaxChanges
    OBVIOUS
  <2>2. kept \in [Offices -> 0..MaxChanges]
    BY <2>1 DEF BranchEditorInit
  <2>3. request \in [Handlers -> BranchCalls \cup {NoRequest}]
    BY DEF BranchEditorInit, RequestInit
  <2> QED
    BY <2>1, <2>2, <2>3 DEF BranchEditorInit, BranchEditorTyped, BranchEditorTypeOK, NoDialog, Dialogs
<1>2. BranchEditorTyped /\ [BranchEditorNext]_branchEditorVars => BranchEditorTyped'
  <2> SUFFICES ASSUME BranchEditorTyped, [BranchEditorNext]_branchEditorVars
               PROVE  BranchEditorTyped'
    OBVIOUS
  <2> USE DEF BranchEditorTyped, BranchEditorTypeOK
  <2>1. CASE OpenCreate \/ CloseDialog \/ ChangeField \/ \E b \in Offices : OpenEdit(b)
    <3>1. NoDialog \in Dialogs /\ FormOf(None, 0) \in Dialogs
      BY DEF NoDialog, FormOf, Dialogs
    <3>2. CASE OpenCreate \/ CloseDialog
      BY <3>1, <3>2 DEF OpenCreate, CloseDialog, Turn
    <3>3. CASE ChangeField
      <4>1. dialog' = [open |-> dialog.open, id |-> dialog.id, version |-> dialog.version,
                       typed |-> TRUE]
        BY <3>3 DEF ChangeField, Turn, Dialogs
      <4> QED BY <3>3, <4>1 DEF ChangeField, Turn, Dialogs
    <3>4. ASSUME NEW b \in Offices, OpenEdit(b) PROVE BranchEditorTyped'
      BY <3>4 DEF OpenEdit, Turn, FormOf, Dialogs
    <3> QED BY <2>1, <3>2, <3>3, <3>4
  <2>2. ASSUME NEW h \in Handlers,
               SaveBranch(h) \/ \E op \in {"DISABLE", "DELETE"} : DisableOrDelete(h, op)
        PROVE  BranchEditorTyped'
    <3>1. PICK q \in BranchCalls : Begin(h, q)
      BY <2>2 DEF SaveBranch, DisableOrDelete, Call, BranchCalls, Dialogs
    <3> QED BY <2>2, <3>1 DEF SaveBranch, DisableOrDelete, Call, Begin
  <2>3. ASSUME NEW h \in Handlers, NEW b \in Offices, BranchStored(h, b)
        PROVE  BranchEditorTyped'
    <3>1. PICK q \in BranchCalls : Continue(h, q)
      BY <2>3 DEF BranchStored, BranchCalls
    <3> QED BY <2>3, <3>1 DEF BranchStored, Continue
  <2>4. ASSUME NEW h \in Handlers, RowDeleted(h)
        PROVE  BranchEditorTyped'
    <3>1. request[h].id \in Offices
      BY <2>4, BranchCallCarries DEF RowDeleted
    <3>2. PICK q \in BranchCalls : Continue(h, q)
      BY <2>4, <3>1 DEF RowDeleted, BranchCalls
    <3> QED BY <2>4, <3>1, <3>2 DEF RowDeleted, Continue
  <2>5. ASSUME NEW h \in Handlers, StoredAnswered(h) \/ DeletedAnswered(h)
        PROVE  BranchEditorTyped'
    <3>1. request' \in [Handlers -> BranchCalls \cup {NoRequest}]
      BY <2>5 DEF StoredAnswered, DeletedAnswered, Answered, Finish
    <3>2. request[h].id \in Offices
      BY <2>5, BranchCallCarries DEF StoredAnswered, DeletedAnswered
    <3>3. NoDialog \in Dialogs /\ 0 \in 0..MaxChanges
      BY DEF NoDialog, Dialogs
    <3>4. CASE StoredAnswered(h)
      <4> DEFINE b == request[h].id
                 v == request[h].version
      <4>1. v \in 0..MaxChanges
        BY <3>4, BranchCallCarries DEF StoredAnswered
      <4>2. shown' \in {shown, [shown EXCEPT ![b] = v]}
        BY <3>4 DEF StoredAnswered, Answered
      <4>3. dialog' = [open |-> TRUE, id |-> b, version |-> v, typed |-> FALSE]
        BY <3>4 DEF StoredAnswered, Answered, FormAnswered, FormOf
      <4>4. shown' \in [Offices -> 0..MaxChanges]
        BY <3>2, <4>1, <4>2
      <4>5. dialog' \in Dialogs
        BY <3>2, <4>1, <4>3 DEF Dialogs
      <4> QED BY <3>1, <3>4, <4>4, <4>5 DEF StoredAnswered, Answered
    <3>5. CASE DeletedAnswered(h)
      BY <3>1, <3>2, <3>3, <3>5 DEF DeletedAnswered, Answered
    <3> QED BY <2>5, <3>4, <3>5
  <2>6. ASSUME NEW h \in Handlers, ChangeFails(h)
        PROVE  BranchEditorTyped'
    BY <2>6 DEF ChangeFails, Finish
  <2>7. CASE UNCHANGED branchEditorVars
    BY <2>7 DEF branchEditorVars
  <2> QED BY <2>1, <2>2, <2>3, <2>4, <2>5, <2>6, <2>7 DEF BranchEditorNext
<1> QED BY <1>1, <1>2, PTL DEF BranchEditorSpec

(***************************************************************************)
(* List and dialog hold versions that branches may have had.               *)
(***************************************************************************)
THEOREM BranchEditorTypeCorrect == BranchEditorSpec => []BranchEditorTypeOK
BY BranchEditorTypedAlways, PTL DEF BranchEditorTyped

(***************************************************************************)
(* For any number of branches and of changes under way, the page asks      *)
(* before it drops the form exactly if something was typed since the form  *)
(* was put there, and the dialog of a branch is of the version the list    *)
(* shows: an answer puts the version it brings into both at once.  What an *)
(* answer itself takes from the form is not asked about, and not claimed.  *)
(***************************************************************************)
THEOREM TypedIsAskedAbout == BranchEditorSpec => []UnsavedIsKnown
<1>1. BranchEditorInit => UnsavedIsKnown
  BY DEF BranchEditorInit, NoDialog, UnsavedIsKnown
<1>2. /\ BranchEditorTyped /\ UnsavedIsKnown /\ [BranchEditorNext]_branchEditorVars
      => UnsavedIsKnown'
  <2> SUFFICES ASSUME BranchEditorTyped, UnsavedIsKnown, [BranchEditorNext]_branchEditorVars
               PROVE  UnsavedIsKnown'
    OBVIOUS
  <2> USE DEF UnsavedIsKnown
  <2>1. CASE OpenCreate \/ CloseDialog \/ ChangeField \/ \E b \in Offices : OpenEdit(b)
    BY <2>1
    DEF OpenCreate, CloseDialog, ChangeField, OpenEdit, Turn, NoDialog, FormOf,
        BranchEditorTyped, BranchEditorTypeOK, Dialogs
  <2>2. ASSUME NEW h \in Handlers, StoredAnswered(h)
        PROVE  UnsavedIsKnown'
    <3>1. request[h].id \in Offices
      BY <2>2, BranchCallCarries DEF StoredAnswered
    <3> QED
      BY <2>2, <3>1
      DEF StoredAnswered, Answered, FormAnswered, FormOf, BranchEditorTyped,
          BranchEditorTypeOK
  <2>3. ASSUME NEW h \in Handlers, DeletedAnswered(h)
        PROVE  UnsavedIsKnown'
    BY <2>3 DEF DeletedAnswered, Answered, NoDialog
  <2>4. CASE UNCHANGED <<shown, dialog, dirty>>
    BY <2>4
  <2> QED
    BY <2>1, <2>2, <2>3, <2>4
    DEF BranchEditorNext, branchEditorVars, SaveBranch, DisableOrDelete, Call, BranchStored,
        RowDeleted, ChangeFails
<1> QED BY <1>1, <1>2, BranchEditorTypedAlways, PTL DEF BranchEditorSpec
-----------------------------------------------------------------------------
(* The pages that list entries.                                            *)

OfficeCalls ==
  [op : {"LIST"}, entry : Entries \cup {None}]
    \cup [op : {"ARRIVE"}, entry : Entries \cup {None}, versions : [Entries -> 1..MaxVersion]]
    \cup [op : {"STORE"}, entry : Entries]
    \cup [op : {"STORED"}, entry : Entries, version : 1..MaxVersion]

OfficeTyped ==
  /\ OfficeListsTypeOK
  /\ request \in [Handlers -> OfficeCalls \cup {NoRequest}]

\* What a call of each kind is of.
LEMMA OfficeCallCarries ==
  ASSUME OfficeTyped, NEW h \in Handlers
  PROVE  /\ request[h] # NoRequest => request[h].entry \in Entries \cup {None}
         /\ request[h].op \in {"STORE", "STORED"} => request[h].entry \in Entries
         /\ request[h].op \in {"LIST", "ARRIVE", "STORE", "STORED"} => request[h] # NoRequest
         /\ request[h].op = "STORED" => request[h].version \in 1..MaxVersion
         /\ request[h].op = "ARRIVE" => request[h].versions \in [Entries -> 1..MaxVersion]
BY DEF OfficeTyped, OfficeCalls, NoRequest

LEMMA OfficeTypedAlways == OfficeListsSpec => []OfficeTyped
<1> USE OfficeListsAssumption
<1>1. OfficeListsInit => OfficeTyped
  <2>1. 1 \in 1..MaxVersion /\ 0 \in 0..MaxVersion
    OBVIOUS
  <2> QED BY <2>1 DEF OfficeListsInit, RequestInit, OfficeTyped, OfficeListsTypeOK
<1>2. OfficeTyped /\ [OfficeListsNext]_officeVars => OfficeTyped'
  <2> SUFFICES ASSUME OfficeTyped, [OfficeListsNext]_officeVars PROVE OfficeTyped'
    OBVIOUS
  <2> USE DEF OfficeTyped, OfficeListsTypeOK
  <2>1. ASSUME NEW e \in Entries, StoredElsewhere(e)
        PROVE  OfficeTyped'
    BY <2>1 DEF StoredElsewhere
  <2>2. ASSUME NEW h \in Handlers, LoadList(h) \/ \E e \in Entries : SaveEntry(h, e)
        PROVE  OfficeTyped'
    <3>1. PICK q \in OfficeCalls : Begin(h, q)
      BY <2>2 DEF LoadList, SaveEntry, Reading, OfficeCalls
    <3> QED BY <2>2, <3>1 DEF LoadList, SaveEntry, Begin
  <2>3. ASSUME NEW h \in Handlers, ListRead(h)
        PROVE  OfficeTyped'
    <3>1. [op |-> "ARRIVE", entry |-> request[h].entry, versions |-> stored] \in OfficeCalls
      BY <2>3, OfficeCallCarries DEF ListRead, OfficeCalls
    <3> QED BY <2>3, <3>1 DEF ListRead, Continue
  <2>4. ASSUME NEW h \in Handlers, ListShown(h)
        PROVE  OfficeTyped'
    <3>1. request[h].versions \in [Entries -> 0..MaxVersion]
      BY <2>4, OfficeCallCarries DEF ListShown
    <3> QED BY <2>4, <3>1 DEF ListShown, Finish
  <2>5. ASSUME NEW h \in Handlers, EntryStored(h)
        PROVE  OfficeTyped'
    <3>1. [op |-> "STORED", entry |-> request[h].entry,
           version |-> stored[request[h].entry] + 1] \in OfficeCalls
      BY <2>5, OfficeCallCarries DEF EntryStored, OfficeCalls
    <3> QED BY <2>5, <3>1, OfficeCallCarries DEF EntryStored, Continue
  <2>6. ASSUME NEW h \in Handlers, SaveAnswered(h)
        PROVE  OfficeTyped'
    <3>1. request[h].entry \in Entries /\ request[h].version \in 1..MaxVersion
      BY <2>6, OfficeCallCarries DEF SaveAnswered
    <3>2. own' \in [Entries -> 0..MaxVersion] /\ listed' \in [Entries -> 0..MaxVersion]
      BY <2>6, <3>1 DEF SaveAnswered
    <3>3. Reading(request[h].entry) \in OfficeCalls
      BY <3>1 DEF Reading, OfficeCalls
    <3>4. request' \in [Handlers -> OfficeCalls \cup {NoRequest}]
      BY <2>6, <3>3 DEF SaveAnswered, Continue, Finish
    <3> QED BY <2>6, <3>2, <3>4 DEF SaveAnswered
  <2>7. ASSUME NEW h \in Handlers, OfficeCallFails(h)
        PROVE  OfficeTyped'
    BY <2>7 DEF OfficeCallFails, Finish
  <2>8. CASE UNCHANGED officeVars
    BY <2>8 DEF officeVars
  <2> QED BY <2>1, <2>2, <2>3, <2>4, <2>5, <2>6, <2>7, <2>8 DEF OfficeListsNext
<1> QED BY <1>1, <1>2, PTL DEF OfficeListsSpec

(***************************************************************************)
(* Lists hold versions that entries may have had.                          *)
(***************************************************************************)
THEOREM OfficeTypeCorrect == OfficeListsSpec => []OfficeListsTypeOK
BY OfficeTypedAlways, PTL DEF OfficeTyped
-----------------------------------------------------------------------------
\* The pages that hold back every other change during one.
OneChange == page.busy = "PAGE" /\ ~page.refilters

\* What such a page has under way: one call; a load only while nothing is
\* listed; and a list or an entry no older than what the page has saved.
Alone == \A g, h \in Handlers : request[g] # NoRequest /\ request[h] # NoRequest => g = h

Current(r) ==
  /\ r.op \in {"LIST", "ARRIVE"} /\ r.entry = None => ~Loaded
  /\ r.op = "ARRIVE" => \A e \in Entries : r.versions[e] >= own[e]
  /\ r.op = "STORED" => r.version >= own[r.entry] /\ r.version <= stored[r.entry]

AllCurrent == \A h \in Handlers : Current(request[h])

OwnStored == \A e \in Entries : own[e] <= stored[e]

\* A page that puts the answer in never falls behind.
EntriesShown == page.answer = "ENTRY" => \A e \in Entries : listed[e] >= own[e]

Recent == OneChange => Alone /\ AllCurrent /\ OwnStored /\ EntriesShown /\ OwnChangesShown

\* A step of the one call under way.
LEMMA OneUnderWay ==
  ASSUME OfficeTyped, Alone, NEW h \in Handlers, request[h] # NoRequest,
         NEW q, request' = [request EXCEPT ![h] = q]
  PROVE  /\ Alone' /\ \A g \in Handlers : request'[g] \in {q, NoRequest}
         /\ Current(q)' => AllCurrent'
         /\ q # NoRequest => OwnChangesShown'
<1>1. DOMAIN request = Handlers
  BY DEF OfficeTyped
<1>2. \A g \in Handlers : request'[g] \in {q, NoRequest}
  BY <1>1 DEF Alone
<1>3. Alone'
  BY <1>1 DEF Alone
<1>4. ASSUME Current(q)', NEW g \in Handlers PROVE Current(request[g])'
  <2>1. CASE request'[g] = q
    BY <1>4, <2>1 DEF Current
  <2>2. CASE request'[g] = NoRequest
    BY <2>2 DEF Current, NoRequest
  <2> QED BY <1>2, <2>1, <2>2
<1>5. q # NoRequest => OwnChangesShown'
  BY <1>1 DEF OwnChangesShown
<1> QED BY <1>2, <1>3, <1>4, <1>5 DEF AllCurrent

LEMMA RecentAlways == OfficeListsSpec => []Recent
<1> USE OfficeListsAssumption
<1>1. OfficeListsInit => Recent
  <2> SUFFICES ASSUME OfficeListsInit PROVE Recent
    OBVIOUS
  <2>1. \A h \in Handlers : request[h] = NoRequest
    BY DEF OfficeListsInit, RequestInit
  <2> QED
    BY <2>1
    DEF OfficeListsInit, Recent, Alone, AllCurrent, Current, NoRequest, OwnStored, EntriesShown,
        OwnChangesShown
<1>2. OfficeTyped /\ OfficeTyped' /\ Recent /\ [OfficeListsNext]_officeVars => Recent'
  <2> SUFFICES ASSUME OfficeTyped, OfficeTyped', Recent, [OfficeListsNext]_officeVars,
                      OneChange'
               PROVE  Alone' /\ AllCurrent' /\ OwnStored' /\ EntriesShown' /\ OwnChangesShown'
    BY DEF Recent
  <2>1. OneChange /\ page' = page
    BY DEF OneChange, OfficeListsNext, officeVars, StoredElsewhere, SaveEntry, LoadList,
           ListRead, ListShown, EntryStored, SaveAnswered, OfficeCallFails
  <2>2. Alone /\ AllCurrent /\ OwnStored /\ EntriesShown /\ OwnChangesShown
    BY <2>1 DEF Recent
  <2>3. /\ stored \in [Entries -> Nat] /\ listed \in [Entries -> Nat] /\ own \in [Entries -> Nat]
        /\ DOMAIN request = Handlers
    BY DEF OfficeTyped, OfficeListsTypeOK
  <2> DEFINE Goal == Alone' /\ AllCurrent' /\ OwnStored' /\ EntriesShown' /\ OwnChangesShown'
  <2>4. ASSUME NEW e \in Entries, StoredElsewhere(e)
        PROVE  Goal
    <3>1. \A x \in Entries : stored'[x] >= stored[x] /\ stored'[x] \in Nat
      BY <2>3, <2>4 DEF StoredElsewhere
    <3>2. UNCHANGED <<page, listed, own, error, request>>
      BY <2>4 DEF StoredElsewhere
    <3>3. ASSUME NEW h \in Handlers PROVE Current(request[h])'
      <4>1. PICK q : q = request[h]
        OBVIOUS
      <4>2. Current(q)
        BY <2>2, <4>1 DEF AllCurrent
      <4>3. q.op = "STORED" => q.entry \in Entries /\ q.version \in Nat
        BY <4>1, OfficeCallCarries
      <4>4. Current(q)'
        BY <2>3, <3>1, <3>2, <4>2, <4>3 DEF Current, Loaded
      <4> QED BY <3>2, <4>1, <4>4
    <3>4. OwnStored'
      BY <2>2, <2>3, <3>1, <3>2 DEF OwnStored
    <3> QED BY <2>2, <3>2, <3>3, <3>4 DEF Alone, AllCurrent, EntriesShown, OwnChangesShown
  \* Nothing else is under way: every call would be a change, or a load.
  <2>5. ASSUME NEW h \in Handlers, LoadList(h) \/ \E e \in Entries : SaveEntry(h, e)
        PROVE  Goal
    <3>1. \A g \in Handlers : request[g] = NoRequest
      <4>1. CASE LoadList(h)
        BY <2>1, <4>1 DEF LoadList, OneChange
      <4>2. ASSUME NEW e \in Entries, SaveEntry(h, e), NEW g \in Handlers,
                   request[g] # NoRequest
            PROVE  FALSE
        <5>1. request[g].entry = None /\ Loaded
          BY <2>1, <4>2 DEF SaveEntry, Free, UnderWay, OneChange
        <5>2. request[g].op \in {"LIST", "ARRIVE"}
          BY <4>2, <5>1, OfficeCallCarries DEF OfficeTyped, OfficeCalls
        <5> QED BY <2>2, <5>1, <5>2 DEF AllCurrent, Current
      <4> QED BY <2>5, <4>1, <4>2
    <3>2. PICK q : /\ request' = [request EXCEPT ![h] = q]
                   /\ \/ q.op = "LIST" /\ (q.entry = None => ~Loaded)
                      \/ q.op = "STORE"
                   /\ UNCHANGED <<page, stored, listed, own>>
      BY <2>1, <2>5 DEF LoadList, SaveEntry, Begin, Reading, OneChange
    <3>3. \A g \in Handlers : request'[g] \in {q, NoRequest}
      BY <2>3, <3>1, <3>2
    <3>4. AllCurrent'
      BY <3>2, <3>3 DEF AllCurrent, Current, NoRequest, Loaded
    <3>5. Alone'
      BY <2>3, <3>1, <3>2 DEF Alone
    <3>6. q # NoRequest
      BY <3>2 DEF NoRequest
    <3>7. OwnChangesShown'
      BY <2>3, <3>2, <3>6 DEF OwnChangesShown
    <3> QED BY <2>2, <3>2, <3>4, <3>5, <3>7 DEF OwnStored, EntriesShown
  <2>6. ASSUME NEW h \in Handlers, ListRead(h)
        PROVE  Goal
    <3>1. PICK q : /\ q = [op |-> "ARRIVE", entry |-> request[h].entry, versions |-> stored]
                   /\ request' = [request EXCEPT ![h] = q]
      BY <2>6 DEF ListRead, Continue
    <3>2. UNCHANGED <<page, stored, listed, own, error>> /\ request[h] # NoRequest
      BY <2>6, OfficeCallCarries DEF ListRead
    <3>3. Current(q)'
      BY <2>2, <2>3, <2>6, <3>1, <3>2 DEF ListRead, AllCurrent, Current, OwnStored, Loaded
    <3>4. q # NoRequest
      BY <3>1 DEF NoRequest
    <3> QED
      BY <2>2, <3>1, <3>2, <3>3, <3>4, OneUnderWay DEF OwnStored, EntriesShown
  \* What is shown now is what was stored when it was read.
  <2>7. ASSUME NEW h \in Handlers, ListShown(h)
        PROVE  Goal
    <3>1. /\ request' = [request EXCEPT ![h] = NoRequest] /\ request[h] # NoRequest
          /\ listed' = request[h].versions /\ UNCHANGED <<page, stored, own, error>>
      BY <2>7, OfficeCallCarries DEF ListShown, Finish
    <3>2. \A e \in Entries : listed'[e] >= own'[e]
      BY <2>2, <2>7, <3>1 DEF AllCurrent, Current, ListShown
    <3>3. Current(NoRequest)'
      BY DEF Current, NoRequest
    <3> QED
      BY <2>2, <3>1, <3>2, <3>3, OneUnderWay DEF OwnStored, EntriesShown, OwnChangesShown
  <2>8. ASSUME NEW h \in Handlers, EntryStored(h)
        PROVE  Goal
    <3>1. PICK e, q :
            /\ e \in Entries /\ e = request[h].entry
            /\ q = [op |-> "STORED", entry |-> e, version |-> stored[e] + 1]
            /\ request' = [request EXCEPT ![h] = q] /\ request[h] # NoRequest
            /\ stored' = [stored EXCEPT ![e] = @ + 1]
            /\ UNCHANGED <<page, listed, own, error>>
      BY <2>8, OfficeCallCarries DEF EntryStored, Continue
    <3>2. OwnStored' /\ own[e] <= stored[e] /\ stored'[e] = stored[e] + 1
      BY <2>2, <2>3, <3>1 DEF OwnStored
    <3>3. Current(q)'
      BY <2>3, <3>1, <3>2 DEF Current
    <3>4. q # NoRequest
      BY <3>1 DEF NoRequest
    <3> QED BY <2>2, <3>1, <3>2, <3>3, <3>4, OneUnderWay DEF EntriesShown
  \* The answer is the latest the page saved.
  <2>9. ASSUME NEW h \in Handlers, SaveAnswered(h)
        PROVE  Goal
    <3> DEFINE e == request[h].entry
               v == request[h].version
    <3>1. /\ e \in Entries /\ v \in Nat /\ request[h] # NoRequest
          /\ v >= own[e] /\ v <= stored[e]
          /\ own' = [own EXCEPT ![e] = IF v > @ THEN v ELSE @]
          /\ UNCHANGED <<page, stored, error>>
      BY <2>2, <2>9, OfficeCallCarries DEF SaveAnswered, AllCurrent, Current
    <3>2. own'[e] = v /\ \A x \in Entries \ {e} : own'[x] = own[x]
      BY <2>3, <3>1
    <3>3. OwnStored'
      BY <2>2, <3>1, <3>2 DEF OwnStored
    <3>4. CASE page.answer = "RELOAD"
      <4>1. PICK q : q = Reading(e) /\ request' = [request EXCEPT ![h] = q]
        BY <2>9, <3>4 DEF SaveAnswered, Continue
      <4>2. Current(q)'
        BY <3>1, <4>1 DEF Current, Reading
      <4>3. q # NoRequest
        BY <4>1 DEF Reading, NoRequest
      <4>4. EntriesShown'
        BY <3>1, <3>4 DEF EntriesShown
      <4> QED BY <2>2, <3>1, <3>3, <4>1, <4>2, <4>3, <4>4, OneUnderWay
    <3>5. CASE page.answer = "ENTRY"
      <4>1. /\ request' = [request EXCEPT ![h] = NoRequest]
            /\ listed' = [listed EXCEPT ![e] = v]
        BY <2>9, <3>1, <3>5 DEF SaveAnswered, Finish
      <4>2. \A x \in Entries : listed'[x] >= own'[x]
        BY <2>2, <2>3, <3>1, <3>2, <3>5, <4>1 DEF EntriesShown
      <4>3. Current(NoRequest)'
        BY DEF Current, NoRequest
      <4> QED
        BY <2>2, <3>1, <3>3, <4>1, <4>2, <4>3, OneUnderWay DEF EntriesShown, OwnChangesShown
    <3> QED BY <2>9, <3>4, <3>5 DEF SaveAnswered
  \* An error is shown from then on, and no page that puts answers in forgets.
  <2>10. ASSUME NEW h \in Handlers, OfficeCallFails(h)
         PROVE  Goal
    <3>1. /\ request' = [request EXCEPT ![h] = NoRequest] /\ request[h] # NoRequest
          /\ error' = TRUE /\ UNCHANGED <<page, stored, own>>
          /\ page.keeps => listed' = listed
      BY <2>10 DEF OfficeCallFails, Finish
    <3>2. page.answer = "ENTRY" => page.keeps
      BY DEF OfficeTyped, OfficeListsTypeOK, Pages, StaffPage, ReviewPage, FleetPage,
             BranchPage, ContentPage, PolicyPage, CustomerPage, CalendarPage, CampaignPage,
             RulePage, SecurityPage, AccountPage, CommunicationsPage, ReportsPage, LedgerPage
    <3>3. Current(NoRequest)'
      BY DEF Current, NoRequest
    <3> QED
      BY <2>2, <3>1, <3>2, <3>3, OneUnderWay DEF OwnStored, EntriesShown, OwnChangesShown
  <2>11. CASE UNCHANGED officeVars
    <3>1. AllCurrent'
      BY <2>2, <2>11 DEF officeVars, AllCurrent, Current, Loaded
    <3> QED
      BY <2>2, <2>11, <3>1 DEF officeVars, Alone, OwnStored, EntriesShown, OwnChangesShown
  <2> QED BY <2>4, <2>5, <2>6, <2>7, <2>8, <2>9, <2>10, <2>11 DEF OfficeListsNext
<1> QED BY <1>1, <1>2, OfficeTypedAlways, PTL DEF OfficeListsSpec

(***************************************************************************)
(* A page that holds back every other change during one shows its own      *)
(* changes whenever it is at rest without an error: the list a change      *)
(* brings is read after it, and no load overlaps with one.                 *)
(***************************************************************************)
THEOREM OwnChangesAreShown == OfficeListsSpec => []OwnChangesShown
<1>1. Recent => OwnChangesShown
  BY DEF Recent, OneChange, OwnChangesShown
<1> QED BY <1>1, RecentAlways, PTL
-----------------------------------------------------------------------------
(* The pictures of a car.                                                  *)

\* A set of numbers that is not empty has a least one.
LEMMA LeastOf ==
  ASSUME NEW T \in SUBSET Nat, T # {}
  PROVE  \E m \in T : \A n \in T : m <= n
<1> DEFINE Less == OpToRel(<, Nat)
<1>1. \A x, y \in Nat : <<y, x>> \in Less <=> y < x
  BY DEF OpToRel
<1> HIDE DEF Less
<1>2. IsWellFoundedOn(Less, Nat)
  BY NatLessThanWellFounded DEF Less
<1>3. PICK x \in T : \A y \in T : ~ (<<y, x>> \in Less)
  BY <1>2, WFMin
<1>4. \A y \in T : ~ (y < x)
  BY <1>1, <1>3
<1>5. \A y \in T : x <= y
  BY <1>4
<1> QED BY <1>5

\* The n-th of some places is one of them: the least one up to which there
\* are n.
LEMMA NthIsPlace ==
  ASSUME NEW len \in Nat, NEW P \in SUBSET (1..len)
  PROVE  /\ IsFiniteSet(P) /\ Cardinality(P) \in 0..len
         /\ \A n \in 1..Cardinality(P) : NthPlace(P, n) \in P
<1>1. IsFiniteSet(P) /\ Cardinality(P) \in 0..len
  <2>1. IsFiniteSet(1..len) /\ Cardinality(1..len) = len
    BY FS_Interval
  <2>2. IsFiniteSet(P) /\ Cardinality(P) <= len
    BY <2>1, FS_Subset
  <2>3. Cardinality(P) \in Nat
    BY <2>2, FS_CardinalityType
  <2> QED BY <2>2, <2>3
<1>2. SUFFICES ASSUME NEW n \in 1..Cardinality(P)
               PROVE  \E i \in P : Cardinality(P \cap 1..i) = n
  BY <1>1 DEF NthPlace
<1> DEFINE C(k) == Cardinality(P \cap 1..k)
           T == {k \in 1..len : n <= C(k)}
<1>3. \A k \in 0..len : IsFiniteSet(P \cap 1..k) /\ C(k) \in Nat
  BY <1>1, FS_Subset, FS_CardinalityType
<1>4. P \cap 1..len = P /\ P \cap 1..0 = {}
  <2>1. P \cap 1..len = P
    OBVIOUS
  <2>2. \A i : i \notin 1..0
    OBVIOUS
  <2> QED BY <2>1, <2>2
<1>5. len \in T
  BY <1>1, <1>4
<1>6. PICK m \in T : \A k \in T : m <= k
  <2>1. T \in SUBSET Nat
    OBVIOUS
  <2> QED BY <1>5, <2>1, LeastOf
<1>7. m \in 1..len /\ n <= C(m)
  BY <1>6
<1>8. C(m - 1) < n
  <2>1. CASE m = 1
    BY <1>4, <2>1, FS_EmptySet
  <2>2. CASE m # 1
    <3>1. m - 1 \in 1..len /\ m - 1 \notin T
      BY <1>6, <1>7, <2>2
    <3> QED BY <1>1, <1>3, <3>1
  <2> QED BY <2>1, <2>2
<1>9. CASE m \in P
  <2>1. P \cap 1..m = (P \cap 1..m - 1) \cup {m} /\ m \notin P \cap 1..m - 1
    BY <1>7, <1>9
  <2>2. C(m) = C(m - 1) + 1
    <3>1. PICK A : A = P \cap 1..m - 1
      OBVIOUS
    <3>2. IsFiniteSet(A) /\ m \notin A
      <4>1. m - 1 \in 0..len
        BY <1>7
      <4> QED BY <1>3, <2>1, <3>1, <4>1
    <3>3. Cardinality(A \cup {m}) = Cardinality(A) + 1
      BY <3>2, FS_AddElement
    <3>4. P \cap 1..m = A \cup {m}
      BY <2>1, <3>1
    <3> QED BY <3>1, <3>3, <3>4
  <2>3. C(m) = n
    <3>1. PICK a \in Nat, b \in Nat : a = C(m - 1) /\ b = C(m)
      BY <1>3, <1>7
    <3>2. n <= b /\ a < n /\ b = a + 1 /\ n \in Nat
      BY <1>1, <1>7, <1>8, <2>2, <3>1
    <3>3. b = n
      BY <3>2
    <3> QED BY <3>1, <3>3
  <2> QED BY <1>9, <2>3
<1>10. CASE m \notin P
  <2>1. P \cap 1..m = P \cap 1..m - 1
    BY <1>7, <1>10
  <2>2. C(m) = C(m - 1)
    BY <2>1
  <2>3. PICK a \in Nat, b \in Nat : a = C(m - 1) /\ b = C(m)
    BY <1>3, <1>7
  <2>4. a < n /\ n <= b /\ b = a /\ n \in Nat
    BY <1>1, <1>7, <1>8, <2>2, <2>3
  <2>5. FALSE
    BY <2>4
  <2> QED BY <2>5
<1> QED BY <1>9, <1>10

\* Rows as sequences.
RowLists == {rows \in Seq(Row) : Len(rows) \in 1..MaxImages}

LEMMA RowsAreLists ==
  /\ UNION {[1..n -> Row] : n \in 1..MaxImages} = RowLists
  /\ \A g \in Galleries : g \in Seq(Row) /\ Len(g) \in 0..MaxImages
<1> USE VehicleEditorAssumption
<1>1. ASSUME NEW n \in Nat, NEW f \in [1..n -> Row] PROVE f \in Seq(Row) /\ Len(f) = n
  OBVIOUS
<1>2. ASSUME NEW s \in Seq(Row) PROVE s \in [1..Len(s) -> Row] /\ Len(s) \in Nat
  OBVIOUS
<1>3. UNION {[1..n -> Row] : n \in 1..MaxImages} = RowLists
  BY <1>1, <1>2 DEF RowLists
<1>4. ASSUME NEW g \in Galleries PROVE g \in Seq(Row) /\ Len(g) \in 0..MaxImages
  <2>1. PICK n \in 0..MaxImages : g \in [1..n -> Row \ {"BLANK"}]
    BY DEF Galleries
  <2> QED BY <1>1, <2>1
<1> QED BY <1>3, <1>4

\* What is kept of the rows fits a gallery.
LEMMA FilledFits ==
  ASSUME NEW rows \in RowLists
  PROVE  /\ Filled(rows) \in Galleries
         /\ Filled(rows) \in Seq(Row) /\ Len(Filled(rows)) \in 0..MaxImages
         /\ rows[1] # "BLANK" => Filled(rows) # <<>>
<1> USE VehicleEditorAssumption
<1>1. PICK len \in 1..MaxImages : rows \in [1..len -> Row]
  BY RowsAreLists
<1>2. PICK P : P = FilledPlaces(rows)
  OBVIOUS
<1>3. P \in SUBSET (1..len) /\ (\A i \in P : rows[i] \in Row \ {"BLANK"})
  BY <1>1, <1>2 DEF FilledPlaces
<1>4. /\ IsFiniteSet(P) /\ Cardinality(P) \in 0..len
      /\ \A n \in 1..Cardinality(P) : NthPlace(P, n) \in P
  <2>1. len \in Nat
    OBVIOUS
  <2> QED BY <1>3, <2>1, NthIsPlace
<1>5. Filled(rows) = [n \in 1..Cardinality(P) |-> rows[NthPlace(P, n)]]
  BY <1>2 DEF Filled
<1>6. Filled(rows) \in [1..Cardinality(P) -> Row \ {"BLANK"}]
  BY <1>3, <1>4, <1>5
<1>7. Filled(rows) \in Galleries
  BY <1>4, <1>6 DEF Galleries
<1>8. rows[1] # "BLANK" => Filled(rows) # <<>>
  <2> SUFFICES ASSUME rows[1] # "BLANK" PROVE Filled(rows) # <<>>
    OBVIOUS
  <2>1. 1 \in P
    BY <1>1, <1>2 DEF FilledPlaces
  <2>2. Cardinality(P) # 0
    BY <1>4, <2>1, FS_EmptySet
  <2>3. 1 \in DOMAIN Filled(rows)
    BY <1>4, <1>6, <2>2
  <2> QED BY <2>3
<1> QED BY <1>7, <1>8, RowsAreLists
CarCalls ==
  [op : {"PICTURES"}, left : Nat, done : Nat, mounted : BOOLEAN]
    \cup [op : {"SAVE_CAR"}, images : Galleries \ {<<>>}]
    \cup [op : {"RELOAD_CARS"}]

\* An upload that has sent all its files has sent one.
SentSome(q) == q.op = "PICTURES" => q.left + q.done > 0

VehicleEditorTyped ==
  /\ VehicleEditorTypeOK
  /\ request \in [Handlers -> CarCalls \cup {NoRequest}]
  /\ \A h \in Handlers : SentSome(request[h])

LEMMA CarCallCarries ==
  ASSUME VehicleEditorTyped, NEW h \in Handlers
  PROVE  /\ request[h].op = "PICTURES" =>
              /\ request[h] \in [op : {"PICTURES"}, left : Nat, done : Nat, mounted : BOOLEAN]
              /\ request[h].left + request[h].done > 0
         /\ request[h].op = "SAVE_CAR" => request[h].images \in Galleries \ {<<>>}
BY DEF VehicleEditorTyped, CarCalls, SentSome, NoRequest

\* The calls after a step of one of them.
LEMMA CarCallGoesOn ==
  ASSUME VehicleEditorTyped, NEW h \in Handlers, NEW q \in CarCalls \cup {NoRequest},
         SentSome(q), request' = [request EXCEPT ![h] = q]
  PROVE  /\ request' \in [Handlers -> CarCalls \cup {NoRequest}]
         /\ (\A g \in Handlers : SentSome(request[g]))'
         /\ \A g \in Handlers : request'[g].op = "SAVE_CAR" => request'[g].images \in Galleries \ {<<>>}
<1>1. request' \in [Handlers -> CarCalls \cup {NoRequest}]
  BY DEF VehicleEditorTyped
<1>2. \A g \in Handlers : SentSome(request'[g])
  <2> TAKE g \in Handlers
  <2>1. request'[g] = q \/ request'[g] = request[g]
    BY DEF VehicleEditorTyped
  <2> QED BY <2>1 DEF VehicleEditorTyped
<1>3. (\A g \in Handlers : SentSome(request[g]))'
  BY <1>2 DEF SentSome
<1>4. \A g \in Handlers : request'[g].op = "SAVE_CAR" => request'[g].images \in Galleries \ {<<>>}
  BY <1>1 DEF CarCalls, NoRequest
<1> QED BY <1>1, <1>3, <1>4

\* Uploads lose their dialog, and the call of h becomes q.
LEMMA CarCallsUnmounted ==
  ASSUME VehicleEditorTyped
  PROVE  /\ Unmounted \in [Handlers -> CarCalls \cup {NoRequest}]
         /\ \A g \in Handlers :
              /\ SentSome(Unmounted[g])
              /\ Unmounted[g] = NoRequest => request[g] = NoRequest
              /\ request[g].op = "PICTURES" => /\ Unmounted[g].op = "PICTURES"
                                               /\ ~Unmounted[g].mounted
<1>1. ASSUME NEW g \in Handlers
      PROVE  /\ Unmounted[g] \in CarCalls \cup {NoRequest} /\ SentSome(Unmounted[g])
             /\ Unmounted[g] = NoRequest => request[g] = NoRequest
             /\ request[g].op = "PICTURES" => Unmounted[g].op = "PICTURES" /\ ~Unmounted[g].mounted
  <2>1. CASE request[g].op = "PICTURES"
    <3>1. PICK q : q = [request[g] EXCEPT !.mounted = FALSE] /\ Unmounted[g] = q
      BY <2>1 DEF Unmounted
    <3>2. /\ q \in [op : {"PICTURES"}, left : Nat, done : Nat, mounted : BOOLEAN]
          /\ q.left + q.done > 0 /\ ~q.mounted
      BY <2>1, <3>1, CarCallCarries
    <3> QED BY <3>1, <3>2 DEF CarCalls, SentSome, NoRequest
  <2>2. CASE request[g].op # "PICTURES"
    <3>1. Unmounted[g] = request[g]
      BY <2>2 DEF Unmounted
    <3> QED BY <2>2, <3>1 DEF VehicleEditorTyped
  <2> QED BY <2>1, <2>2
<1>2. DOMAIN Unmounted = Handlers
  BY DEF Unmounted
<1>3. Unmounted \in [Handlers -> CarCalls \cup {NoRequest}]
  BY <1>1 DEF Unmounted
<1> QED BY <1>1, <1>3
\* Rows that an upload ends with: those kept come first, and of the new ones as
\* many as there is room for.
LEMMA MergeKeeps ==
  ASSUME images \in RowLists, NEW r,
         r \in [op : {"PICTURES"}, left : Nat, done : Nat, mounted : BOOLEAN], r.done > 0
  PROVE  /\ Merged(r) \in RowLists
         /\ Rows!IsPrefix(Filled(images), Merged(r))
         /\ Len(Merged(r)) - Len(Filled(images)) =
              IF r.done < MaxImages - Len(Filled(images))
              THEN r.done ELSE MaxImages - Len(Filled(images))
<1> USE VehicleEditorAssumption
<1>1. PICK stay : stay = Filled(images)
  OBVIOUS
<1>2. stay \in Seq(Row) /\ Len(stay) \in 0..MaxImages
  BY <1>1, FilledFits
<1>3. PICK new : new = Uploaded(r)
  OBVIOUS
<1>4. new \in Seq(Row) /\ Len(new) = r.done /\ r.done \in Nat \ {0}
  <2>1. r.done \in Nat \ {0} /\ "UPLOADED" \in Row
    BY DEF Row
  <2>2. new \in [1..r.done -> Row]
    BY <1>3, <2>1 DEF Uploaded
  <2> QED BY <2>1, <2>2
<1>5. PICK all : all = stay \o new
  OBVIOUS
<1>6. /\ all \in Seq(Row) /\ Len(all) = Len(stay) + r.done
      /\ \A i \in 1..Len(stay) : all[i] = stay[i]
  <2>1. /\ all \in Seq(Row) /\ Len(all) = Len(stay) + Len(new)
        /\ \A i \in 1..Len(stay) + Len(new) : all[i] =
             IF i <= Len(stay) THEN stay[i] ELSE new[i - Len(stay)]
    BY <1>2, <1>4, <1>5, ConcatProperties
  <2>2. Len(all) = Len(stay) + r.done
    BY <1>4, <2>1
  <2>3. ASSUME NEW i \in 1..Len(stay)
        PROVE  all[i] = stay[i]
    <3>1. i \in 1..Len(stay) + Len(new) /\ i <= Len(stay)
      BY <1>2, <1>4
    <3> QED BY <2>1, <3>1
  <2> QED BY <2>1, <2>2, <2>3
<1>7. Merged(r) = FirstOf(all)
  BY <1>1, <1>3, <1>5 DEF Merged
<1>8. PICK m : m = Merged(r)
  OBVIOUS
<1>9. /\ m \in Seq(Row)
      /\ Len(m) = IF Len(all) > MaxImages THEN MaxImages ELSE Len(all)
      /\ \A i \in 1..Len(m) : m[i] = all[i]
  <2>1. CASE Len(all) > MaxImages
    <3>1. m = SubSeq(all, 1, MaxImages)
      BY <1>7, <1>8, <2>1 DEF FirstOf
    <3>2. /\ m \in Seq(Row) /\ Len(m) = MaxImages
          /\ \A i \in 1..MaxImages : m[i] = all[i]
      BY <1>6, <2>1, <3>1, SubSeqProperties
    <3> QED BY <2>1, <3>2
  <2>2. CASE ~(Len(all) > MaxImages)
    BY <1>6, <1>7, <1>8, <2>2 DEF FirstOf
  <2> QED BY <2>1, <2>2
<1>10. Len(m) \in 1..MaxImages /\ Len(stay) <= Len(m)
  BY <1>2, <1>4, <1>6, <1>9
<1>11. Rows!IsPrefix(stay, m)
  <2>1. SubSeq(stay, 1, Len(stay)) = stay
    BY <1>2, SubSeqFull
  <2>2. SubSeq(m, 1, Len(stay)) = stay
    <3>1. /\ SubSeq(m, 1, Len(stay)) \in Seq(Row)
          /\ Len(SubSeq(m, 1, Len(stay))) = Len(stay)
          /\ \A i \in 1..Len(stay) : SubSeq(m, 1, Len(stay))[i] = m[i]
      BY <1>2, <1>9, <1>10, SubSeqProperties
    <3>2. \A i \in 1..Len(stay) : m[i] = stay[i]
      BY <1>2, <1>6, <1>9, <1>10
    <3> QED BY <1>2, <3>1, <3>2, SeqEqual
  <2> QED BY <1>10, <2>1, <2>2 DEF Rows!IsPrefix
<1>12. Len(m) - Len(stay) =
         IF r.done < MaxImages - Len(stay) THEN r.done ELSE MaxImages - Len(stay)
  BY <1>2, <1>4, <1>6, <1>9
<1> QED BY <1>1, <1>8, <1>9, <1>10, <1>11, <1>12 DEF RowLists

\* What an administrator makes of the rows are rows.
LEMMA RowsStay ==
  ASSUME VehicleEditorTyped,
         \/ AddImage \/ AddPreset
         \/ \E index \in 1..MaxImages :
              \/ MoveImage(index) \/ RemoveImage(index)
              \/ \E typed \in Typed : UpdateImage(index, typed)
  PROVE  images' \in RowLists /\ UNCHANGED <<editor, uploading, busy, request>>
<1> USE VehicleEditorAssumption
<1>1. images \in Seq(Row) /\ Len(images) \in 1..MaxImages
  BY RowsAreLists DEF VehicleEditorTyped, VehicleEditorTypeOK, RowLists
<1>2. Typed \subseteq Row /\ "BLANK" \in Row /\ "PRESET" \in Row
  BY DEF Row, Typed
<1>3. ASSUME NEW index \in 1..MaxImages, NEW typed \in Typed, UpdateImage(index, typed)
      PROVE  images' \in RowLists
  BY <1>1, <1>2, <1>3, ExceptSeq DEF UpdateImage, SetRows, RowLists
<1>4. ASSUME NEW index \in 1..MaxImages, MoveImage(index)
      PROVE  images' \in RowLists
  <2>1. index \in 1..Len(images) /\ index + 1 \in 1..Len(images)
    BY <1>1, <1>4 DEF MoveImage
  <2>2. images[index] \in Row /\ images[index + 1] \in Row
    BY <1>1, <2>1
  <2>3. images' \in [1..Len(images) -> Row]
    BY <1>1, <1>4, <2>1, <2>2 DEF MoveImage, SetRows
  <2> QED BY <1>1, <2>3, RowsAreLists
<1>5. ASSUME NEW index \in 1..MaxImages, RemoveImage(index)
      PROVE  images' \in RowLists
  <2>1. index \in 1..Len(images) /\ Len(images) > 1
    <3>1. index \in DOMAIN images /\ Len(images) # 1
      BY <1>5 DEF RemoveImage
    <3>2. DOMAIN images = 1..Len(images)
      BY <1>1
    <3> QED BY <1>1, <3>1, <3>2
  <2>2. PICK a, b : a = SubSeq(images, 1, index - 1) /\ b = SubSeq(images, index + 1, Len(images))
    OBVIOUS
  <2>3. a \in Seq(Row) /\ Len(a) = index - 1
    BY <1>1, <2>1, <2>2, SubSeqProperties
  <2>4. b \in Seq(Row) /\ Len(b) = Len(images) - index
    BY <1>1, <2>1, <2>2, SubSeqProperties
  <2>5. images' = a \o b
    BY <1>5, <2>2 DEF RemoveImage, SetRows, Rows!RemoveAt
  <2>6. images' \in Seq(Row) /\ Len(images') = Len(images) - 1
    BY <1>1, <2>1, <2>3, <2>4, <2>5, ConcatProperties
  <2> QED BY <1>1, <2>1, <2>6 DEF RowLists
<1>6. CASE AddImage
  BY <1>1, <1>2, <1>6, AppendProperties DEF AddImage, SetRows, RowLists
<1>7. CASE AddPreset
  <2>1. CASE SetRows(<<"PRESET">>)
    BY <1>2, <2>1 DEF SetRows, RowLists
  <2>2. CASE Len(images) < MaxImages /\ SetRows(Append(images, "PRESET"))
    BY <1>1, <1>2, <2>2, AppendProperties DEF SetRows, RowLists
  <2> QED BY <1>7, <2>1, <2>2 DEF AddPreset
<1>8. UNCHANGED <<editor, uploading, busy, request>>
  BY DEF AddImage, AddPreset, MoveImage, RemoveImage, UpdateImage, SetRows
<1> QED BY <1>3, <1>4, <1>5, <1>6, <1>7, <1>8

LEMMA VehicleEditorTypedAlways == VehicleEditorSpec => []VehicleEditorTyped
<1> USE VehicleEditorAssumption
<1>0. "BLANK" \in Row /\ <<"BLANK">> \in RowLists
  BY DEF Row, Typed, RowLists
<1>1. VehicleEditorInit => VehicleEditorTyped
  <2> SUFFICES ASSUME VehicleEditorInit PROVE VehicleEditorTyped
    OBVIOUS
  <2>1. images \in RowLists
    BY <1>0 DEF VehicleEditorInit
  <2>2. request \in [Handlers -> {NoRequest}]
    BY DEF VehicleEditorInit, RequestInit
  <2>3. \A g \in Handlers : request[g] = NoRequest
    BY <2>2
  <2>4. VehicleEditorTypeOK
    <3>1. \A g \in Handlers : request[g].op # "SAVE_CAR"
      <4> TAKE g \in Handlers
      <4>1. request[g] = NoRequest
        BY <2>3
      <4>2. NoRequest.op # "SAVE_CAR"
        BY DEF NoRequest
      <4> QED BY <4>1, <4>2
    <3> QED BY <2>1, <3>1, RowsAreLists DEF VehicleEditorInit, VehicleEditorTypeOK
  <2>5. \A g \in Handlers : SentSome(request[g])
    <3>1. NoRequest.op # "PICTURES"
      BY DEF NoRequest
    <3>2. SentSome(NoRequest)
      BY <3>1 DEF SentSome
    <3> QED BY <2>3, <3>2
  <2>6. request \in [Handlers -> CarCalls \cup {NoRequest}]
    BY <2>2
  <2> QED BY <2>4, <2>5, <2>6 DEF VehicleEditorTyped
<1>2. VehicleEditorTyped /\ [VehicleEditorNext]_vehicleEditorVars => VehicleEditorTyped'
  <2> SUFFICES ASSUME VehicleEditorTyped, [VehicleEditorNext]_vehicleEditorVars
               PROVE  VehicleEditorTyped'
    OBVIOUS
  <2>1. images \in RowLists /\ editor \in {"OPEN", "CLOSED"} /\ uploading \in BOOLEAN /\ busy \in BOOLEAN
    BY RowsAreLists DEF VehicleEditorTyped, VehicleEditorTypeOK
  <2>2. ASSUME editor' \in {"OPEN", "CLOSED"}, images' \in RowLists,
               uploading' \in BOOLEAN, busy' \in BOOLEAN,
               request' \in [Handlers -> CarCalls \cup {NoRequest}],
               (\A g \in Handlers : SentSome(request[g]))'
        PROVE  VehicleEditorTyped'
    <3>1. \A g \in Handlers : request'[g].op = "SAVE_CAR" => request'[g].images \in Galleries \ {<<>>}
      BY <2>2 DEF CarCalls, NoRequest
    <3>2. VehicleEditorTypeOK'
      BY <2>2, <3>1, RowsAreLists DEF VehicleEditorTypeOK
    <3> QED BY <2>2, <3>2 DEF VehicleEditorTyped
  <2>3. ASSUME UNCHANGED request
        PROVE  /\ request' \in [Handlers -> CarCalls \cup {NoRequest}]
               /\ (\A g \in Handlers : SentSome(request[g]))'
    BY <2>3 DEF VehicleEditorTyped, SentSome
  <2>4. ASSUME NEW gallery \in Galleries, OpenEditor(gallery)
        PROVE  VehicleEditorTyped'
    <3>1. images' \in RowLists
      <4>1. CASE gallery = <<>>
        BY <1>0, <2>4, <4>1 DEF OpenEditor
      <4>2. CASE gallery # <<>>
        <5>1. images' = gallery /\ gallery \in Seq(Row) /\ Len(gallery) \in 0..MaxImages
          BY <2>4, <4>2, RowsAreLists DEF OpenEditor
        <5>2. Len(gallery) # 0
          BY <4>2, <5>1, EmptySeq
        <5> QED BY <5>1, <5>2 DEF RowLists
      <4> QED BY <4>1, <4>2
    <3> QED BY <2>1, <2>2, <2>3, <2>4, <3>1 DEF OpenEditor
  <2>5. CASE CloseEditor
    BY <1>0, <2>1, <2>2, <2>5, CarCallsUnmounted DEF CloseEditor, Closed
  <2>6. CASE \/ AddImage \/ AddPreset
             \/ \E index \in 1..MaxImages :
                  \/ MoveImage(index) \/ RemoveImage(index)
                  \/ \E typed \in Typed : UpdateImage(index, typed)
    BY <2>1, <2>2, <2>3, <2>6, RowsStay
  <2>7. ASSUME NEW h \in Handlers, NEW q \in CarCalls \cup {NoRequest}, SentSome(q),
               request' = [request EXCEPT ![h] = q],
               editor' = editor, images' \in RowLists, uploading' \in BOOLEAN, busy' \in BOOLEAN
        PROVE  VehicleEditorTyped'
    BY <2>1, <2>2, <2>7, CarCallGoesOn
  <2>8. ASSUME NEW h \in Handlers, NEW files \in 1..MaxImages, UploadFiles(h, files)
        PROVE  VehicleEditorTyped'
    <3>1. PICK q : /\ q = [op |-> "PICTURES", left |-> files, done |-> 0, mounted |-> TRUE]
                   /\ request' = [request EXCEPT ![h] = q]
      BY <2>8 DEF UploadFiles, Begin
    <3>2. q \in CarCalls /\ SentSome(q)
      BY <3>1 DEF CarCalls, SentSome
    <3> QED BY <2>1, <2>7, <2>8, <3>1, <3>2 DEF UploadFiles
  <2>9. ASSUME NEW h \in Handlers, FileUploaded(h)
        PROVE  VehicleEditorTyped'
    <3>1. /\ request[h] \in [op : {"PICTURES"}, left : Nat, done : Nat, mounted : BOOLEAN]
          /\ request[h].left > 0
      BY <2>9, CarCallCarries DEF FileUploaded
    <3>2. PICK q : /\ q = [request[h] EXCEPT !.left = @ - 1, !.done = @ + 1]
                   /\ request' = [request EXCEPT ![h] = q]
      BY <2>9 DEF FileUploaded, Continue
    <3>3. /\ q \in [op : {"PICTURES"}, left : Nat, done : Nat, mounted : BOOLEAN]
          /\ q.done > 0 /\ q.left \in Nat
      <4>1. PICK r : r = request[h]
        OBVIOUS
      <4>2. r \in [op : {"PICTURES"}, left : Nat, done : Nat, mounted : BOOLEAN] /\ r.left > 0
        BY <3>1, <4>1
      <4>3. PICK m, n : m = r.left - 1 /\ n = r.done + 1
        OBVIOUS
      <4>4. m \in Nat /\ n \in Nat \ {0}
        BY <4>2, <4>3
      <4>5. q = [r EXCEPT !.left = m, !.done = n]
        BY <3>2, <4>1, <4>3
      <4>6. q = [op |-> "PICTURES", left |-> m, done |-> n, mounted |-> r.mounted]
        BY <4>2, <4>5
      <4>7. r.mounted \in BOOLEAN
        BY <4>2
      <4> QED BY <4>4, <4>6, <4>7
    <3>4. q \in CarCalls /\ SentSome(q)
      BY <3>3 DEF CarCalls, SentSome
    <3> QED BY <2>1, <2>7, <2>9, <3>2, <3>4 DEF FileUploaded
  <2>10. NoRequest \in CarCalls \cup {NoRequest} /\ SentSome(NoRequest)
    BY DEF SentSome, NoRequest
  <2>11. ASSUME NEW h \in Handlers, UploadEnds(h) \/ UploadFails(h)
         PROVE  VehicleEditorTyped'
    <3>1. images' \in RowLists
      <4>1. CASE UploadEnds(h)
        <5>1. PICK r : r = request[h]
          OBVIOUS
        <5>2. r \in [op : {"PICTURES"}, left : Nat, done : Nat, mounted : BOOLEAN] /\ r.done > 0
          BY <4>1, <5>1, CarCallCarries DEF UploadEnds
        <5>3. images' \in {images, Merged(r)}
          BY <4>1, <5>1 DEF UploadEnds
        <5> QED BY <2>1, <5>2, <5>3, MergeKeeps
      <4>2. CASE UploadFails(h)
        BY <2>1, <4>2 DEF UploadFails
      <4> QED BY <2>11, <4>1, <4>2
    <3>2. /\ request' = [request EXCEPT ![h] = NoRequest] /\ uploading' \in BOOLEAN
          /\ UNCHANGED <<editor, busy>>
      BY <2>1, <2>11 DEF UploadEnds, UploadFails, Finish
    <3> QED BY <2>1, <2>7, <2>10, <3>1, <3>2
  <2>12. ASSUME NEW h \in Handlers, Submit(h)
         PROVE  VehicleEditorTyped'
    <3>1. PICK sent : sent = Filled(images)
      OBVIOUS
    <3>2. sent \in Galleries \ {<<>>}
      BY <2>1, <2>12, <3>1, FilledFits DEF Submit
    <3>3. PICK q : q = [op |-> "SAVE_CAR", images |-> sent] /\ request' = [request EXCEPT ![h] = q]
      BY <2>12, <3>1 DEF Submit, Begin
    <3>4. q \in CarCalls /\ SentSome(q)
      BY <3>2, <3>3 DEF CarCalls, SentSome
    <3> QED BY <2>1, <2>7, <2>12, <3>3, <3>4 DEF Submit
  <2>13. ASSUME NEW h \in Handlers, CarSaved(h)
         PROVE  VehicleEditorTyped'
    <3>1. PICK q : /\ q = [op |-> "RELOAD_CARS"]
                   /\ request' = [Unmounted EXCEPT ![h] = q]
      BY <2>13 DEF CarSaved, Closed
    <3>2. q \in CarCalls /\ SentSome(q)
      BY <3>1 DEF CarCalls, SentSome
    <3>3. request' \in [Handlers -> CarCalls \cup {NoRequest}]
      BY <3>1, <3>2, CarCallsUnmounted
    <3>4. \A g \in Handlers : SentSome(request'[g])
      <4> TAKE g \in Handlers
      <4>1. request'[g] = q \/ request'[g] = Unmounted[g]
        BY <3>1, CarCallsUnmounted
      <4> QED BY <3>2, <4>1, CarCallsUnmounted
    <3>5. (\A g \in Handlers : SentSome(request[g]))'
      BY <3>4 DEF SentSome
    <3> QED BY <1>0, <2>1, <2>2, <2>13, <3>3, <3>5 DEF CarSaved, Closed
  <2>14. ASSUME NEW h \in Handlers, CarNotSaved(h) \/ CatalogReloaded(h)
         PROVE  VehicleEditorTyped'
    BY <2>1, <2>7, <2>10, <2>14 DEF CarNotSaved, CatalogReloaded, Finish
  <2>15. CASE UNCHANGED vehicleEditorVars
    BY <2>1, <2>2, <2>3, <2>15 DEF vehicleEditorVars
  <2> QED BY <2>4, <2>5, <2>6, <2>8, <2>9, <2>11, <2>12, <2>13, <2>14, <2>15
          DEF VehicleEditorNext
<1> QED BY <1>1, <1>2, PTL DEF VehicleEditorSpec

(***************************************************************************)
(* The dialog has a row and never one more than the API takes pictures,    *)
(* and every save carries pictures that may be stored, however many        *)
(* uploads overlap with what is done to the rows.                          *)
(***************************************************************************)
THEOREM VehicleEditorTypeCorrect == VehicleEditorSpec => []VehicleEditorTypeOK
BY VehicleEditorTypedAlways, PTL DEF VehicleEditorTyped

(***************************************************************************)
(* An upload that ends keeps every picture the rows hold by then, and      *)
(* leaves out of its own only what there is no room for: for any number of *)
(* files, of places and of uploads under way at once.                      *)
(***************************************************************************)
THEOREM UploadsKeepPictures == VehicleEditorSpec => PicturesStay
<1> DEFINE Stays(h) ==
      (request[h].op = "PICTURES" /\ request[h].left = 0 /\ request[h].mounted
        /\ request'[h] = NoRequest)
      => /\ Rows!IsPrefix(Filled(images), images')
         /\ Len(images') - Len(Filled(images)) =
              IF request[h].done < MaxImages - Len(Filled(images))
              THEN request[h].done ELSE MaxImages - Len(Filled(images))
<1>1. VehicleEditorTyped /\ [VehicleEditorNext]_vehicleEditorVars
        => [\A h \in Handlers : Stays(h)]_vehicleEditorVars
  <2> SUFFICES ASSUME VehicleEditorTyped, VehicleEditorNext, NEW h \in Handlers,
                      request[h].op = "PICTURES", request[h].left = 0, request[h].mounted,
                      request'[h] = NoRequest
               PROVE  Stays(h)
    OBVIOUS
  <2>1. request[h] # NoRequest
    BY DEF NoRequest
  <2>2. UploadEnds(h)
    <3>1. CASE CloseEditor
      BY <2>1, <3>1, CarCallsUnmounted DEF CloseEditor, Closed
    <3>2. ASSUME NEW g \in Handlers, CarSaved(g)
          PROVE  FALSE
      <4>1. g # h /\ request' = [Unmounted EXCEPT ![g] = [op |-> "RELOAD_CARS"]]
        BY <3>2 DEF CarSaved, Closed
      <4>2. request'[h] = Unmounted[h]
        BY <4>1, CarCallsUnmounted
      <4> QED BY <2>1, <4>2, CarCallsUnmounted
    <3>3. CASE UNCHANGED request
      BY <2>1, <3>3
    <3>4. ASSUME NEW g \in Handlers, NEW q, request' = [request EXCEPT ![g] = q]
          PROVE  g = h /\ q = NoRequest
      BY <2>1, <3>4 DEF VehicleEditorTyped
    <3>5. ASSUME NEW g \in Handlers, NEW files \in 1..MaxImages, UploadFiles(g, files)
          PROVE  FALSE
      BY <2>1, <3>4, <3>5 DEF UploadFiles, Begin
    <3>6. ASSUME NEW g \in Handlers,
                 FileUploaded(g) \/ UploadFails(g) \/ Submit(g) \/ CarNotSaved(g) \/ CatalogReloaded(g)
          PROVE  FALSE
      <4>1. PICK q : request' = [request EXCEPT ![g] = q]
        BY <3>6
        DEF FileUploaded, UploadFails, Submit, CarNotSaved, CatalogReloaded, Begin, Continue, Finish
      <4>2. g = h /\ q = NoRequest
        BY <3>4, <4>1
      <4>3. ~Submit(g)
        BY <2>1, <4>2 DEF Submit, Begin
      <4>4. ~FileUploaded(g) /\ ~UploadFails(g)
        <5>1. ~(request[g].left > 0)
          BY <4>2
        <5> QED BY <5>1 DEF FileUploaded, UploadFails
      <4>5. ~CarNotSaved(g) /\ ~CatalogReloaded(g)
        BY <4>2 DEF CarNotSaved, CatalogReloaded
      <4> QED BY <3>6, <4>3, <4>4, <4>5
    <3>7. ASSUME NEW g \in Handlers, UploadEnds(g)
          PROVE  UploadEnds(h)
      <4>1. g = h
        BY <3>4, <3>7 DEF UploadEnds, Finish
      <4> QED BY <3>7, <4>1
    <3> QED BY <3>1, <3>2, <3>3, <3>5, <3>6, <3>7
            DEF VehicleEditorNext, OpenEditor, AddImage, AddPreset, MoveImage, RemoveImage,
                UpdateImage, SetRows
  <2>3. PICK r : r = request[h]
    OBVIOUS
  <2>4. r \in [op : {"PICTURES"}, left : Nat, done : Nat, mounted : BOOLEAN] /\ r.done > 0
    BY <2>3, CarCallCarries
  <2>5. images' = Merged(r)
    BY <2>2, <2>3 DEF UploadEnds
  <2>6. images \in RowLists
    BY RowsAreLists DEF VehicleEditorTyped, VehicleEditorTypeOK
  <2> QED BY <2>3, <2>4, <2>5, <2>6, MergeKeeps
<1>2. VehicleEditorSpec => [][\A h \in Handlers : Stays(h)]_vehicleEditorVars
  BY <1>1, VehicleEditorTypedAlways, PTL DEF VehicleEditorSpec
<1> QED BY <1>2 DEF PicturesStay
=============================================================================
