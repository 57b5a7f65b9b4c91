------------------------- MODULE SalesReview_proofs -------------------------
(***************************************************************************)
(* Proofs about SalesReview and the pages of its two sides, for any number *)
(* of requests, documents, staff, handlers and offers.                     *)
(***************************************************************************)
EXTENDS RequestControls, SequenceTheorems, TLAPS

\* A sequence whose elements are replaced one by one keeps its length.
LEMMA Replaced ==
  ASSUME NEW S, NEW s \in Seq(S), NEW t \in [DOMAIN s -> S]
  PROVE  t \in Seq(S) /\ Len(t) = Len(s)
<1>1. Len(s) \in Nat /\ DOMAIN s = 1..Len(s)
  BY LenProperties
<1>2. t \in Seq(S)
  BY <1>1, SeqDef
<1>3. Len(t) \in Nat /\ DOMAIN t = 1..Len(t)
  BY <1>2, LenProperties
<1> QED BY <1>1, <1>2, <1>3
-----------------------------------------------------------------------------
(* Handlers on their way.                                                  *)

\* What a handler that only reads does, as a whole; who means to decide on a
\* document is one who has just read it.
Opens(h, r, t) ==
  /\ tx[h] = NoTx
  /\ t.res = r
  /\ t.intent # "REPLACE"
  /\ t.intent \in DOMAIN Verdicts
       => t.ref = document[r].generation /\ previewed[r] # {}
  /\ tx' = [tx EXCEPT ![h] = t]
  /\ UNCHANGED <<caseVars, offers, docVars, sweepAt, clock>>

BeginAny(h, r) == CustomerBegins(h, r) \/ \E s \in Staff : StaffBegins(h, r, s)

LEMMA BeginOpens ==
  ASSUME TypeOK, NEW h \in Handlers, NEW r \in Reservations, BeginAny(h, r)
  PROVE  \E t \in Txs : Opens(h, r, t)
<1>1. ASSUME NEW intent \in Intents \ {"REPLACE"}, NEW actor \in Staff \cup {None}, NEW ref \in Nat,
             Begin(h, intent, r, actor, ref),
             intent \in DOMAIN Verdicts
               => ref = document[r].generation /\ previewed[r] # {}
      PROVE  \E t \in Txs : Opens(h, r, t)
  <2> DEFINE t == [intent |-> intent, res |-> r, actor |-> actor,
                   at |-> clock, ref |-> ref, seen |-> None]
  <2>1. t \in Txs
    BY DEF Txs, TypeOK
  <2>2. Opens(h, r, t)
    BY <1>1 DEF Begin, Opens
  <2> QED BY <2>1, <2>2
<1>2. CASE CustomerBegins(h, r)
  <2>1. \A i \in DOMAIN offers[r] : i \in Nat
    BY LenProperties DEF TypeOK
  <2>2. \E intent \in Intents \ ({"REPLACE"} \cup DOMAIN Verdicts), ref \in Nat : Begin(h, intent, r, None, ref)
    BY <1>2, <2>1 DEF CustomerBegins, BeginReply, BeginRespond, BeginLate, BeginUpload,
                      Intents, Responses, Verdicts
  <2> QED BY <1>1, <2>2
<1>3. ASSUME NEW s \in Staff, StaffBegins(h, r, s) PROVE \E t \in Txs : Opens(h, r, t)
  <2>1. CASE \E a \in DOMAIN Verdicts : BeginVerdict(h, r, s, a)
    <3>1. document[r].generation \in Nat
      BY DEF TypeOK
    <3> QED BY <1>1, <2>1, <3>1 DEF BeginVerdict, VerdictAccepted, Intents, Verdicts
  <2>2. CASE \/ BeginClaim(h, r, s) \/ BeginOffer(h, r, s)
             \/ \E d \in DOMAIN Decisions : BeginDecide(h, r, s, d)
    <3>1. \E intent \in Intents \ ({"REPLACE"} \cup DOMAIN Verdicts) : Begin(h, intent, r, s, 0)
      BY <2>2 DEF BeginClaim, BeginOffer, BeginDecide, Intents, Decisions, Verdicts
    <3> QED BY <1>1, <3>1
  <2> QED BY <1>3, <2>1, <2>2 DEF StaffBegins
<1> QED BY <1>2, <1>3 DEF BeginAny

\* A transaction on its way works on a request.
LEMMA TxType ==
  ASSUME TypeOK, NEW h \in Handlers, tx[h].intent \in Intents
  PROVE  tx[h] \in Txs /\ tx[h].res \in Reservations
<1>1. tx[h] \in Txs \cup {NoTx}
  BY DEF TypeOK
<1>2. tx[h] # NoTx
  BY DEF NoTx, Intents, Decisions, Responses, Verdicts
<1> QED BY <1>1, <1>2 DEF Txs
-----------------------------------------------------------------------------
\* What the history is told of a replacement was read before it.
ReplacementSawStatus == \A h \in Handlers : tx[h].intent = "REPLACE" => tx[h].seen # None

\* TypeOK: every variable keeps its type, over every handler of the module.
THEOREM TypeCorrect == Spec => []TypeOK
<1> USE SalesAssumption
<1>1. Init => TypeOK /\ ReplacementSawStatus
  BY DEF Init, TypeOK, ReplacementSawStatus, NoTx, Statuses, DocumentStatuses
<1>2. TypeOK /\ ReplacementSawStatus /\ [Next]_vars => TypeOK'
  <2> SUFFICES ASSUME TypeOK, ReplacementSawStatus, [Next]_vars PROVE TypeOK'
    OBVIOUS
  <2>1. ASSUME NEW h \in Handlers, NEW r \in Reservations, BeginAny(h, r) PROVE TypeOK'
    <3>1. PICK t \in Txs : Opens(h, r, t)
      BY <2>1, BeginOpens
    <3> QED BY <3>1 DEF Opens, TypeOK, caseVars, docVars
  <2>2. ASSUME NEW h \in Handlers, CommitAny(h) \/ Rollback(h) PROVE TypeOK'
    <3> DEFINE t == tx[h]
               r == t.res
    <3>1. CASE CommitClaim(h)
      <4>1. t \in Txs /\ r \in Reservations
        BY <3>1, TxType DEF CommitClaim, Intents
      <4>2. t.actor \in Staff \cup {None}
        BY <4>1 DEF Txs
      <4> QED BY <3>1, <4>1, <4>2 DEF TypeOK, CommitClaim, Move, Finish, docVars, Statuses
    <3>2. CASE CommitDecide(h)
      <4>1. t \in Txs /\ r \in Reservations
        BY <3>2, TxType DEF CommitDecide, Intents
      <4>2. t.at + Window \in Nat
        BY <4>1 DEF Txs
      <4>3. Decisions[t.intent] \in Statuses
        BY <3>2 DEF CommitDecide, Decisions, Statuses
      <4> QED BY <3>2, <4>1, <4>2, <4>3 DEF TypeOK, CommitDecide, Move, Finish, docVars
    <3>3. CASE CommitOffer(h)
      <4> DEFINE earlier == [i \in DOMAIN offers[r] |-> Withdrawn(offers[r][i])]
                 new == [status |-> "PENDING", expiresAt |-> t.at + Window]
      <4>1. t \in Txs /\ r \in Reservations
        BY <3>3, TxType DEF CommitOffer, Intents
      <4>2. offers[r] \in Seq(Offers)
        BY <4>1 DEF TypeOK
      <4>3. earlier \in Seq(Offers)
        <5>1. \A i \in DOMAIN offers[r] : offers[r][i] \in Offers
          BY <4>2, LenProperties, ElementOfSeq
        <5>2. \A i \in DOMAIN offers[r] : Withdrawn(offers[r][i]) \in Offers
          BY <5>1 DEF Withdrawn, Offers, OfferStatuses
        <5> QED BY <4>2, <5>2, Replaced
      <4>4. new \in Offers
        BY <4>1 DEF Txs, Offers, OfferStatuses
      <4>5. Append(earlier, new) \in Seq(Offers)
        BY <4>3, <4>4, AppendProperties
      <4>6. offers' = [offers EXCEPT ![r] = Append(earlier, new)]
        BY <3>3 DEF CommitOffer
      <4> HIDE DEF earlier, new
      <4>7. offers' \in [Reservations -> Seq(Offers)]
        BY <4>5, <4>6 DEF TypeOK
      <4> QED BY <3>3, <4>1, <4>7 DEF TypeOK, CommitOffer, Move, Finish, docVars, Statuses
    <3>4. CASE CommitReply(h)
      <4>1. r \in Reservations
        BY <3>4, TxType DEF CommitReply, Intents
      <4> QED BY <3>4, <4>1 DEF TypeOK, CommitReply, Move, Finish, docVars, Statuses
    <3>5. CASE CommitRespond(h)
      <4>1. t \in Txs /\ r \in Reservations
        BY <3>5, TxType DEF CommitRespond, Intents
      <4>2. offers[r] \in Seq(Offers) /\ t.ref \in Nat
        BY <4>1 DEF TypeOK, Txs
      <4> DEFINE answered == [offers[r] EXCEPT ![t.ref].status = Responses[t.intent]]
      <4>3. answered \in Seq(Offers)
        <5>1. Responses[t.intent] \in OfferStatuses
          BY <3>5 DEF CommitRespond, Responses, OfferStatuses
        <5>2. \A i \in DOMAIN offers[r] : offers[r][i] \in Offers
          BY <4>2, LenProperties, ElementOfSeq
        <5>3. answered \in [DOMAIN offers[r] -> Offers]
          BY <5>1, <5>2 DEF Offers
        <5> QED BY <4>2, <5>3, Replaced
      <4>4. offers' = [offers EXCEPT ![r] = answered]
        BY <3>5 DEF CommitRespond
      <4> HIDE DEF answered
      <4>5. offers' \in [Reservations -> Seq(Offers)]
        BY <4>3, <4>4 DEF TypeOK
      <4> QED BY <3>5, <4>1, <4>2, <4>5
              DEF TypeOK, CommitRespond, Move, Finish, docVars, Statuses
    <3>6. CASE CommitLate(h)
      <4>1. r \in Reservations
        BY <3>6, TxType DEF CommitLate, Intents
      <4>2. offers[r] \in Seq(Offers)
        BY <4>1 DEF TypeOK
      <4> DEFINE ended == [offers[r] EXCEPT ![t.ref].status =
                             IF @ = "PENDING" THEN "EXPIRED" ELSE @]
      <4>3. ended \in Seq(Offers)
        <5>1. \A i \in DOMAIN offers[r] : offers[r][i] \in Offers
          BY <4>2, LenProperties, ElementOfSeq
        <5>2. ended \in [DOMAIN offers[r] -> Offers]
          BY <5>1 DEF Offers, OfferStatuses
        <5> QED BY <4>2, <5>2, Replaced
      <4>4. offers' = [offers EXCEPT ![r] = ended]
        BY <3>6 DEF CommitLate
      <4> HIDE DEF ended
      <4>5. offers' \in [Reservations -> Seq(Offers)]
        BY <4>3, <4>4 DEF TypeOK
      <4> QED BY <3>6, <4>1, <4>5
              DEF TypeOK, CommitLate, ReturnedIfOffered, Finish, docVars, Statuses
    <3>7. CASE SeeRequest(h)
      <4>1. t \in Txs /\ r \in Reservations
        BY <3>7, TxType DEF SeeRequest, Intents
      <4>2. [t EXCEPT !.seen = status[r]] \in Txs
        BY <4>1 DEF Txs, TypeOK
      <4>3. tx' = [tx EXCEPT ![h] = [t EXCEPT !.seen = status[r]]]
        BY <3>7 DEF SeeRequest
      <4> QED BY <3>7, <4>2, <4>3 DEF TypeOK, SeeRequest, caseVars, docVars
    <3>8. CASE CommitVerdict(h)
      <4>1. t \in Txs /\ r \in Reservations
        BY <3>8, TxType DEF CommitVerdict, Intents
      <4>2. t.seen \in Statuses /\ Verdicts[t.intent] \in DocumentStatuses
        BY <3>8, <4>1 DEF CommitVerdict, Txs, Verdicts, DocumentStatuses
      <4>3. document' \in [Reservations -> [generation : Nat, status : DocumentStatuses]]
        <5>1. document[r] \in [generation : Nat, status : DocumentStatuses]
          BY <4>1 DEF TypeOK
        <5>2. [document[r] EXCEPT !.status = IF SameRow(h, r) THEN Verdicts[t.intent] ELSE @]
                \in [generation : Nat, status : DocumentStatuses]
          BY <4>2, <5>1
        <5>3. document' = [document EXCEPT ![r] =
                [document[r] EXCEPT !.status = IF SameRow(h, r) THEN Verdicts[t.intent] ELSE @]]
          BY <3>8 DEF CommitVerdict
        <5> QED BY <5>2, <5>3 DEF TypeOK
      <4>4. status' \in [Reservations -> Statuses] /\ event' \in [Reservations -> Statuses]
        BY <3>8, <4>1, <4>2 DEF TypeOK, CommitVerdict, Statuses
      <4> QED BY <3>8, <4>3, <4>4 DEF TypeOK, CommitVerdict, Finish
    <3>9. CASE BeginReplace(h)
      <4>1. t \in Txs /\ r \in Reservations
        BY <3>9, TxType DEF BeginReplace, Intents
      <4>2. [t EXCEPT !.intent = "REPLACE", !.seen = status[r]] \in Txs
        BY <4>1 DEF Txs, TypeOK, Intents
      <4>3. tx' = [tx EXCEPT ![h] = [t EXCEPT !.intent = "REPLACE", !.seen = status[r]]]
        BY <3>9 DEF BeginReplace
      <4> QED BY <3>9, <4>2, <4>3 DEF TypeOK, BeginReplace, caseVars, docVars
    <3>10. CASE CommitReplace(h)
      <4>1. t \in Txs /\ r \in Reservations
        BY <3>10, TxType DEF CommitReplace, Intents
      <4>2. t.seen \in Statuses
        BY <3>10, <4>1 DEF CommitReplace, ReplacementSawStatus, Txs
      <4> QED BY <3>10, <4>1, <4>2 DEF TypeOK, CommitReplace, Finish, DocumentStatuses
    <3>11. CASE Rollback(h)
      BY <3>11 DEF TypeOK, Rollback, Finish, caseVars, docVars
    <3> QED BY <2>2, <3>1, <3>2, <3>3, <3>4, <3>5, <3>6, <3>7, <3>8, <3>9, <3>10, <3>11
            DEF CommitAny
  <2>3. ASSUME NEW r \in Reservations, NEW s \in Staff, Preview(r, s) \/ PreviewAges(r, s)
        PROVE  TypeOK'
    <3>1. CASE Preview(r, s)
      <4>1. document[r] \in [generation : Nat, status : DocumentStatuses]
        BY DEF TypeOK
      <4>2. [document[r] EXCEPT !.status = IF @ = "UPLOADED" THEN "UNDER_REVIEW" ELSE @]
              \in [generation : Nat, status : DocumentStatuses]
        BY <4>1 DEF DocumentStatuses
      <4>3. document' = [document EXCEPT ![r] =
              [document[r] EXCEPT !.status = IF @ = "UPLOADED" THEN "UNDER_REVIEW" ELSE @]]
        BY <3>1 DEF Preview
      <4>4. document' \in [Reservations -> [generation : Nat, status : DocumentStatuses]]
        BY <4>2, <4>3 DEF TypeOK
      <4> QED BY <3>1, <4>4 DEF TypeOK, Preview, caseVars
    <3>2. CASE PreviewAges(r, s)
      BY <3>2 DEF TypeOK, PreviewAges, caseVars
    <3> QED BY <2>3, <3>1, <3>2
  <2>4. CASE SweepCommit
    <3>1. \A r \in Reservations :
            [i \in DOMAIN offers[r] |->
               IF OfferDue(r, i) THEN [offers[r][i] EXCEPT !.status = "EXPIRED"]
                                 ELSE offers[r][i]] \in Seq(Offers)
      <4> SUFFICES ASSUME NEW r \in Reservations
                   PROVE  [i \in DOMAIN offers[r] |->
                             IF OfferDue(r, i) THEN [offers[r][i] EXCEPT !.status = "EXPIRED"]
                                               ELSE offers[r][i]] \in Seq(Offers)
        OBVIOUS
      <4>1. offers[r] \in Seq(Offers)
        BY DEF TypeOK
      <4>2. \A i \in DOMAIN offers[r] : offers[r][i] \in Offers
        BY <4>1, LenProperties, ElementOfSeq
      <4>3. \A i \in DOMAIN offers[r] : [offers[r][i] EXCEPT !.status = "EXPIRED"] \in Offers
        BY <4>2 DEF Offers, OfferStatuses
      <4> QED BY <4>1, <4>2, <4>3, Replaced
    <3>2. offers' \in [Reservations -> Seq(Offers)]
      BY <2>4, <3>1 DEF SweepCommit
    <3> QED BY <2>4, <3>2 DEF TypeOK, SweepCommit, docVars, Statuses
  <2>5. CASE SweepBegin \/ SweepFail \/ Tick
    BY <2>5 DEF TypeOK, SweepBegin, SweepFail, Tick, caseVars, docVars
  <2>6. CASE UNCHANGED vars
    BY <2>6 DEF TypeOK, vars, caseVars, docVars
  <2> QED BY <2>1, <2>2, <2>3, <2>4, <2>5, <2>6 DEF Next, BeginAny
<1>3. TypeOK /\ ReplacementSawStatus /\ [Next]_vars => ReplacementSawStatus'
  <2> SUFFICES ASSUME TypeOK, ReplacementSawStatus, [Next]_vars PROVE ReplacementSawStatus'
    OBVIOUS
  <2> USE DEF ReplacementSawStatus
  <2>1. ASSUME NEW h \in Handlers, NEW r \in Reservations, BeginAny(h, r)
        PROVE  ReplacementSawStatus'
    <3>1. PICK t \in Txs : Opens(h, r, t)
      BY <2>1, BeginOpens
    <3> QED BY <3>1 DEF Opens, TypeOK
  <2>2. ASSUME NEW h \in Handlers, Finish(h) PROVE ReplacementSawStatus'
    BY <2>2 DEF Finish, NoTx, TypeOK
  <2>3. ASSUME NEW h \in Handlers, CommitAny(h) \/ Rollback(h) PROVE ReplacementSawStatus'
    <3>1. CASE SeeRequest(h)
      <4>1. tx[h].intent # "REPLACE"
        BY <3>1 DEF SeeRequest, Verdicts
      <4>2. tx[h] \in Txs
        BY <3>1, TxType DEF SeeRequest, Intents
      <4> QED BY <3>1, <4>1, <4>2 DEF SeeRequest, TypeOK, Txs
    <3>2. CASE BeginReplace(h)
      <4>1. tx[h] \in Txs /\ tx[h].res \in Reservations
        BY <3>2, TxType DEF BeginReplace, Intents
      <4>2. status[tx[h].res] # None
        BY <4>1 DEF TypeOK
      <4> QED BY <3>2, <4>1, <4>2 DEF BeginReplace, TypeOK, Txs
    <3> QED BY <2>2, <2>3, <3>1, <3>2
            DEF CommitAny, Rollback, CommitClaim, CommitDecide, CommitOffer, CommitReply,
                CommitRespond, CommitLate, CommitVerdict, CommitReplace, Move
  <2> QED BY <2>1, <2>3 DEF Next, BeginAny, Preview, PreviewAges, SweepBegin, SweepCommit,
                            SweepFail, Tick, vars
<1> QED BY <1>1, <1>2, <1>3, PTL DEF Spec
-----------------------------------------------------------------------------
(* Offers.                                                                 *)

\* An offer that waits for its answer is the last one made: the ones before it
\* are withdrawn when it is.
PendingIsLatest ==
  \A r \in Reservations : \A i \in PendingOffers(r) : i = Len(offers[r])

OffersInv == PendingIsLatest /\ OfferOutstanding /\ AcceptedTermsHold

\* Offer i of the request lapses or is answered, or nothing happens to it.
SettledAs(r, i, outcome) ==
  \/ offers'[r][i].status = offers[r][i].status
  \/ i \in PendingOffers(r) /\ offers'[r][i].status = outcome

\* Whatever ends an offer without the customer's answer keeps the others.
Lapses(r, outcome) ==
  /\ Len(offers'[r]) = Len(offers[r])
  /\ DOMAIN offers'[r] = DOMAIN offers[r]
  /\ \A i \in DOMAIN offers[r] : SettledAs(r, i, outcome)

\* Everything but the four steps that write offers leaves them alone, and puts
\* no request in wait of an answer.
OffersAside ==
  /\ UNCHANGED <<offers, terms>>
  /\ \A r \in Reservations : status'[r] = "ALTERNATIVE_OFFERED" => status[r] = status'[r]

LEMMA OfferSteps ==
  ASSUME TypeOK, [Next]_vars
  PROVE  \/ \E h \in Handlers : CommitOffer(h) \/ CommitRespond(h) \/ CommitLate(h)
         \/ SweepCommit
         \/ OffersAside
<1>1. ASSUME NEW h \in Handlers, NEW r \in Reservations, BeginAny(h, r) PROVE OffersAside
  <2>1. PICK t \in Txs : Opens(h, r, t)
    BY <1>1, BeginOpens
  <2> QED BY <2>1 DEF Opens, OffersAside, caseVars
<1>2. ASSUME NEW h \in Handlers, CommitClaim(h) \/ CommitReply(h) PROVE OffersAside
  BY <1>2 DEF CommitClaim, CommitReply, Move, OffersAside, TypeOK
<1>3. ASSUME NEW h \in Handlers, CommitDecide(h) PROVE OffersAside
  <2>1. Decisions[tx[h].intent] # "ALTERNATIVE_OFFERED"
    BY <1>3 DEF CommitDecide, Decisions
  <2> QED BY <1>3, <2>1 DEF CommitDecide, Move, OffersAside, TypeOK
<1>4. ASSUME NEW h \in Handlers, CommitVerdict(h) PROVE OffersAside
  BY <1>4 DEF CommitVerdict, OffersAside, TypeOK
<1>5. ASSUME NEW h \in Handlers,
             SeeRequest(h) \/ BeginReplace(h) \/ CommitReplace(h) \/ Rollback(h)
      PROVE  OffersAside
  BY <1>5 DEF SeeRequest, BeginReplace, CommitReplace, Rollback, OffersAside, caseVars
<1>6. ASSUME NEW r \in Reservations, NEW s \in Staff, Preview(r, s) \/ PreviewAges(r, s)
      PROVE  OffersAside
  BY <1>6 DEF Preview, PreviewAges, OffersAside, caseVars
<1>7. CASE SweepBegin \/ SweepFail \/ Tick \/ UNCHANGED vars
  BY <1>7 DEF SweepBegin, SweepFail, Tick, vars, OffersAside, caseVars
<1> QED BY <1>1, <1>2, <1>3, <1>4, <1>5, <1>6, <1>7 DEF Next, BeginAny, CommitAny

\* An offer that lapses unanswered leaves the rest as it was.
LEMMA LapsesKeep ==
  ASSUME TypeOK, OffersInv, UNCHANGED terms,
         NEW r \in Reservations, NEW outcome \in {"WITHDRAWN", "DECLINED", "EXPIRED"},
         Lapses(r, outcome)
  PROVE  /\ \A i \in PendingOffers(r)' : i = Len(offers'[r])
         /\ LET accepted == {i \in DOMAIN offers'[r] : offers'[r][i].status = "ACCEPTED"} IN
            IF accepted = {} THEN terms'[r] = 0
            ELSE terms'[r] \in accepted /\ \A i \in accepted : i <= terms'[r]
<1>1. \A i \in DOMAIN offers[r] :
        offers'[r][i].status = "ACCEPTED" <=> offers[r][i].status = "ACCEPTED"
  BY DEF Lapses, SettledAs, PendingOffers
<1>2. PendingOffers(r)' \subseteq PendingOffers(r)
  BY DEF Lapses, SettledAs, PendingOffers
<1>3. {i \in DOMAIN offers'[r] : offers'[r][i].status = "ACCEPTED"}
        = {i \in DOMAIN offers[r] : offers[r][i].status = "ACCEPTED"}
  BY <1>1 DEF Lapses
<1> QED BY <1>2, <1>3 DEF Lapses, OffersInv, PendingIsLatest, AcceptedTermsHold

\* The customer's answer settles the last offer, and whoever accepts it takes
\* its terms.
LEMMA AnswerKeeps ==
  ASSUME TypeOK, OffersInv, NEW h \in Handlers, CommitRespond(h)
  PROVE  OffersInv'
<1> DEFINE r == tx[h].res
           i == tx[h].ref
           answer == Responses[tx[h].intent]
<1>1. r \in Reservations /\ tx[h].intent \in {"ACCEPT", "DECLINE"}
  BY TxType DEF CommitRespond, Intents, Responses
<1>2. /\ i \in DOMAIN offers[r] /\ offers[r][i].status = "PENDING"
      /\ i = Len(offers[r]) /\ i \in Nat
      /\ \A j \in DOMAIN offers[r] : j \in Nat /\ j <= i
  <2>1. i \in PendingOffers(r)
    BY DEF CommitRespond, StillPending
  <2>2. DOMAIN offers[r] = 1..Len(offers[r]) /\ Len(offers[r]) \in Nat
    BY <1>1, LenProperties DEF TypeOK
  <2> QED BY <1>1, <2>1, <2>2 DEF OffersInv, PendingIsLatest, PendingOffers
<1>3. offers' = [offers EXCEPT ![r] = [offers[r] EXCEPT ![i].status = answer]]
  BY DEF CommitRespond
<1>4. /\ \A q \in Reservations \ {r} : offers'[q] = offers[q] /\ terms'[q] = terms[q]
                                     /\ status'[q] = status[q]
      /\ status'[r] = "UNDER_REVIEW"
      /\ terms'[r] = IF tx[h].intent = "ACCEPT" THEN i ELSE terms[r]
  BY <1>1, <1>3 DEF CommitRespond, Move, TypeOK
<1>5. /\ DOMAIN offers'[r] = DOMAIN offers[r]
      /\ \A j \in DOMAIN offers[r] : j # i => offers'[r][j] = offers[r][j]
      /\ offers'[r][i].status = answer
      /\ Len(offers'[r]) = Len(offers[r])
  <2> DEFINE answered == [offers[r] EXCEPT ![i].status = answer]
  <2>1. offers[r] \in Seq(Offers)
    BY <1>1 DEF TypeOK
  <2>2. \A j \in DOMAIN offers[r] : offers[r][j] \in Offers
    BY <2>1, LenProperties, ElementOfSeq
  <2>3. answer \in OfferStatuses
    BY <1>1 DEF Responses, OfferStatuses
  <2>4. offers[r][i] \in Offers /\ answered[i] = [offers[r][i] EXCEPT !.status = answer]
    BY <1>2, <2>1, <2>2, LenProperties
  <2>5. answered \in [DOMAIN offers[r] -> Offers]
    BY <2>2, <2>3 DEF Offers
  <2>6. Len(answered) = Len(offers[r])
    BY <2>1, <2>5, Replaced
  <2>7. offers'[r] = answered
    BY <1>1, <1>3 DEF TypeOK
  <2>8. answered[i].status = answer
    BY <2>4 DEF Offers
  <2>9. \A j \in DOMAIN offers[r] : j # i => answered[j] = offers[r][j]
    OBVIOUS
  <2> HIDE DEF answered
  <2> QED BY <2>5, <2>6, <2>7, <2>8, <2>9
<1>6. PendingIsLatest'
  <2> SUFFICES ASSUME NEW q \in Reservations, NEW j \in PendingOffers(q)'
               PROVE  j = Len(offers'[q])
    BY DEF PendingIsLatest
  <2>1. CASE q = r
    <3>1. answer # "PENDING"
      BY <1>1 DEF Responses
    <3>2. j # i /\ j \in PendingOffers(q)
      BY <1>2, <1>5, <2>1, <3>1 DEF PendingOffers
    <3> QED BY <1>1, <1>2, <2>1, <3>2 DEF OffersInv, PendingIsLatest
  <2>2. CASE q # r
    BY <1>4, <2>2 DEF PendingOffers, OffersInv, PendingIsLatest
  <2> QED BY <2>1, <2>2
<1>7. OfferOutstanding'
  BY <1>4 DEF OffersInv, OfferOutstanding, PendingOffers
<1>8. AcceptedTermsHold'
  <2> DEFINE accepted == {j \in DOMAIN offers[r] : offers[r][j].status = "ACCEPTED"}
             now == {j \in DOMAIN offers'[r] : offers'[r][j].status = "ACCEPTED"}
  <2>1. IF accepted = {} THEN terms[r] = 0
        ELSE terms[r] \in accepted /\ \A j \in accepted : j <= terms[r]
    BY <1>1 DEF OffersInv, AcceptedTermsHold
  <2>2. IF now = {} THEN terms'[r] = 0
        ELSE terms'[r] \in now /\ \A j \in now : j <= terms'[r]
    <3>1. CASE tx[h].intent = "ACCEPT"
      <4>1. i \in now /\ \A j \in now : j <= i
        BY <3>1, <1>2, <1>5 DEF Responses
      <4> QED BY <3>1, <1>4, <4>1
    <3>2. CASE tx[h].intent = "DECLINE"
      <4>1. now = accepted
        BY <3>2, <1>2, <1>5 DEF Responses
      <4> QED BY <3>2, <1>4, <2>1, <4>1
    <3> QED BY <1>1, <3>1, <3>2
  <2> QED BY <1>1, <1>4, <2>2 DEF OffersInv, AcceptedTermsHold
<1> QED BY <1>6, <1>7, <1>8 DEF OffersInv

LEMMA OffersStand == Spec => []OffersInv
<1>1. Init => OffersInv
  BY DEF Init, OffersInv, PendingIsLatest, OfferOutstanding, AcceptedTermsHold, PendingOffers
<1>2. TypeOK /\ OffersInv /\ [Next]_vars => OffersInv'
  <2> SUFFICES ASSUME TypeOK, OffersInv, [Next]_vars PROVE OffersInv'
    OBVIOUS
  <2>1. ASSUME NEW h \in Handlers, CommitOffer(h) PROVE OffersInv'
    <3>1. PICK r \in Reservations : r = tx[h].res
      BY <2>1, TxType DEF CommitOffer, Intents
    <3> DEFINE earlier == [i \in DOMAIN offers[r] |-> Withdrawn(offers[r][i])]
               new == [status |-> "PENDING", expiresAt |-> tx[h].at + Window]
               n == Len(offers[r])
    <3>2. offers[r] \in Seq(Offers) /\ n \in Nat /\ DOMAIN offers[r] = 1..n
      BY LenProperties DEF TypeOK
    <3>3. earlier \in Seq(Offers) /\ Len(earlier) = n
      <4>1. \A i \in DOMAIN offers[r] : offers[r][i] \in Offers
        BY <3>2, LenProperties, ElementOfSeq
      <4>2. \A i \in DOMAIN offers[r] : Withdrawn(offers[r][i]) \in Offers
        BY <4>1 DEF Withdrawn, Offers, OfferStatuses
      <4> QED BY <3>2, <4>2, Replaced
    <3>4. new \in Offers
      <4>1. tx[h].at \in Nat
        BY <2>1, TxType DEF CommitOffer, Intents, Txs
      <4> QED BY <4>1, SalesAssumption DEF Offers, OfferStatuses
    <3>5. /\ offers'[r] = Append(earlier, new)
          /\ status'[r] = "ALTERNATIVE_OFFERED" /\ terms' = terms
          /\ \A q \in Reservations \ {r} : offers'[q] = offers[q] /\ status'[q] = status[q]
      BY <2>1, <3>1 DEF CommitOffer, Move, TypeOK
    <3>6. /\ DOMAIN offers'[r] = 1..(n+1) /\ Len(offers'[r]) = n + 1
          /\ offers'[r][n+1].status = "PENDING"
          /\ \A i \in 1..n : offers'[r][i] = Withdrawn(offers[r][i])
      <4>1. \A i \in 1..n : earlier[i] = Withdrawn(offers[r][i])
        BY <3>2
      <4>2. new.status = "PENDING"
        OBVIOUS
      <4> HIDE DEF earlier, new
      <4> QED BY <3>2, <3>3, <3>4, <3>5, <4>1, <4>2, AppendProperties
    <3>7. /\ \A i \in 1..n : offers'[r][i].status # "PENDING"
          /\ \A i \in 1..n :
               (offers'[r][i].status = "ACCEPTED") <=> (offers[r][i].status = "ACCEPTED")
      <4>1. \A i \in 1..n : offers[r][i] \in Offers
        BY <3>2, ElementOfSeq
      <4> QED BY <3>6, <4>1 DEF Withdrawn, Offers
    <3>8. {i \in DOMAIN offers'[r] : offers'[r][i].status = "ACCEPTED"}
            = {i \in DOMAIN offers[r] : offers[r][i].status = "ACCEPTED"}
      BY <3>2, <3>6, <3>7
    <3>9. PendingIsLatest'
      <4> SUFFICES ASSUME NEW q \in Reservations, NEW j \in PendingOffers(q)'
                   PROVE  j = Len(offers'[q])
        BY DEF PendingIsLatest
      <4>1. CASE q = r
        <5>1. j \in 1..(n+1) /\ offers'[r][j].status = "PENDING"
          BY <3>6, <4>1 DEF PendingOffers
        <5>2. j \notin 1..n
          BY <3>2, <3>7, <5>1
        <5> HIDE DEF n
        <5> QED BY <3>2, <3>6, <4>1, <5>1, <5>2
      <4>2. CASE q # r
        BY <3>5, <4>2 DEF PendingOffers, OffersInv, PendingIsLatest
      <4> QED BY <4>1, <4>2
    <3>10. OfferOutstanding'
      <4>1. n + 1 \in PendingOffers(r)'
        BY <3>2, <3>6 DEF PendingOffers
      <4> QED BY <3>5, <4>1 DEF OffersInv, OfferOutstanding, PendingOffers
    <3>11. AcceptedTermsHold'
      <4> SUFFICES ASSUME NEW q \in Reservations
                   PROVE  LET accepted == {i \in DOMAIN offers'[q] : offers'[q][i].status = "ACCEPTED"}
                          IN  IF accepted = {} THEN terms'[q] = 0
                              ELSE terms'[q] \in accepted /\ \A i \in accepted : i <= terms'[q]
        BY DEF AcceptedTermsHold
      <4>1. {i \in DOMAIN offers'[q] : offers'[q][i].status = "ACCEPTED"}
              = {i \in DOMAIN offers[q] : offers[q][i].status = "ACCEPTED"}
        BY <3>5, <3>8
      <4> QED BY <3>5, <4>1 DEF OffersInv, AcceptedTermsHold
    <3> QED BY <3>9, <3>10, <3>11 DEF OffersInv
  <2>2. ASSUME NEW h \in Handlers, CommitRespond(h) PROVE OffersInv'
    BY <2>2, AnswerKeeps
  <2>3. ASSUME \A r \in Reservations : Lapses(r, "EXPIRED"), UNCHANGED terms, OfferOutstanding'
        PROVE  OffersInv'
    <3>1. \A r \in Reservations : \A i \in PendingOffers(r)' : i = Len(offers'[r])
      BY <2>3, LapsesKeep
    <3>2. AcceptedTermsHold'
      BY <2>3, LapsesKeep DEF AcceptedTermsHold
    <3> QED BY <2>3, <3>1, <3>2 DEF OffersInv, PendingIsLatest
  <2>4. ASSUME NEW h \in Handlers, CommitLate(h) PROVE OffersInv'
    <3>1. PICK r \in Reservations, i \in Nat : r = tx[h].res /\ i = tx[h].ref
      BY <2>4, TxType DEF CommitLate, Intents, Txs
    <3> DEFINE ended == [offers[r] EXCEPT ![i].status = IF @ = "PENDING" THEN "EXPIRED" ELSE @]
    <3>2. offers[r] \in Seq(Offers) /\ \A j \in DOMAIN offers[r] : offers[r][j] \in Offers
      <4>1. offers[r] \in Seq(Offers)
        BY DEF TypeOK
      <4> QED BY <4>1, LenProperties, ElementOfSeq
    <3>3. ended \in [DOMAIN offers[r] -> Offers]
      BY <3>2 DEF Offers, OfferStatuses
    <3>4. offers'[r] = ended /\ (\A q \in Reservations \ {r} : offers'[q] = offers[q])
      BY <2>4, <3>1 DEF CommitLate, TypeOK
    <3>5. \A j \in DOMAIN offers[r] :
            \/ ended[j].status = offers[r][j].status
            \/ offers[r][j].status = "PENDING" /\ ended[j].status = "EXPIRED"
      BY <3>2 DEF Offers
    <3>6. Len(ended) = Len(offers[r]) /\ DOMAIN ended = DOMAIN offers[r]
      BY <3>2, <3>3, Replaced
    <3> HIDE DEF ended
    <3>7. \A q \in Reservations : Lapses(q, "EXPIRED")
      <4>1. Lapses(r, "EXPIRED")
        BY <3>4, <3>5, <3>6 DEF Lapses, SettledAs, PendingOffers
      <4>2. ASSUME NEW q \in Reservations \ {r} PROVE Lapses(q, "EXPIRED")
        BY <3>4 DEF Lapses, SettledAs
      <4> QED BY <4>1, <4>2
    <3>8. OfferOutstanding'
      <4>1. /\ status'[r] # "ALTERNATIVE_OFFERED"
            /\ \A q \in Reservations \ {r} : status'[q] = status[q]
        BY <2>4, <3>1 DEF CommitLate, ReturnedIfOffered, TypeOK
      <4> QED BY <3>4, <4>1 DEF OffersInv, OfferOutstanding, PendingOffers
    <3>9. UNCHANGED terms
      BY <2>4 DEF CommitLate
    <3> QED BY <2>3, <3>7, <3>8, <3>9
  <2>5. CASE SweepCommit
    <3>1. ASSUME NEW r \in Reservations
          PROVE  /\ Lapses(r, "EXPIRED")
                 /\ \A i \in DOMAIN offers[r] : ~ OfferDue(r, i) => offers'[r][i] = offers[r][i]
      <4> DEFINE left == [i \in DOMAIN offers[r] |->
                            IF OfferDue(r, i) THEN [offers[r][i] EXCEPT !.status = "EXPIRED"]
                                              ELSE offers[r][i]]
      <4>1. offers'[r] = left
        BY <2>5 DEF SweepCommit
      <4>2. offers[r] \in Seq(Offers)
        BY DEF TypeOK
      <4>3. \A i \in DOMAIN offers[r] : offers[r][i] \in Offers
        BY <4>2, LenProperties, ElementOfSeq
      <4>4. left \in [DOMAIN offers[r] -> Offers]
        BY <4>3 DEF Offers, OfferStatuses
      <4>5. Len(left) = Len(offers[r])
        BY <4>2, <4>4, Replaced
      <4>6. \A i \in DOMAIN offers[r] :
              \/ left[i] = offers[r][i]
              \/ OfferDue(r, i) /\ left[i].status = "EXPIRED"
        BY <4>3 DEF Offers
      <4>7. \A i \in DOMAIN offers[r] : ~ OfferDue(r, i) => left[i] = offers[r][i]
        OBVIOUS
      <4> HIDE DEF left
      <4>8. DOMAIN left = DOMAIN offers[r]
        BY <4>4
      <4>9. \A i \in DOMAIN offers[r] : SettledAs(r, i, "EXPIRED")
        BY <4>1, <4>6 DEF SettledAs, OfferDue
      <4> QED BY <4>1, <4>5, <4>7, <4>8, <4>9 DEF Lapses
    <3>2. OfferOutstanding'
      <4> SUFFICES ASSUME NEW r \in Reservations, status'[r] = "ALTERNATIVE_OFFERED"
                   PROVE  PendingOffers(r)' # {}
        BY DEF OfferOutstanding
      <4>1. status[r] = "ALTERNATIVE_OFFERED" /\ ~ ReturnsToReview(r)
        BY <2>5 DEF SweepCommit
      <4>2. PICK i \in PendingOffers(r) : TRUE
        BY <4>1 DEF OffersInv, OfferOutstanding
      <4>3. ~ OfferDue(r, i)
        BY <4>1, <4>2 DEF ReturnsToReview, PendingOffers
      <4>4. i \in PendingOffers(r)'
        BY <3>1, <4>2, <4>3 DEF Lapses, PendingOffers
      <4> QED BY <4>4
    <3>3. UNCHANGED terms
      BY <2>5 DEF SweepCommit
    <3> QED BY <2>3, <3>1, <3>2, <3>3
  <2>6. CASE OffersAside
    <3>1. PendingIsLatest' /\ AcceptedTermsHold'
      BY <2>6 DEF OffersAside, OffersInv, PendingIsLatest, AcceptedTermsHold, PendingOffers
    <3>2. OfferOutstanding'
      BY <2>6 DEF OffersAside, OffersInv, OfferOutstanding, PendingOffers
    <3> QED BY <3>1, <3>2 DEF OffersInv
  <2> QED BY OfferSteps, <2>1, <2>2, <2>4, <2>5, <2>6
<1> QED BY <1>1, <1>2, TypeCorrect, PTL DEF Spec

\* OpenOfferIsLast: a request that waits for the customer has exactly one offer to
\* answer, the last it was made; and whatever a late answer left open behind a
\* request that is back in review is that last one too.
THEOREM OneOfferAtATime == Spec => []OpenOfferIsLast
<1>1. OffersInv => OpenOfferIsLast
  BY DEF OffersInv, PendingIsLatest, OfferOutstanding, OpenOfferIsLast
<1> QED BY <1>1, OffersStand, PTL

\* OfferOutstanding: a request that waits for an answer has an offer to answer.
THEOREM WaitingHasOffer == Spec => []OfferOutstanding
<1>1. OffersInv => OfferOutstanding
  BY DEF OffersInv
<1> QED BY <1>1, OffersStand, PTL

\* AcceptedTermsHold: a request has the terms of the last offer accepted.
THEOREM TermsAreThoseAccepted == Spec => []AcceptedTermsHold
<1>1. OffersInv => AcceptedTermsHold
  BY DEF OffersInv
<1> QED BY <1>1, OffersStand, PTL
-----------------------------------------------------------------------------
(* Reviewers and documents.                                                *)

\* Reading marks the document, and whoever decides on the row that counts has
\* read it.
ReadIsMarked ==
  /\ \A r \in Reservations : previewed[r] # {} => document[r].status # "UPLOADED"
  /\ \A h \in Handlers : tx[h].intent \in DOMAIN Verdicts =>
        /\ tx[h].ref <= document[tx[h].res].generation
        /\ SameRow(h, tx[h].res) => document[tx[h].res].status # "UPLOADED"

LEMMA ReadingIsMarked == Spec => []ReadIsMarked
<1>1. Init => ReadIsMarked
  BY DEF Init, ReadIsMarked, NoTx, Verdicts
<1>2. TypeOK /\ ReadIsMarked /\ [Next]_vars => ReadIsMarked'
  <2> SUFFICES ASSUME TypeOK, ReadIsMarked, [Next]_vars PROVE ReadIsMarked'
    OBVIOUS
  <2> USE DEF ReadIsMarked, SameRow
  <2>1. ASSUME NEW h \in Handlers, NEW r \in Reservations, BeginAny(h, r) PROVE ReadIsMarked'
    <3>1. PICK t \in Txs : Opens(h, r, t)
      BY <2>1, BeginOpens
    <3>2. document[r].generation \in Nat
      BY DEF TypeOK
    <3> QED BY <3>1, <3>2 DEF Opens, TypeOK, docVars
  <2>2. ASSUME UNCHANGED docVars, NEW h \in Handlers, Finish(h) PROVE ReadIsMarked'
    BY <2>2 DEF Finish, NoTx, TypeOK, docVars, Verdicts
  <2>3. ASSUME NEW h \in Handlers, CommitAny(h) \/ Rollback(h) PROVE ReadIsMarked'
    <3>1. CASE SeeRequest(h)
      <4>1. tx[h] \in Txs
        BY <3>1, TxType DEF SeeRequest, Intents
      <4>2. /\ tx'[h].intent = tx[h].intent /\ tx'[h].ref = tx[h].ref /\ tx'[h].res = tx[h].res
            /\ \A g \in Handlers \ {h} : tx'[g] = tx[g]
        BY <3>1, <4>1 DEF SeeRequest, TypeOK, Txs
      <4> QED BY <3>1, <4>2 DEF SeeRequest, docVars
    <3>2. CASE BeginReplace(h)
      <4>1. tx[h] \in Txs
        BY <3>2, TxType DEF BeginReplace, Intents
      <4>2. tx'[h].intent = "REPLACE" /\ \A g \in Handlers \ {h} : tx'[g] = tx[g]
        BY <3>2, <4>1 DEF BeginReplace, TypeOK, Txs
      <4>3. \A g \in Handlers : tx'[g].intent \in DOMAIN Verdicts => tx'[g] = tx[g]
        BY <4>2 DEF Verdicts
      <4>4. UNCHANGED <<document, previewed>>
        BY <3>2 DEF BeginReplace, docVars
      <4> QED BY <4>3, <4>4
    <3>3. CASE CommitVerdict(h)
      <4>1. PICK r \in Reservations : r = tx[h].res
        BY <3>3, TxType DEF CommitVerdict, Intents
      <4>2. \A q \in Reservations :
               /\ document'[q].generation = document[q].generation
               /\ document[q].status # "UPLOADED" => document'[q].status # "UPLOADED"
        <5>1. Verdicts[tx[h].intent] # "UPLOADED"
          BY <3>3 DEF CommitVerdict, Verdicts
        <5> QED BY <3>3, <4>1, <5>1 DEF CommitVerdict, TypeOK
      <4>3. previewed' = previewed /\ Finish(h)
        BY <3>3 DEF CommitVerdict
      <4>4. \A g \in Handlers : tx'[g].intent \in DOMAIN Verdicts
               => g # h /\ tx'[g] = tx[g] /\ tx[g].res \in Reservations
        BY <4>3, TxType DEF Finish, NoTx, TypeOK, Verdicts, Intents
      <4> QED BY <4>2, <4>3, <4>4
    <3>4. CASE CommitReplace(h)
      <4>1. PICK r \in Reservations : r = tx[h].res
        BY <3>4, TxType DEF CommitReplace, Intents
      <4>2. /\ document'[r].generation = document[r].generation + 1
            /\ previewed'[r] = {}
            /\ \A q \in Reservations \ {r} : document'[q] = document[q] /\ previewed'[q] = previewed[q]
            /\ document[r].generation \in Nat
        BY <3>4, <4>1 DEF CommitReplace, TypeOK
      <4>3. \A g \in Handlers : tx'[g].intent \in DOMAIN Verdicts
               => /\ tx'[g] = tx[g] /\ tx[g].res \in Reservations
                  /\ tx[g].ref \in Nat
        BY <3>4, TxType DEF CommitReplace, Finish, NoTx, TypeOK, Verdicts, Intents, Txs
      <4>4. \A q \in Reservations : previewed'[q] # {} => document'[q].status # "UPLOADED"
        BY <4>2
      <4>5. ASSUME NEW g \in Handlers, tx'[g].intent \in DOMAIN Verdicts
            PROVE  /\ tx'[g].ref <= document'[tx'[g].res].generation
                   /\ document'[tx'[g].res].generation = tx'[g].ref
                        => document'[tx'[g].res].status # "UPLOADED"
        <5>1. CASE tx[g].res = r
          BY <4>2, <4>3, <4>5, <5>1
        <5>2. CASE tx[g].res # r
          BY <4>2, <4>3, <4>5, <5>2
        <5> QED BY <5>1, <5>2
      <4> QED BY <4>4, <4>5
    <3> QED BY <2>2, <2>3, <3>1, <3>2, <3>3, <3>4
            DEF CommitAny, Rollback, CommitClaim, CommitDecide, CommitOffer, CommitReply,
                CommitRespond, CommitLate, Move
  <2>4. ASSUME NEW r \in Reservations, NEW s \in Staff, Preview(r, s) \/ PreviewAges(r, s)
        PROVE  ReadIsMarked'
    <3>1. \A q \in Reservations :
             /\ document'[q].generation = document[q].generation
             /\ document[q].status # "UPLOADED" => document'[q].status # "UPLOADED"
      <4>1. CASE Preview(r, s)
        <5>1. document' = [document EXCEPT ![r].status =
                             IF @ = "UPLOADED" THEN "UNDER_REVIEW" ELSE @]
          BY <4>1 DEF Preview
        <5>2. document \in [Reservations -> [generation : Nat, status : DocumentStatuses]]
          BY DEF TypeOK
        <5> QED BY <5>1, <5>2
      <4>2. CASE PreviewAges(r, s)
        BY <4>2 DEF PreviewAges
      <4> QED BY <2>4, <4>1, <4>2
    <3>2. \A q \in Reservations : previewed'[q] # {} => document'[q].status # "UPLOADED"
      <4>1. CASE Preview(r, s)
        <5>1. document'[r].status # "UPLOADED"
          BY <4>1 DEF Preview, TypeOK
        <5>2. \A q \in Reservations \ {r} : previewed'[q] = previewed[q]
          BY <4>1 DEF Preview, TypeOK
        <5> QED BY <3>1, <5>1, <5>2
      <4>2. CASE PreviewAges(r, s)
        BY <4>2 DEF PreviewAges, TypeOK
      <4> QED BY <2>4, <4>1, <4>2
    <3>3. tx' = tx
      BY <2>4 DEF Preview, PreviewAges
    <3>4. \A g \in Handlers : tx[g].intent \in DOMAIN Verdicts => tx[g].res \in Reservations
      BY TxType DEF Intents
    <3> QED BY <3>1, <3>2, <3>3, <3>4
  <2>5. ASSUME UNCHANGED <<docVars, tx>> PROVE ReadIsMarked'
    BY <2>5 DEF docVars
  <2> QED BY <2>1, <2>3, <2>4, <2>5
          DEF Next, BeginAny, SweepBegin, SweepCommit, SweepFail, Tick, vars, docVars
<1> QED BY <1>1, <1>2, TypeCorrect, PTL DEF Spec

\* VerdictOnReadDocument: no verdict falls on a document nobody has opened, also
\* when a replacement overtakes the reviewer.
THEOREM VerdictsOnReadDocuments == Spec => VerdictOnReadDocument
<1> DEFINE Safe(r) == /\ document[r].status = "UPLOADED"
                      /\ document'[r].generation = document[r].generation
                      => document'[r].status \in {"UPLOADED", "UNDER_REVIEW"}
<1>1. TypeOK /\ ReadIsMarked /\ [Next]_vars => [\A r \in Reservations : Safe(r)]_vars
  <2> SUFFICES ASSUME TypeOK, ReadIsMarked, [Next]_vars, NEW r \in Reservations PROVE Safe(r)
    OBVIOUS
  <2>1. ASSUME UNCHANGED document PROVE Safe(r)
    BY <2>1
  <2>2. ASSUME NEW h \in Handlers, CommitVerdict(h) PROVE Safe(r)
    <3>1. CASE r = tx[h].res
      BY <2>2, <3>1 DEF CommitVerdict, ReadIsMarked, TypeOK
    <3>2. CASE r # tx[h].res
      BY <2>2, <3>2 DEF CommitVerdict, TypeOK
    <3> QED BY <3>1, <3>2
  <2>3. ASSUME NEW h \in Handlers, CommitReplace(h) PROVE Safe(r)
    <3>1. document[r].generation \in Nat
      BY DEF TypeOK
    <3> QED BY <2>3, <3>1 DEF CommitReplace, TypeOK
  <2>4. ASSUME NEW q \in Reservations, NEW s \in Staff, Preview(q, s) PROVE Safe(r)
    BY <2>4 DEF Preview, TypeOK
  <2>5. ASSUME NEW h \in Handlers, NEW q \in Reservations, BeginAny(h, q) PROVE UNCHANGED document
    BY <2>5, BeginOpens DEF Opens, docVars
  <2> QED BY <2>1, <2>2, <2>3, <2>4, <2>5
          DEF Next, BeginAny, CommitAny, CommitClaim, CommitDecide, CommitOffer, CommitReply,
              CommitRespond, CommitLate, SeeRequest, BeginReplace, Rollback, PreviewAges,
              SweepBegin, SweepCommit, SweepFail, Tick, vars, docVars
<1> QED BY <1>1, TypeCorrect, ReadingIsMarked, PTL DEF Spec, VerdictOnReadDocument

\* AssignmentStands: once a reviewer has a request, nobody takes it over.
THEOREM AssignmentsStand == Spec => AssignmentStands
<1>1. TypeOK /\ [Next]_vars
        => [\A r \in Reservations : assigned[r] # None => assigned'[r] = assigned[r]]_vars
  <2> SUFFICES ASSUME TypeOK, [Next]_vars, NEW r \in Reservations, assigned[r] # None
               PROVE  assigned'[r] = assigned[r]
    OBVIOUS
  <2>1. ASSUME NEW h \in Handlers, CommitClaim(h) PROVE assigned'[r] = assigned[r]
    BY <2>1 DEF CommitClaim, Unclaimed, TypeOK
  <2>2. ASSUME NEW h \in Handlers, NEW q \in Reservations, BeginAny(h, q) PROVE UNCHANGED assigned
    BY <2>2, BeginOpens DEF Opens, caseVars
  <2> QED BY <2>1, <2>2
          DEF Next, BeginAny, CommitAny, CommitDecide, CommitOffer, CommitReply,
              CommitRespond, CommitLate, SeeRequest, CommitVerdict, BeginReplace,
              CommitReplace, Rollback, Preview, PreviewAges,
              SweepBegin, SweepCommit, SweepFail, Tick, vars, caseVars
<1> QED BY <1>1, TypeCorrect, PTL DEF Spec, AssignmentStands

\* ImplementsLifecycle: every step of the sales team, of the customer and of the
\* sweep is a step of the abstract life cycle, or leaves all requests in place.
THEOREM LifecycleImplemented == Spec => ImplementsLifecycle
<1>1. Init => Lifecycle!Init
  BY DEF Init, Lifecycle!Init
<1>2. TypeOK /\ [Next]_vars => [Lifecycle!Next]_status
  <2> SUFFICES ASSUME TypeOK, [Next]_vars, status' # status PROVE Lifecycle!Next
    OBVIOUS
  <2>1. ASSUME NEW r \in Reservations, NEW s \in Lifecycle!Statuses,
               <<status[r], s>> \in Lifecycle!Edges, status' = [status EXCEPT ![r] = s]
        PROVE  Lifecycle!Next
    BY <2>1 DEF Lifecycle!Move, Lifecycle!Next
  <2> USE DEF Lifecycle!Edges, Lifecycle!Statuses
  <2>2. ASSUME NEW h \in Handlers, CommitAny(h) PROVE Lifecycle!Next
    <3> DEFINE r == tx[h].res
    <3>1. CASE CommitClaim(h)
      <4>1. r \in Reservations
        BY <3>1, TxType DEF CommitClaim, Intents
      <4> QED BY <2>1, <3>1, <4>1 DEF CommitClaim, Unclaimed, Move
    <3>2. CASE CommitDecide(h)
      <4>1. r \in Reservations
        BY <3>2, TxType DEF CommitDecide, Intents
      <4>2. Decisions[tx[h].intent] \in {"MORE_INFORMATION_REQUIRED", "PRE_APPROVED", "REJECTED"}
        BY <3>2 DEF CommitDecide, Decisions
      <4> QED BY <2>1, <3>2, <4>1, <4>2 DEF CommitDecide, Move
    <3>3. CASE CommitOffer(h)
      <4>1. r \in Reservations
        BY <3>3, TxType DEF CommitOffer, Intents
      <4> QED BY <2>1, <3>3, <4>1 DEF CommitOffer, Move
    <3>4. CASE CommitReply(h)
      <4>1. r \in Reservations
        BY <3>4, TxType DEF CommitReply, Intents
      <4> QED BY <2>1, <3>4, <4>1 DEF CommitReply, Move
    <3>5. CASE CommitRespond(h)
      <4>1. r \in Reservations
        BY <3>5, TxType DEF CommitRespond, Intents
      <4> QED BY <2>1, <3>5, <4>1 DEF CommitRespond, Move
    <3>6. CASE CommitLate(h)
      <4>1. r \in Reservations
        BY <3>6, TxType DEF CommitLate, Intents
      <4>2. status' = [status EXCEPT ![r] = "UNDER_REVIEW"] /\ status[r] = "ALTERNATIVE_OFFERED"
        BY <3>6, <4>1 DEF CommitLate, ReturnedIfOffered, TypeOK
      <4> QED BY <2>1, <4>1, <4>2
    <3>7. CASE CommitVerdict(h)
      <4>1. r \in Reservations
        BY <3>7, TxType DEF CommitVerdict, Intents
      <4>2. /\ status' = [status EXCEPT ![r] = "MORE_INFORMATION_REQUIRED"]
            /\ status[r] \in {"PENDING_REVIEW", "UNDER_REVIEW"}
        BY <3>7, <4>1 DEF CommitVerdict, TypeOK
      <4> QED BY <2>1, <4>1, <4>2
    <3> QED BY <2>2, <3>1, <3>2, <3>3, <3>4, <3>5, <3>6, <3>7
            DEF CommitAny, SeeRequest, BeginReplace, CommitReplace, caseVars
  <2>3. CASE SweepCommit
    <3> DEFINE R == {r \in Reservations : ReturnsToReview(r) \/ ApprovalDue(r)}
    <3>1. \A r \in R : status[r] \in DOMAIN Lifecycle!Lapsed
      BY DEF ReturnsToReview, ApprovalDue, Lifecycle!Lapsed
    <3>2. \A r \in R : Lifecycle!Lapsed[status[r]]
                        = IF ReturnsToReview(r) THEN "UNDER_REVIEW" ELSE "EXPIRED"
      BY DEF ReturnsToReview, ApprovalDue, Lifecycle!Lapsed
    <3>3. status' = [r \in Reservations |->
                       IF r \in R THEN Lifecycle!Lapsed[status[r]] ELSE status[r]]
      BY <2>3, <3>2 DEF SweepCommit
    <3>4. Lifecycle!Lapse(R)
      BY <3>1, <3>3 DEF Lifecycle!Lapse
    <3> QED BY <3>4 DEF Lifecycle!Next
  <2>4. ASSUME NEW h \in Handlers, NEW r \in Reservations, BeginAny(h, r)
        PROVE  UNCHANGED status
    BY <2>4, BeginOpens DEF Opens, caseVars
  <2> QED BY <2>2, <2>3, <2>4
          DEF Next, BeginAny, Rollback, Preview, PreviewAges, SweepBegin, SweepFail, Tick,
              vars, caseVars
<1> QED BY <1>1, <1>2, TypeCorrect, PTL DEF Spec, ImplementsLifecycle, Lifecycle!Spec
-----------------------------------------------------------------------------
(* What the pages offer.                                                   *)

\* A request nobody has claimed has no reviewer.
UnclaimedIsNobodys ==
  \A r \in Reservations : status[r] = "PENDING_REVIEW" => assigned[r] = None

LEMMA NobodyBeforeClaim == Spec => []UnclaimedIsNobodys
<1>1. Init => UnclaimedIsNobodys
  BY DEF Init, UnclaimedIsNobodys
<1>2. TypeOK /\ UnclaimedIsNobodys /\ [Next]_vars => UnclaimedIsNobodys'
  <2> SUFFICES ASSUME TypeOK, UnclaimedIsNobodys, [Next]_vars,
                      NEW r \in Reservations, status'[r] = "PENDING_REVIEW"
               PROVE  assigned'[r] = None
    BY DEF UnclaimedIsNobodys
  <2> USE DEF UnclaimedIsNobodys
  <2>1. CASE UNCHANGED <<status, assigned>>
    BY <2>1
  <2>2. ASSUME NEW h \in Handlers, NEW q \in Reservations, BeginAny(h, q)
        PROVE  UNCHANGED <<status, assigned>>
    BY <2>2, BeginOpens DEF Opens, caseVars
  <2>3. ASSUME NEW h \in Handlers, NEW next, next # "PENDING_REVIEW", Move(h, tx[h].res, next)
        PROVE  status[r] = "PENDING_REVIEW" /\ r # tx[h].res
    BY <2>3 DEF Move, TypeOK
  <2>4. ASSUME NEW h \in Handlers, CommitClaim(h) PROVE assigned'[r] = None
    <3>1. status[r] = "PENDING_REVIEW" /\ r # tx[h].res
      BY <2>3, <2>4 DEF CommitClaim
    <3> QED BY <2>4, <3>1 DEF CommitClaim, TypeOK
  <2>5. ASSUME NEW h \in Handlers, CommitDecide(h) PROVE assigned'[r] = None
    <3>1. Decisions[tx[h].intent] # "PENDING_REVIEW"
      BY <2>5 DEF CommitDecide, Decisions
    <3> QED BY <2>3, <2>5, <3>1 DEF CommitDecide
  <2>6. ASSUME NEW h \in Handlers, CommitOffer(h) \/ CommitReply(h) \/ CommitRespond(h)
        PROVE  assigned'[r] = None
    BY <2>3, <2>6 DEF CommitOffer, CommitReply, CommitRespond
  <2>7. ASSUME NEW h \in Handlers, CommitLate(h) PROVE assigned'[r] = None
    <3>1. status[r] = "PENDING_REVIEW"
      BY <2>7 DEF CommitLate, ReturnedIfOffered, TypeOK
    <3> QED BY <2>7, <3>1 DEF CommitLate
  <2>8. ASSUME NEW h \in Handlers, CommitVerdict(h) PROVE assigned'[r] = None
    <3>1. status[r] = "PENDING_REVIEW"
      BY <2>8 DEF CommitVerdict, TypeOK
    <3> QED BY <2>8, <3>1 DEF CommitVerdict
  <2>9. CASE SweepCommit
    <3>1. status[r] = "PENDING_REVIEW"
      BY <2>9 DEF SweepCommit
    <3> QED BY <2>9, <3>1 DEF SweepCommit
  <2>10. ASSUME NEW h \in Handlers, SeeRequest(h) \/ BeginReplace(h) \/ CommitReplace(h) \/ Rollback(h)
         PROVE  UNCHANGED <<status, assigned>>
    BY <2>10 DEF SeeRequest, BeginReplace, CommitReplace, Rollback, caseVars
  <2>11. ASSUME NEW q \in Reservations, NEW s \in Staff, Preview(q, s) \/ PreviewAges(q, s)
         PROVE  UNCHANGED <<status, assigned>>
    BY <2>11 DEF Preview, PreviewAges, caseVars
  <2>12. CASE SweepBegin \/ SweepFail \/ Tick \/ UNCHANGED vars
    BY <2>1, <2>12 DEF SweepBegin, SweepFail, Tick, vars, caseVars
  <2> QED BY <2>1, <2>2, <2>4, <2>5, <2>6, <2>7, <2>8, <2>9, <2>10, <2>11, <2>12
          DEF Next, BeginAny, CommitAny
<1> QED BY <1>1, <1>2, TypeCorrect, PTL DEF Spec

\* StaffServed: for any staff and in every state, each button of a page just
\* loaded by somebody of the staff is one the handlers accept from them.
THEOREM StaffAlwaysServed == Spec => []StaffServed
<1> USE SalesAssumption
<1>1. TypeOK /\ UnclaimedIsNobodys => StaffServed
  <2> SUFFICES ASSUME TypeOK, UnclaimedIsNobodys, NEW r \in Reservations, NEW s \in Staff,
                      NEW c \in SalesControls(r, s)
               PROVE  StaffAccepted(r, s, c)
    BY DEF StaffServed
  <2>1. OpenOnPage(r, s)
    BY DEF SalesControls
  <2>2. CASE c \in ClaimPanel(r, s)
    <3>1. c = "CLAIM" /\ status[r] = "PENDING_REVIEW"
      BY <2>2 DEF ClaimPanel
    <3> QED BY <3>1 DEF UnclaimedIsNobodys, StaffAccepted, ClaimAccepted
  <2>3. CASE c \in DecisionPanel(r, s) \cup OfferPanel(r, s)
    <3>1. c \in DOMAIN Decisions \cup {"OFFER"} /\ status[r] = "UNDER_REVIEW" /\ assigned[r] = s
      BY <2>3 DEF DecisionPanel, OfferPanel, Mine
    <3> QED BY <3>1 DEF StaffAccepted, ReviewAccepted, MayAct
  <2>4. CASE c \in StudioGate(r, s)
    <3>1. c = "PREVIEW" /\ CanReviewDocuments(r, s) /\ document[r].status # "ABSENT"
      BY <2>4 DEF StudioGate
    <3>2. status[r] \notin {"REJECTED", "EXPIRED"}
      BY <2>1 DEF OpenOnPage, InQueue
    <3> QED BY <3>1, <3>2 DEF StaffAccepted, PreviewAccepted, CanReviewDocuments, Mine, MayAct
  <2>5. CASE c \in StudioDecisions(r, s)
    <3>1. /\ c \in DOMAIN Verdicts /\ CanReviewDocuments(r, s)
          /\ InDocumentReview(r) /\ s \in previewed[r]
          /\ Unread(r) \/ (c = "VERIFY" /\ document[r].status = "REJECTED")
      BY <2>5 DEF StudioDecisions
    <3> QED BY <3>1 DEF StaffAccepted, VerdictAccepted, CanReviewDocuments, Mine, MayAct
  <2> QED BY <2>2, <2>3, <2>4, <2>5 DEF SalesControls
<1> QED BY <1>1, TypeCorrect, NobodyBeforeClaim, PTL

\* WayForward: as long as somebody works here, an open request has on one of the
\* two pages a control that the API accepts and that takes it on, unless it is
\* under review with no reviewer.
THEOREM AlwaysAWayForward == ASSUME Staff # {} PROVE Spec => []WayForward
<1> USE SalesAssumption
<1>1. TypeOK /\ UnclaimedIsNobodys /\ OffersInv => WayForward
  <2> SUFFICES ASSUME TypeOK, UnclaimedIsNobodys, OffersInv, NEW r \in Reservations,
                      ~ Orphaned(r),
                      status[r] \notin {"PRE_APPROVED", "REJECTED", "EXPIRED"}
               PROVE  MovesOn(r)
    BY DEF WayForward
  <2>1. status[r] \in {"PENDING_REVIEW", "UNDER_REVIEW", "MORE_INFORMATION_REQUIRED",
                       "ALTERNATIVE_OFFERED"}
    BY DEF TypeOK, Statuses
  <2>2. CASE status[r] = "PENDING_REVIEW"
    <3>1. PICK s \in Staff : TRUE
      OBVIOUS
    <3>2. assigned[r] = None /\ s # None
      BY <2>2 DEF UnclaimedIsNobodys
    <3>3. OpenOnPage(r, s) /\ ~ Mine(r, s)
      BY <2>2, <3>2 DEF OpenOnPage, InQueue, Readable, Found, Mine
    <3>4. "CLAIM" \in SalesControls(r, s) \ {"PREVIEW", "VERIFY"}
      BY <2>2, <3>3 DEF SalesControls, ClaimPanel
    <3>5. StaffAccepted(r, s, "CLAIM")
      BY <2>2, <3>2 DEF StaffAccepted, ClaimAccepted
    <3> QED BY <3>4, <3>5 DEF MovesOn
  <2>3. CASE status[r] = "UNDER_REVIEW"
    <3>1. PICK s \in Staff : s = assigned[r]
      BY <2>3 DEF Orphaned, TypeOK
    <3>2. OpenOnPage(r, s) /\ Mine(r, s)
      BY <2>3, <3>1 DEF OpenOnPage, InQueue, Readable, Found, Mine
    <3>3. "REJECT" \in SalesControls(r, s) \ {"PREVIEW", "VERIFY"}
      BY <2>3, <3>2 DEF SalesControls, DecisionPanel, Decisions
    <3>4. StaffAccepted(r, s, "REJECT")
      BY <2>3, <3>1 DEF StaffAccepted, ReviewAccepted, MayAct, Decisions
    <3> QED BY <3>3, <3>4 DEF MovesOn
  <2>4. CASE status[r] = "MORE_INFORMATION_REQUIRED"
    <3>1. CASE document[r].status = "REJECTED"
      <4>1. "UPLOAD" \in CustomerControls(r)
        BY <2>4, <3>1 DEF CustomerControls, ReplacementField
      <4>2. CustomerAccepted(r, "UPLOAD")
        BY <2>4, <3>1 DEF CustomerAccepted, UploadAccepted
      <4> QED BY <4>1, <4>2 DEF MovesOn
    <3>2. CASE document[r].status # "REJECTED"
      <4>1. "REPLY" \in CustomerControls(r)
        BY <2>4 DEF CustomerControls, ReplyPanel, NeedsResponse
      <4>2. CustomerAccepted(r, "REPLY")
        BY <2>4, <3>2 DEF CustomerAccepted, ReplyAccepted
      <4> QED BY <4>1, <4>2 DEF MovesOn
    <3> QED BY <3>1, <3>2
  <2>5. CASE status[r] = "ALTERNATIVE_OFFERED"
    <3>1. PICK i \in PendingOffers(r) : TRUE
      BY <2>5 DEF OffersInv, OfferOutstanding
    <3>2. \A j \in PendingOffers(r) : j = Len(offers[r])
      BY DEF OffersInv, PendingIsLatest
    <3>3. Len(offers[r]) \in Nat
      BY LenProperties DEF TypeOK
    <3>4. IsCurrentOffer(r, i) /\ i \in DOMAIN offers[r]
      BY <3>1, <3>2, <3>3 DEF IsCurrentOffer, PendingOffers
    <3>5. offers[r] # <<>> /\ offers[r][Len(offers[r])].status = "PENDING"
      BY <3>1, <3>2, <3>4 DEF PendingOffers
    <3>6. "ACCEPT" \in CustomerControls(r)
      BY <2>5, <3>5 DEF CustomerControls, OfferSection, Responses
    <3>7. CustomerAccepted(r, "ACCEPT")
      BY <2>5, <3>4 DEF CustomerAccepted, AnswerAccepted, Responses
    <3> QED BY <3>6, <3>7 DEF MovesOn
  <2> QED BY <2>1, <2>2, <2>3, <2>4, <2>5
<1> QED BY <1>1, TypeCorrect, NobodyBeforeClaim, OffersStand, PTL
=============================================================================
