-------------------------- MODULE Publishing_proofs --------------------------
(***************************************************************************)
(* Proofs about Publishing, for any number of bundles, rules and clerks    *)
(* and any bounds of clock and saves.                                      *)
(***************************************************************************)
EXTENDS Publishing, WellFoundedInduction, TLAPS

\* What a publication under way has read of the bundles and of the section.
Kept(q) ==
  /\ q.op = "POLICY" =>
       /\ q.version \in Versions /\ q.from \in 0..MaxClock + 1
       /\ \A v \in q.older : v \in Stored /\ bundles[v].from < q.from
  /\ q.op \in {"ENTRY", "SECTION"} => q.schema \in 0..MaxSaves
  /\ q.op = "SECTION" => q.ar \in 0..MaxSaves /\ q.en = q.ar
  /\ q.op = "RULE" => q.rule \in Rules /\ q.state \in {"ON", "OFF"}

Typed ==
  /\ PublishingTypeOK
  /\ DOMAIN request = Handlers
  /\ \A v \in Stored : bundles[v].from <= MaxClock + 1
  /\ section.ar = section.en
  /\ \A h \in Handlers : Kept(request[h])

\* A bundle that ends has a successor that takes effect when it does, later
\* than it did itself.
Succeeded ==
  \A v \in Stored : bundles[v].until # Open =>
    /\ bundles[v].from < bundles[v].until
    /\ \E w \in Stored : bundles[w].from = bundles[v].until
-----------------------------------------------------------------------------
(* Types.                                                                  *)

\* Versions stay, and so does the instant each takes effect.
Growing == \A v \in Stored : v \in Stored' /\ bundles'[v].from = bundles[v].from

LEMMA KeptStays ==
  ASSUME Growing, NEW q, Kept(q)
  PROVE  Kept(q)'
BY DEF Kept, Growing

\* A step of handler h that puts q in its place, and writes as far as bundles
\* only grow.
LEMMA PutKept ==
  ASSUME Typed, Growing, NEW h \in Handlers, NEW q, Kept(q)',
         request' = [request EXCEPT ![h] = q]
  PROVE  DOMAIN request' = Handlers /\ \A g \in Handlers : Kept(request[g])'
<1>1. \A g \in Handlers : request'[g] = IF g = h THEN q ELSE request[g]
  BY DEF Typed
<1>2. ASSUME NEW g \in Handlers PROVE Kept(request[g])'
  <2>1. CASE g = h
    BY <1>1, <2>1 DEF Kept
  <2>2. CASE g # h
    BY <1>1, <2>2 DEF Typed, Kept, Growing
  <2> QED BY <2>1, <2>2
<1> QED BY <1>2 DEF Typed

LEMMA TypedAlways == PublishingSpec => []Typed
<1> USE PublishingAssumption
<1>1. PublishingInit => Typed
  BY DEF PublishingInit, Typed, PublishingTypeOK, Absent, Open, Stored, Kept, RequestInit, NoRequest
<1>2. Typed /\ [PublishingNext]_publishingVars => Typed'
  <2> SUFFICES ASSUME Typed, [PublishingNext]_publishingVars PROVE Typed'
    OBVIOUS
  <2>1. bundles' = bundles => Growing /\ UNCHANGED Stored
    BY DEF Growing, Stored
  <2>2. Kept(NoRequest)'
    BY DEF Kept, NoRequest
  <2>3. CASE TimePasses \/ SaveDraft \/ UNCHANGED publishingVars
    <3>1. UNCHANGED <<bundles, request>>
      BY <2>3 DEF TimePasses, SaveDraft, publishingVars
    <3>2. CASE TimePasses \/ UNCHANGED publishingVars
      BY <2>3, <3>1, <3>2 DEF TimePasses, publishingVars, Typed, PublishingTypeOK, Kept, Stored
    <3>3. CASE SaveDraft
      <4>1. saves' \in 0..MaxSaves
        BY <3>3 DEF SaveDraft, Typed, PublishingTypeOK
      <4>2. section' \in [schema : 0..MaxSaves, ar : 0..MaxSaves, en : 0..MaxSaves,
                         publicSchema : 0..MaxSaves, publicAr : 0..MaxSaves,
                         publicEn : 0..MaxSaves] /\ section'.ar = section'.en
        BY <3>3, <4>1 DEF SaveDraft, Typed, PublishingTypeOK
      <4> QED BY <3>1, <3>3, <4>1, <4>2 DEF SaveDraft, Typed, PublishingTypeOK, Kept, Stored
    <3> QED BY <2>3, <3>2, <3>3
  <2>4. ASSUME NEW h \in Handlers, NEW v \in Versions, NEW from \in 0..MaxClock + 1,
               BeginPublish(h, v, from)
        PROVE  Typed'
    <3> DEFINE q == [op |-> "POLICY", version |-> v, from |-> from,
                     older |-> {w \in Stored : bundles[w].until = Open /\ bundles[w].from < from}]
    <3>1. Kept(q)'
      BY <2>4 DEF BeginPublish, Kept, Stored
    <3>2. request' = [request EXCEPT ![h] = q] /\ UNCHANGED <<clock, bundles, section, saves, rule>>
      BY <2>4 DEF BeginPublish, Begin
    <3> QED BY <2>1, <3>1, <3>2, PutKept DEF Typed, PublishingTypeOK
  <2>5. ASSUME NEW h \in Handlers, CommitPublish(h) PROVE Typed'
    <3> DEFINE q == request[h]
    <3>1. q.version \in Versions /\ q.from \in 0..MaxClock + 1 /\ q.version \notin Stored
      BY <2>5 DEF CommitPublish, Typed, Kept
    <3>2. bundles' \in [Versions -> [from : 0..Open, until : 0..Open]]
      BY <2>5, <3>1 DEF CommitPublish, RetiredAt, Typed, PublishingTypeOK, Open
    <3>3. \A v \in Versions : bundles'[v].from = IF v = q.version THEN q.from ELSE bundles[v].from
      BY <2>5 DEF CommitPublish, Typed, PublishingTypeOK
    <3>4. \A v \in Versions : v \in Stored' <=> v \in Stored \/ v = q.version
      <4>1. \A v \in Versions \ {q.version} : v \in Stored => v \in Stored'
        BY <3>2, <3>3 DEF Typed, Stored, Absent, Open
      <4>2. q.version \in Stored'
        BY <3>1, <3>2, <3>3 DEF Stored, Absent, Open
      <4>3. \A v \in Versions \ {q.version} : v \notin Stored => bundles'[v] = bundles[v]
        BY <2>5 DEF CommitPublish, Typed, Kept
      <4> QED BY <4>1, <4>2, <4>3 DEF Stored
    <3>5. Growing /\ \A v \in Stored' : bundles'[v].from <= MaxClock + 1
      BY <3>1, <3>3, <3>4 DEF Growing, Typed, Stored
    <3>6. request' = [request EXCEPT ![h] = NoRequest] /\ UNCHANGED <<clock, section, saves, rule>>
      BY <2>5 DEF CommitPublish, Finish
    <3> QED BY <2>2, <3>2, <3>5, <3>6, PutKept DEF Typed, PublishingTypeOK
  <2>6. ASSUME NEW h \in Handlers, BeginPublishSection(h) PROVE Typed'
    <3>1. PICK q : q = [op |-> "ENTRY", schema |-> section.schema]
      OBVIOUS
    <3>2. Kept(q)'
      BY <3>1 DEF Kept, Typed, PublishingTypeOK
    <3>3. request' = [request EXCEPT ![h] = q] /\ UNCHANGED <<clock, bundles, section, saves, rule>>
      BY <2>6, <3>1 DEF BeginPublishSection, Begin
    <3> QED BY <2>1, <3>2, <3>3, PutKept DEF Typed, PublishingTypeOK
  <2>7. ASSUME NEW h \in Handlers, ReadTranslations(h) PROVE Typed'
    <3>1. PICK q : q = [op |-> "SECTION", schema |-> request[h].schema,
                        ar |-> section.ar, en |-> section.en]
      OBVIOUS
    <3>2. Kept(q)'
      BY <2>7, <3>1 DEF ReadTranslations, Kept, Typed, PublishingTypeOK
    <3>3. request' = [request EXCEPT ![h] = q] /\ UNCHANGED <<clock, bundles, section, saves, rule>>
      BY <2>7, <3>1 DEF ReadTranslations, Continue
    <3> QED BY <2>1, <3>2, <3>3, PutKept DEF Typed, PublishingTypeOK
  <2>8. ASSUME NEW h \in Handlers, CommitPublishSection(h) PROVE Typed'
    <3>1. section' \in [schema : 0..MaxSaves, ar : 0..MaxSaves, en : 0..MaxSaves,
                       publicSchema : 0..MaxSaves, publicAr : 0..MaxSaves,
                       publicEn : 0..MaxSaves] /\ section'.ar = section'.en
      BY <2>8 DEF CommitPublishSection, PublicCopy, Typed, PublishingTypeOK, Kept
    <3>2. request' = [request EXCEPT ![h] = NoRequest] /\ UNCHANGED <<clock, bundles, saves, rule>>
      BY <2>8 DEF CommitPublishSection, Finish
    <3> QED BY <2>1, <2>2, <3>1, <3>2, PutKept DEF Typed, PublishingTypeOK
  <2>9. ASSUME NEW r \in Rules, NEW state \in {"ON", "OFF"}, CreateRule(r, state) PROVE Typed'
    BY <2>9 DEF CreateRule, Typed, PublishingTypeOK, Kept, Stored
  <2>10. ASSUME NEW h \in Handlers, NEW r \in Rules, NEW state \in {"ON", "OFF"},
                BeginUpdateRule(h, r, state)
         PROVE  Typed'
    <3>1. PICK q : q = [op |-> "RULE", rule |-> r, state |-> state]
      OBVIOUS
    <3>2. Kept(q)'
      BY <3>1 DEF Kept
    <3>3. request' = [request EXCEPT ![h] = q] /\ UNCHANGED <<clock, bundles, section, saves, rule>>
      BY <2>10, <3>1 DEF BeginUpdateRule, Begin
    <3> QED BY <2>1, <3>2, <3>3, PutKept DEF Typed, PublishingTypeOK
  <2>11. ASSUME NEW h \in Handlers, CommitUpdateRule(h) PROVE Typed'
    <3>1. rule' \in [Rules -> {"NONE", "ON", "OFF"}]
      BY <2>11 DEF CommitUpdateRule, Typed, PublishingTypeOK, Kept
    <3>2. request' = [request EXCEPT ![h] = NoRequest] /\ UNCHANGED <<clock, bundles, section, saves>>
      BY <2>11 DEF CommitUpdateRule, Finish
    <3> QED BY <2>1, <2>2, <3>1, <3>2, PutKept DEF Typed, PublishingTypeOK
  <2>12. ASSUME NEW h \in Handlers, Fails(h) PROVE Typed'
    BY <2>1, <2>2, <2>12, PutKept DEF Fails, Finish, Typed, PublishingTypeOK
  <2> QED BY <2>3, <2>4, <2>5, <2>6, <2>7, <2>8, <2>9, <2>10, <2>11, <2>12
          DEF PublishingNext, PolicyNext, SectionNext, RuleNext
<1> QED BY <1>1, <1>2, PTL DEF PublishingSpec

\* PublishingTypeOK: every variable keeps its type, and every publication under
\* way has read versions and saves there are.
THEOREM TypeCorrect == PublishingSpec => []PublishingTypeOK
BY TypedAlways, PTL DEF Typed
-----------------------------------------------------------------------------
(* Policy bundles.                                                         *)

\* A set of numbers that is not empty has a least one,
LEMMA Least ==
  ASSUME NEW T \in SUBSET Nat, T # {}
  PROVE  \E m \in T : \A n \in T : m <= n
<1> DEFINE Less == OpToRel(<, Nat)
<1>1. \A x, y \in Nat : <<y, x>> \in Less <=> y < x
  BY DEF OpToRel
<1> HIDE DEF Less
<1>2. IsWellFoundedOn(Less, Nat)
  BY NatLessThanWellFounded DEF Less
<1>3. \E x \in T : \A y \in T : ~ (<<y, x>> \in Less)
  BY <1>2, WFMin
<1>4. PICK x \in T : \A y \in T : ~ (y < x)
  BY <1>1, <1>3
<1>5. \A y \in T : x <= y
  BY <1>4
<1> QED BY <1>5

\* and, when it is bounded, a last one.
LEMMA Last ==
  ASSUME NEW k \in Nat, NEW S \in SUBSET (0..k), S # {}
  PROVE  \E m \in S : \A n \in S : n <= m
<1> DEFINE T == {x \in 0..k : k - x \in S}
<1>1. T \in SUBSET Nat
  OBVIOUS
<1>2. \A n \in S : k - n \in T
  <2> TAKE n \in S
  <2>1. n \in 0..k
    OBVIOUS
  <2>2. k - n \in 0..k /\ k - (k - n) = n
    BY <2>1
  <2> QED BY <2>2
<1>3. PICK m \in T : \A n \in T : m <= n
  BY <1>1, <1>2, Least
<1>4. k - m \in S /\ m \in 0..k
  OBVIOUS
<1>5. \A n \in S : n <= k - m
  <2> TAKE n \in S
  <2>1. n \in 0..k /\ m <= k - n
    BY <1>2, <1>3
  <2> QED BY <1>4, <2>1
<1> QED BY <1>4, <1>5

LEMMA SuccessionKept ==
  ASSUME Typed, Succeeded, [PublishingNext]_publishingVars
  PROVE  Succeeded'
<1> USE PublishingAssumption
<1>1. CASE UNCHANGED bundles
  BY <1>1 DEF Succeeded, Stored
<1>2. ASSUME NEW h \in Handlers, CommitPublish(h) PROVE Succeeded'
  <2> DEFINE q == request[h]
  <2>1. /\ q.version \in Versions /\ q.from \in 0..MaxClock + 1 /\ q.version \notin Stored
        /\ \A v \in q.older : v \in Stored /\ bundles[v].from < q.from
    BY <1>2 DEF CommitPublish, Typed, Kept
  <2>2. /\ bundles'[q.version].from = q.from /\ bundles'[q.version].until = Open
        /\ q.version \in Stored'
    BY <1>2, <2>1 DEF CommitPublish, Stored, Absent, Open
  <2>3. \A v \in Versions \ {q.version} :
          /\ bundles'[v].from = bundles[v].from
          /\ bundles'[v].until = IF v \in q.older /\ bundles[v].until = Open
                                THEN q.from ELSE bundles[v].until
          /\ v \notin q.older => bundles'[v] = bundles[v]
    BY <1>2 DEF CommitPublish, RetiredAt, Typed, PublishingTypeOK
  <2>4. \A v \in Versions \ {q.version} : v \in Stored' <=> v \in Stored
    BY <2>1, <2>3 DEF Stored, Absent, Open, Typed
  <2>5. SUFFICES ASSUME NEW v \in Stored', bundles'[v].until # Open
                 PROVE  /\ bundles'[v].from < bundles'[v].until
                        /\ \E w \in Stored' : bundles'[w].from = bundles'[v].until
    BY DEF Succeeded
  <2>6. v \in Versions \ {q.version} /\ v \in Stored
    BY <2>2, <2>4, <2>5 DEF Stored
  <2>7. CASE v \in q.older /\ bundles[v].until = Open
    BY <2>1, <2>2, <2>3, <2>6, <2>7
  <2>8. CASE ~ (v \in q.older /\ bundles[v].until = Open)
    <3>1. bundles'[v].until = bundles[v].until /\ bundles'[v].from = bundles[v].from
      BY <2>3, <2>6, <2>8
    <3>2. PICK w \in Stored : bundles[w].from = bundles[v].until
      BY <2>5, <2>6, <3>1 DEF Succeeded
    <3>3. w \in Versions \ {q.version}
      BY <2>1 DEF Stored
    <3> QED BY <2>3, <2>4, <2>5, <2>6, <3>1, <3>2, <3>3 DEF Succeeded
  <2> QED BY <2>7, <2>8
<1> QED BY <1>1, <1>2
    DEF PublishingNext, PolicyNext, SectionNext, RuleNext, TimePasses, BeginPublish, Fails,
        SaveDraft, BeginPublishSection, ReadTranslations, CommitPublishSection, CreateRule,
        BeginUpdateRule, CommitUpdateRule, publishingVars

\* Succeeded is enough: of the bundles begun, the one dated last has not ended,
\* or its successor would be dated later.
LEMMA LastBegunIsInForce ==
  ASSUME Typed, Succeeded
  PROVE  AlwaysInForce
<1> USE PublishingAssumption
<1> SUFFICES ASSUME NEW t \in 1..MaxClock, NEW u \in Stored, bundles[u].from <= t
             PROVE  \E v \in InForce(t) :
                      \A w \in {x \in Stored : bundles[x].from <= t} :
                        bundles[w].from <= bundles[v].from
  BY DEF AlwaysInForce
<1> DEFINE begun == {x \in Stored : bundles[x].from <= t}
           S == {n \in 0..t : \E x \in begun : bundles[x].from = n}
<1>1. \A v \in Stored : v \in Versions /\ bundles[v].from \in Nat /\ bundles[v].until \in Nat
  BY DEF Stored, Typed, PublishingTypeOK
<1>2. \A x \in begun : bundles[x].from \in S
  BY <1>1
<1>3. t \in Nat /\ S \in SUBSET (0..t) /\ S # {}
  BY <1>2
<1>4. PICK m \in S : \A n \in S : n <= m
  <2> HIDE DEF S
  <2> QED BY <1>3, Last
<1>5. PICK v \in begun : bundles[v].from = m
  OBVIOUS
<1>6. \A w \in begun : bundles[w].from <= bundles[v].from
  BY <1>2, <1>4, <1>5
<1>7. t < bundles[v].until
  <2>1. CASE bundles[v].until = Open
    BY <2>1 DEF Open
  <2>2. CASE bundles[v].until # Open
    <3>1. bundles[v].from < bundles[v].until
      BY <2>2 DEF Succeeded
    <3>2. PICK w \in Stored : bundles[w].from = bundles[v].until
      BY <2>2 DEF Succeeded
    <3>3. w \notin begun
      BY <1>1, <1>6, <3>1, <3>2
    <3> QED BY <1>1, <3>2, <3>3
  <2> QED BY <2>1, <2>2
<1>8. v \in InForce(t)
  BY <1>7 DEF InForce
<1> QED BY <1>6, <1>8

\* AlwaysInForce: once a bundle has begun there is one in force at every later
\* instant, however the publications of any number of administrators overlap.
THEOREM NoGapInForce == PublishingSpec => []AlwaysInForce
<1>1. PublishingInit => Succeeded
  BY DEF PublishingInit, Succeeded, Stored
<1>2. Typed /\ Succeeded /\ [PublishingNext]_publishingVars => Succeeded'
  BY SuccessionKept
<1>3. Typed /\ Succeeded => AlwaysInForce
  BY LastBegunIsInForce
<1> QED BY <1>1, <1>2, <1>3, TypedAlways, PTL DEF PublishingSpec

\* PublishedTogether: no interleaving of saves and publications shows a visitor
\* the Arabic of one save beside the English of another.
THEOREM CopiesAgree == PublishingSpec => []PublishedTogether
<1>1. PublishingInit => PublishedTogether
  BY DEF PublishingInit, PublishedTogether
<1>2. Typed /\ PublishedTogether /\ [PublishingNext]_publishingVars => PublishedTogether'
  <2> SUFFICES ASSUME Typed, PublishedTogether, [PublishingNext]_publishingVars
               PROVE  PublishedTogether'
    OBVIOUS
  <2>1. CASE UNCHANGED section
    BY <2>1 DEF PublishedTogether
  <2>2. CASE SaveDraft
    BY <2>2 DEF SaveDraft, PublishedTogether, Typed, PublishingTypeOK
  <2>3. ASSUME NEW h \in Handlers, CommitPublishSection(h) PROVE PublishedTogether'
    BY <2>3 DEF CommitPublishSection, PublicCopy, PublishedTogether, Typed, PublishingTypeOK, Kept
  <2> QED BY <2>1, <2>2, <2>3
      DEF PublishingNext, PolicyNext, SectionNext, RuleNext, TimePasses, BeginPublish,
          CommitPublish, Fails, BeginPublishSection, ReadTranslations, CreateRule,
          BeginUpdateRule, CommitUpdateRule, publishingVars
<1> QED BY <1>1, <1>2, TypedAlways, PTL DEF PublishingSpec
=============================================================================
