----------------------------- MODULE Publishing -----------------------------
(***************************************************************************)
(* What the office publishes: policy bundles with the instant they come    *)
(* into force, one section of the site with its draft and its published    *)
(* copy, and the rules that say which documents a customer shows.          *)
(*                                                                         *)
(* A clerk's request reads in one step and commits in a later one.         *)
(*                                                                         *)
(* A definition marked "Slip" is no part of the model: it is a plausible   *)
(* mistake in the definition after it, kept to show which property would   *)
(* catch it.                                                               *)
(***************************************************************************)
EXTENDS Requests, Naturals, FiniteSets

CONSTANTS
  Versions,      \* names for policy bundles
  Rules,         \* document rules of one customer category
  BaseRules,     \* those that hold whether or not the customer drives
  MaxClock, MaxSaves   \* bounds

ASSUME PublishingAssumption ==
  /\ BaseRules \subseteq Rules
  /\ MaxClock \in Nat \ {0} /\ MaxSaves \in Nat

VARIABLES
  clock,     \* in units of the window a bundle may be dated in
  bundles,   \* PolicyVersion, all rows of a version as one
  section,   \* ContentEntry and its translations: per column, the number of
             \* the save it holds, 0 for none
  saves,     \* how often the section's draft has been saved
  rule       \* DocumentRequirementRule: none, or whether it is active

publishingVars == <<clock, bundles, section, saves, rule, request>>

Open == MaxClock + 2   \* retiredAt is null
Absent == [from |-> Open, until |-> Open]
Stored == {v \in Versions : bundles[v] # Absent}

PublishingInit ==
  /\ clock = 1
  /\ bundles = [v \in Versions |-> Absent]
  /\ section = [schema |-> 0, ar |-> 0, en |-> 0,
                publicSchema |-> 0, publicAr |-> 0, publicEn |-> 0]
  /\ saves = 0
  /\ rule \in {f \in [Rules -> {"NONE", "ON"}] : \E r \in BaseRules : f[r] = "ON"}
  /\ RequestInit

TimePasses ==
  /\ clock < MaxClock /\ clock' = clock + 1
  /\ UNCHANGED <<bundles, section, saves, rule, request>>

\* The process stops or the database refuses: nothing is committed.
Fails(h) ==
  /\ request[h] # NoRequest
  /\ Finish(h)
  /\ UNCHANGED <<clock, bundles, section, saves, rule>>
-----------------------------------------------------------------------------
(* Policy bundles.                                                         *)

\* A bundle takes effect at once, give or take the browser's clock.
Window == {clock - 1, clock, clock + 1}

\* The transaction finds no such version, and the rows that are to retire.
BeginPublish(h, v, from) ==
  /\ v \notin Stored /\ from \in Window
  /\ Begin(h, [op |-> "POLICY", version |-> v, from |-> from,
               older |-> {w \in Stored : bundles[w].until = Open /\ bundles[w].from < from}])
  /\ UNCHANGED <<clock, bundles, section, saves, rule>>

\* When the older bundles end.  (Slip: at once.)
RetiredAtNow(h) == clock

RetiredAt(h) == request[h].from

\* A row another publication has retired meanwhile keeps that instant.  Two
\* publications of one version collide on its unique rows.
CommitPublish(h) ==
  /\ request[h].op = "POLICY"
  /\ request[h].version \notin Stored
  /\ bundles' = [v \in Versions |->
       IF v = request[h].version
       THEN [from |-> request[h].from, until |-> Open]
       ELSE IF v \in request[h].older /\ bundles[v].until = Open
       THEN [bundles[v] EXCEPT !.until = RetiredAt(h)]
       ELSE bundles[v]]
  /\ Finish(h)
  /\ UNCHANGED <<clock, section, saves, rule>>

\* What the customer's form and the office's overview read.
InForce(t) == {v \in Stored : bundles[v].from <= t /\ t < bundles[v].until}
-----------------------------------------------------------------------------
(* A section of the site.                                                  *)

\* One transaction writes the entry and both translations.
SaveDraft ==
  /\ saves < MaxSaves
  /\ saves' = saves + 1
  /\ section' = [section EXCEPT !.schema = saves', !.ar = saves', !.en = saves']
  /\ UNCHANGED <<clock, bundles, rule, request>>

\* publish needs both translations; it reads the entry, then the translations.
BeginPublishSection(h) ==
  /\ section.ar # 0 /\ section.en # 0
  /\ Begin(h, [op |-> "ENTRY", schema |-> section.schema])
  /\ UNCHANGED <<clock, bundles, section, saves, rule>>

ReadTranslations(h) ==
  /\ request[h].op = "ENTRY"
  /\ Continue(h, [op |-> "SECTION", schema |-> request[h].schema,
                  ar |-> section.ar, en |-> section.en])
  /\ UNCHANGED <<clock, bundles, section, saves, rule>>

\* What is published.  (Slip: a translation as it is by now.)
PublicCopyAsOfNow(h) ==
  [section EXCEPT !.publicSchema = request[h].schema,
                  !.publicAr = request[h].ar, !.publicEn = section.en]

PublicCopy(h) ==
  [section EXCEPT !.publicSchema = request[h].schema,
                  !.publicAr = request[h].ar, !.publicEn = request[h].en]

CommitPublishSection(h) ==
  /\ request[h].op = "SECTION"
  /\ section' = PublicCopy(h)
  /\ Finish(h)
  /\ UNCHANGED <<clock, bundles, saves, rule>>
-----------------------------------------------------------------------------
(* Document rules.                                                         *)

\* A second rule of the same identity collides on its unique key.
CreateRule(r, state) ==
  /\ rule[r] = "NONE"
  /\ rule' = [rule EXCEPT ![r] = state]
  /\ UNCHANGED <<clock, bundles, section, saves, request>>

\* The last base rule of a category is not switched off.
BeginUpdateRule(h, r, state) ==
  /\ rule[r] # "NONE"
  /\ (rule[r] = "ON" /\ state = "OFF" /\ r \in BaseRules)
       => \E q \in BaseRules \ {r} : rule[q] = "ON"
  /\ Begin(h, [op |-> "RULE", rule |-> r, state |-> state])
  /\ UNCHANGED <<clock, bundles, section, saves, rule>>

\* The update names the rule alone.
CommitUpdateRule(h) ==
  /\ request[h].op = "RULE"
  /\ rule' = [rule EXCEPT ![request[h].rule] = request[h].state]
  /\ Finish(h)
  /\ UNCHANGED <<clock, bundles, section, saves>>

\* The three do not touch one another.
PolicyNext ==
  \/ TimePasses
  \/ \E h \in Handlers :
       \/ \E v \in Versions, from \in 0..MaxClock + 1 : BeginPublish(h, v, from)
       \/ CommitPublish(h) \/ Fails(h)

SectionNext ==
  \/ SaveDraft
  \/ \E h \in Handlers :
       BeginPublishSection(h) \/ ReadTranslations(h) \/ CommitPublishSection(h) \/ Fails(h)

RuleNext ==
  \E r \in Rules, state \in {"ON", "OFF"} :
     \/ CreateRule(r, state)
     \/ \E h \in Handlers : BeginUpdateRule(h, r, state) \/ CommitUpdateRule(h) \/ Fails(h)

PublishingNext == PolicyNext \/ SectionNext \/ RuleNext

PublishingSpec == PublishingInit /\ [][PublishingNext]_publishingVars
-----------------------------------------------------------------------------
PublishingTypeOK ==
  /\ clock \in 1..MaxClock
  /\ bundles \in [Versions -> [from : 0..Open, until : 0..Open]]
  /\ section \in [schema : 0..MaxSaves, ar : 0..MaxSaves, en : 0..MaxSaves,
                  publicSchema : 0..MaxSaves, publicAr : 0..MaxSaves,
                  publicEn : 0..MaxSaves]
  /\ saves \in 0..MaxSaves
  /\ rule \in [Rules -> {"NONE", "ON", "OFF"}]

(***************************************************************************)
(* Once a bundle has come into force there is always one in force, and the *)
(* one dated last is among them: a bundle ends at the instant its          *)
(* successor takes effect, whatever that instant is and in whatever order  *)
(* publications of two administrators overlap (publish).  Customers could  *)
(* not submit in a gap.                                                    *)
(***************************************************************************)
AlwaysInForce ==
  \A t \in 1..MaxClock :
     LET begun == {v \in Stored : bundles[v].from <= t} IN
     begun # {} =>
       \E v \in InForce(t) : \A w \in begun : bundles[w].from <= bundles[v].from

(***************************************************************************)
(* The Arabic and the English copy a visitor reads come from one save of   *)
(* the draft, although publishing reads and writes them one after the      *)
(* other while drafts are saved and published beside it.                   *)
(***************************************************************************)
PublishedTogether == section.publicAr = section.publicEn
=============================================================================
