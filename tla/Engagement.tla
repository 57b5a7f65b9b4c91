----------------------------- MODULE Engagement -----------------------------
(***************************************************************************)
(* What passes between the office and its customers besides the rentals:   *)
(* the review a customer may leave of a completed rental and its           *)
(* moderation, campaigns and who may get one, and the notification list    *)
(* with its read marks.                                                    *)
(*                                                                         *)
(* A request reads in one step and commits in a later one.                 *)
(*                                                                         *)
(* A definition marked "Slip" is no part of the model: it is a plausible   *)
(* mistake in the definition after it, kept to show which property would   *)
(* catch it.                                                               *)
(***************************************************************************)
EXTENDS Requests, Naturals, FiniteSets

CONSTANTS
  Customers,
  Campaigns,       \* those the office may create; each asks for the app's list
  MaxInstant       \* bound: instants told apart by read marks

ASSUME EngagementAssumption == IsFiniteSet(Handlers) /\ MaxInstant \in Nat \ {0}

VARIABLES
  completed,   \* the customer's rental is completed
  review,      \* Review.status of the customer's rental
  optedIn,     \* NotificationPreference.marketingEnabled
  campaign,    \* the marketing campaigns: not created, created, archived
  reached,     \* per customer, those created for it in the last seven days
  note,        \* per customer and campaign, Notification: NONE, the list, archived
  readAt,      \* Notification.readAt, 0 for null
  instant      \* the present instant

reviewVars == <<completed, review>>
campaignVars == <<optedIn, campaign, reached>>
listVars == <<note, readAt, instant>>
engagementVars == <<reviewVars, campaignVars, listVars, request>>

EngagementInit ==
  /\ completed = [c \in Customers |-> FALSE]
  /\ review = [c \in Customers |-> "NONE"]
  /\ optedIn \in [Customers -> BOOLEAN]
  /\ campaign = [k \in Campaigns |-> "NONE"]
  /\ reached = [c \in Customers |-> 0]
  /\ note = [c \in Customers |-> [k \in Campaigns |-> "NONE"]]
  /\ readAt = [c \in Customers |-> [k \in Campaigns |-> 0]]
  /\ instant = 1
  /\ RequestInit

\* The process stops or the database refuses: nothing is committed.
BreaksOff(h) ==
  /\ request[h] # NoRequest
  /\ Finish(h)
  /\ UNCHANGED <<reviewVars, campaignVars, listVars>>
-----------------------------------------------------------------------------
(* Reviews.                                                                *)

CompleteRental(c) ==
  /\ ~completed[c]
  /\ completed' = [completed EXCEPT ![c] = TRUE]
  /\ UNCHANGED <<review, campaignVars, listVars, request>>

MayReview(c) == completed[c] /\ review[c] = "NONE"

BeginReview(h, c) ==
  /\ MayReview(c)
  /\ Begin(h, [op |-> "REVIEW", customer |-> c])
  /\ UNCHANGED <<reviewVars, campaignVars, listVars>>

\* A rental has one review: a second row collides on the unique key.
CommitReview(h) ==
  LET c == request[h].customer IN
  /\ request[h].op = "REVIEW"
  /\ MayReview(c)
  /\ review' = [review EXCEPT ![c] = "PENDING"]
  /\ Finish(h)
  /\ UNCHANGED <<completed, campaignVars, listVars>>

BeginModerate(h, c, verdict) ==
  /\ review[c] = "PENDING"
  /\ Begin(h, [op |-> "MODERATE", customer |-> c, verdict |-> verdict])
  /\ UNCHANGED <<reviewVars, campaignVars, listVars>>

\* The WHERE clause of the moderation.
Moderatable(c) == review[c] = "PENDING"

CommitModerate(h) ==
  LET c == request[h].customer IN
  /\ request[h].op = "MODERATE"
  /\ Moderatable(c)
  /\ review' = [review EXCEPT ![c] = request[h].verdict]
  /\ Finish(h)
  /\ UNCHANGED <<completed, campaignVars, listVars>>
-----------------------------------------------------------------------------
(* Campaigns.                                                              *)

SetOptIn(c, x) ==
  /\ optedIn[c] # x
  /\ optedIn' = [optedIn EXCEPT ![c] = x]
  /\ UNCHANGED <<reviewVars, campaign, reached, listVars, request>>

\* Who may get a marketing campaign.  (Slip: whoever opted in.)
RecipientsEveryTime == {c \in Customers : optedIn[c]}

Recipients == {c \in Customers : optedIn[c] /\ reached[c] = 0}

\* Everybody, or one customer looked up by id.
BeginCampaign(h, k, to) ==
  /\ campaign[k] = "NONE"
  /\ to # {} /\ (to = Recipients \/ \E c \in Recipients : to = {c})
  /\ Begin(h, [op |-> "CAMPAIGN", campaign |-> k, to |-> to])
  /\ UNCHANGED <<reviewVars, campaignVars, listVars>>

\* The campaign, a notification and an outbox event for each are one transaction.
CommitCampaign(h) ==
  LET k == request[h].campaign
      to == request[h].to
  IN
  /\ request[h].op = "CAMPAIGN"
  /\ campaign[k] = "NONE"
  /\ campaign' = [campaign EXCEPT ![k] = "CREATED"]
  /\ reached' = [c \in Customers |-> reached[c] + IF c \in to THEN 1 ELSE 0]
  /\ note' = [c \in Customers |-> [note[c] EXCEPT ![k] = IF c \in to THEN "LISTED" ELSE @]]
  /\ Finish(h)
  /\ UNCHANGED <<reviewVars, optedIn, readAt, instant>>

\* The oldest campaign of a customer is seven days old.
WeekPasses(c) ==
  /\ reached[c] > 0
  /\ reached' = [reached EXCEPT ![c] = @ - 1]
  /\ UNCHANGED <<reviewVars, optedIn, campaign, listVars, request>>

ArchiveCampaign(k) ==
  /\ campaign[k] = "CREATED"
  /\ campaign' = [campaign EXCEPT ![k] = "ARCHIVED"]
  /\ note' = [c \in Customers |->
       [note[c] EXCEPT ![k] = IF @ = "LISTED" THEN "ARCHIVED" ELSE @]]
  /\ UNCHANGED <<reviewVars, optedIn, reached, readAt, instant, request>>
-----------------------------------------------------------------------------
(* The notification list.                                                  *)

InstantPasses ==
  /\ instant < MaxInstant /\ instant' = instant + 1
  /\ UNCHANGED <<reviewVars, campaignVars, note, readAt, request>>

\* markRead reads the row; one that is read already is answered as it is.
BeginRead(h, c, k) ==
  /\ note[c][k] = "LISTED" /\ readAt[c][k] = 0
  /\ Begin(h, [op |-> "READ", customer |-> c, campaign |-> k, at |-> instant])
  /\ UNCHANGED <<reviewVars, campaignVars, listVars>>

\* The WHERE clause of the mark.
Markable(c, k) == note[c][k] = "LISTED" /\ readAt[c][k] = 0

CommitRead(h) ==
  LET c == request[h].customer
      k == request[h].campaign
  IN
  /\ request[h].op = "READ"
  /\ readAt' = [readAt EXCEPT ![c][k] = IF Markable(c, k) THEN request[h].at ELSE @]
  /\ Finish(h)
  /\ UNCHANGED <<reviewVars, campaignVars, note, instant>>

MarkAllRead(c) ==
  /\ readAt' = [readAt EXCEPT ![c] =
       [k \in Campaigns |-> IF Markable(c, k) THEN instant ELSE readAt[c][k]]]
  /\ UNCHANGED <<reviewVars, campaignVars, note, instant, request>>

ReviewNext ==
  \E c \in Customers :
     \/ CompleteRental(c)
     \/ \E h \in Handlers :
          \/ BeginReview(h, c) \/ CommitReview(h) \/ CommitModerate(h) \/ BreaksOff(h)
          \/ \E verdict \in {"APPROVED", "REJECTED"} : BeginModerate(h, c, verdict)

CampaignNext ==
  \/ \E c \in Customers :
       \/ WeekPasses(c) \/ MarkAllRead(c)
       \/ \E x \in BOOLEAN : SetOptIn(c, x)
  \/ \E k \in Campaigns : ArchiveCampaign(k)
  \/ InstantPasses
  \/ \E h \in Handlers :
       \/ \E k \in Campaigns, to \in SUBSET Customers : BeginCampaign(h, k, to)
       \/ \E k \in Campaigns, c \in Customers : BeginRead(h, c, k)
       \/ CommitCampaign(h) \/ CommitRead(h) \/ BreaksOff(h)

EngagementNext == ReviewNext \/ CampaignNext

EngagementSpec == EngagementInit /\ [][EngagementNext]_engagementVars
-----------------------------------------------------------------------------
EngagementTypeOK ==
  /\ completed \in [Customers -> BOOLEAN]
  /\ review \in [Customers -> {"NONE", "PENDING", "APPROVED", "REJECTED"}]
  /\ optedIn \in [Customers -> BOOLEAN]
  /\ campaign \in [Campaigns -> {"NONE", "CREATED", "ARCHIVED"}]
  /\ reached \in [Customers -> Nat]
  /\ note \in [Customers -> [Campaigns -> {"NONE", "LISTED", "ARCHIVED"}]]
  /\ readAt \in [Customers -> [Campaigns -> 0..MaxInstant]]
  /\ instant \in 1..MaxInstant

(***************************************************************************)
(* Whoever got a marketing campaign gets no other for seven days, except   *)
(* one whose recipients were read before that campaign was created: at     *)
(* most one for every request in flight (createCampaign).                  *)
(***************************************************************************)
WeeklyCap == \A c \in Customers : reached[c] <= Cardinality(Handlers)
=============================================================================
