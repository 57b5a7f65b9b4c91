------------------------------- MODULE Outbox -------------------------------
(***************************************************************************)
(* The notification outbox: an event written with the business change is   *)
(* claimed by a worker, its notification delivered in the app, by e-mail   *)
(* and by browser push, and the event is marked processed, put off to the  *)
(* end of the quiet hours, tried again later, or given up.                 *)
(*                                                                         *)
(* Workers are processes: the flag that keeps two drains apart holds in    *)
(* one process only.  Every database call is a step of its own; a call may *)
(* fail before or after its commit, a provider may take a message and fail *)
(* to say so, and a process may stop anywhere.  What the customer's        *)
(* preferences ask for, and whether it is quiet, is the environment's      *)
(* choice at the step that reads it.                                       *)
(***************************************************************************)
EXTENDS Naturals, Sequences

CONSTANTS
  Events,       \* outbox rows; each was written with a notification of its own
  Workers,      \* processes that drain the outbox
  Channels,     \* those the events ask for
  Enabled,      \* the sets of channels a recipient may have enabled
  NoEvent,
  MaxAttempts   \* 8 in the code

ASSUME OutboxAssumption ==
  /\ NoEvent \notin Events
  /\ Channels \subseteq {"IN_APP", "EMAIL", "PUSH"}
  /\ Enabled \subseteq SUBSET Channels
  /\ MaxAttempts \in Nat \ {0}

VARIABLES
  event,       \* NotificationEvent.status
  attempts,    \* NotificationEvent.attempts
  named,       \* the payload names the notification of the event
  created,     \* the events written, oldest first
  ready,       \* those whose availableAt has come, in its order
  delivery,    \* per notification and channel, NotificationDelivery.status
  message,     \* what the provider has of it
  worker,      \* what each worker is doing
  stranded     \* events a worker left while they were PROCESSING

rowVars == <<event, attempts, ready>>
newVars == <<named, created>>
sendVars == <<delivery, message>>
outboxVars == <<rowVars, newVars, sendVars, worker, stranded>>

Idle == [step |-> "IDLE", event |-> NoEvent, note |-> NoEvent,
         owed |-> {}, todo |-> {}, failed |-> FALSE]

Steps == {"IDLE", "CLAIM", "LOAD", "CHANNELS", "SEND", "RETRY"}

Written == {created[i] : i \in DOMAIN created}

\* The notification deliveryContext finds for an event: the one named, or the
\* latest written for the same kind, reservation and recipient.
Finds(e, n) ==
  IF named[e] THEN n = e
  ELSE \E i \in DOMAIN created :
         /\ n = created[i] /\ ~named[n]
         /\ \A j \in DOMAIN created : named[created[j]] \/ j <= i

\* No other event is delivered with this notification.
Alone(n) == named[n] \/ \A m \in Written \ {n} : named[m]
-----------------------------------------------------------------------------
OutboxInit ==
  /\ event = [e \in Events |-> "NEW"]
  /\ attempts = [e \in Events |-> 0]
  /\ named = [e \in Events |-> FALSE]
  /\ created = <<>> /\ ready = <<>>
  /\ delivery = [n \in Events |-> [c \in Channels |-> "NONE"]]
  /\ message = [n \in Events |-> [c \in Channels |-> "UNSENT"]]
  /\ worker = [w \in Workers |-> Idle]
  /\ stranded = {}

\* A business transaction or a campaign writes an event, due at once.
Enqueue(e) ==
  /\ event[e] = "NEW"
  /\ event' = [event EXCEPT ![e] = "PENDING"]
  /\ \E x \in BOOLEAN : named' = [named EXCEPT ![e] = x]
  /\ created' = Append(created, e)
  /\ ready' = Append(ready, e)
  /\ UNCHANGED <<attempts, sendVars, worker, stranded>>

\* The delay of a retry is over, or the quiet hours are.
BecomesDue(e) ==
  /\ event[e] = "PENDING"
  /\ \A i \in DOMAIN ready : ready[i] # e
  /\ ready' = Append(ready, e)
  /\ UNCHANGED <<event, attempts, newVars, sendVars, worker, stranded>>

-----------------------------------------------------------------------------
(* Claiming an event.                                                      *)

Step(w, s) == worker' = [worker EXCEPT ![w].step = s]

ReadClaim(w) ==
  /\ worker[w] = Idle
  /\ \E e \in Events :
       /\ ready # <<>> /\ e = Head(ready)
       /\ worker' = [worker EXCEPT ![w].step = "CLAIM", ![w].event = e]
  /\ UNCHANGED <<rowVars, newVars, sendVars, stranded>>

\* The WHERE clause of the claim.  (Slip: by id.)
ClaimableById(e) == event[e] # "NEW"

Claimable(e) == event[e] \in {"PENDING", "FAILED"}

CommitClaim(w) ==
  LET e == worker[w].event IN
  /\ worker[w].step = "CLAIM"
  /\ IF Claimable(e)
     THEN /\ event' = [event EXCEPT ![e] = "PROCESSING"]
          /\ attempts' = [attempts EXCEPT ![e] = @ + 1]
          /\ ready' = SelectSeq(ready, LAMBDA x : x # e)
          /\ Step(w, "LOAD")
     ELSE /\ worker' = [worker EXCEPT ![w] = Idle]
          /\ UNCHANGED rowVars
  /\ UNCHANGED <<newVars, sendVars, stranded>>

\* What is asked for: the channels of the event the recipient has enabled, push
\* only while a browser is subscribed.
Load(w) ==
  /\ worker[w].step = "LOAD"
  /\ \E want \in Enabled, n \in Events :
       /\ Finds(worker[w].event, n)
       /\ worker' = [worker EXCEPT ![w].step = "CHANNELS", ![w].note = n,
                                   ![w].owed = want, ![w].todo = want]
  /\ UNCHANGED <<rowVars, newVars, sendVars, stranded>>
-----------------------------------------------------------------------------
(* One channel after the other.                                            *)

NextChannel(w) ==
  IF "IN_APP" \in worker[w].todo THEN "IN_APP"
  ELSE IF "EMAIL" \in worker[w].todo THEN "EMAIL" ELSE "PUSH"

Channel(w) == <<worker[w].note, NextChannel(w)>>

\* recordChannel: what is SENT is not sent again.  (Slip: it is.)
SkippedNever(status) == FALSE

Skipped(status) == status = "SENT"

Queue(w) ==
  LET n == Channel(w)[1]
      c == Channel(w)[2]
  IN
  /\ worker[w].step = "CHANNELS" /\ worker[w].todo # {}
  /\ IF Skipped(delivery[n][c])
     THEN worker' = [worker EXCEPT ![w].todo = @ \ {c}] /\ UNCHANGED delivery
     ELSE Step(w, "SEND") /\ delivery' = [delivery EXCEPT ![n][c] = "QUEUED"]
  /\ UNCHANGED <<rowVars, newVars, message, stranded>>

\* What a provider has once it has taken a message: a second copy of one it was
\* heard to take is one too many.  In the app there is no provider.
Taken(c, m) ==
  CASE c = "IN_APP"                      -> m
    [] c # "IN_APP" /\ m = "UNSENT"      -> "TAKEN"
    [] c # "IN_APP" /\ m = "TAKEN"       -> "REPEATED"
    [] OTHER                             -> m

\* It took the message and nobody knows.
Unheard(c, m) ==
  IF c = "IN_APP" \/ Taken(c, m) = "REPEATED" THEN Taken(c, m) ELSE "UNHEARD"

\* The failures drainOne counts: what recordChannel returns of the message in the
\* app is not looked at.
FailureCounts(c) == c # "IN_APP"

\* deliver and markDelivery.  The provider takes the message and SENT is
\* written; or it refuses (a subscription it does not know any more is dropped);
\* or it takes it and its answer or the mark is lost, which is marked like a
\* refusal.
Deliver(w) ==
  LET n == Channel(w)[1]
      c == Channel(w)[2]
      Outcome(status, m) ==
        /\ delivery' = [delivery EXCEPT ![n][c] = status]
        /\ message' = [message EXCEPT ![n][c] = m]
        /\ worker' = [worker EXCEPT ![w].step = "CHANNELS", ![w].todo = @ \ {c},
                         ![w].failed = @ \/ (status = "FAILED" /\ FailureCounts(c))]
  IN
  /\ worker[w].step = "SEND"
  /\ \/ Outcome("SENT", Taken(c, message[n][c]))
     \/ Outcome("FAILED", message[n][c])
     \/ Outcome("FAILED", Unheard(c, message[n][c]))
  /\ UNCHANGED <<rowVars, newVars, stranded>>
-----------------------------------------------------------------------------
(* How an attempt ends.                                                    *)

\* A claim that read its instant before the event was put off finds no row.
Release(w) ==
  worker' = [v \in Workers |->
    IF v = w \/ (worker[v].step = "CLAIM" /\ worker[v].event = worker[w].event)
    THEN Idle ELSE worker[v]]

\* It is quiet and a channel that makes a noise is still to come.
Defer(w) ==
  LET e == worker[w].event IN
  /\ worker[w].step = "CHANNELS"
  /\ worker[w].todo # {} /\ worker[w].todo = worker[w].owed \ {"IN_APP"}
  /\ event' = [event EXCEPT ![e] = "PENDING"]
  /\ attempts' = [attempts EXCEPT ![e] = @ - 1]
  /\ Release(w)
  /\ UNCHANGED <<ready, newVars, sendVars, stranded>>

\* Every channel has been gone through.  (Slip: with or without success.)
AllSentOrTried(w) == worker[w].step = "CHANNELS" /\ worker[w].todo = {}

AllSent(w) ==
  worker[w].step = "CHANNELS" /\ worker[w].todo = {} /\ ~worker[w].failed

Complete(w) ==
  /\ AllSent(w)
  /\ event' = [event EXCEPT ![worker[w].event] = "PROCESSED"]
  /\ worker' = [worker EXCEPT ![w] = Idle]
  /\ UNCHANGED <<attempts, ready, newVars, sendVars, stranded>>

\* The answer to that commit is lost: the event is tried again.
CompleteUnheard(w) ==
  /\ AllSent(w)
  /\ event' = [event EXCEPT ![worker[w].event] = "PROCESSED"]
  /\ Step(w, "RETRY")
  /\ UNCHANGED <<attempts, ready, newVars, sendVars, stranded>>

\* A channel that counts failed, or a call of the database did.
Throw(w) ==
  /\ worker[w].step \in {"LOAD", "CHANNELS"}
  /\ Step(w, "RETRY")
  /\ UNCHANGED <<rowVars, newVars, sendVars, stranded>>

\* Neither mark of a channel could be written.
MarksFail(w) ==
  LET n == Channel(w)[1]
      c == Channel(w)[2]
  IN
  /\ worker[w].step = "SEND"
  /\ message' \in {message, [message EXCEPT ![n][c] = Unheard(c, @)]}
  /\ Step(w, "RETRY")
  /\ UNCHANGED <<rowVars, newVars, delivery, stranded>>

\* (Slip: the status is not put back.)
AfterFailureKept(e) == IF attempts[e] >= MaxAttempts THEN "FAILED" ELSE "PROCESSING"

AfterFailure(e) == IF attempts[e] >= MaxAttempts THEN "FAILED" ELSE "PENDING"

Retry(w) ==
  LET e == worker[w].event IN
  /\ worker[w].step = "RETRY"
  /\ event' = [event EXCEPT ![e] = AfterFailure(e)]
  /\ Release(w)
  /\ UNCHANGED <<attempts, ready, newVars, sendVars, stranded>>

\* The process stops, or the write that would retry the event fails.
Leave(w) ==
  LET n == Channel(w)[1]
      c == Channel(w)[2]
  IN
  /\ worker[w].step \notin {"IDLE", "CLAIM"}
  /\ worker' = [worker EXCEPT ![w] = Idle]
  /\ stranded' = stranded \cup {worker[w].event}
  /\ message' \in {message} \cup
       IF worker[w].step = "SEND" THEN {[message EXCEPT ![n][c] = Unheard(c, @)]} ELSE {}
  /\ UNCHANGED <<rowVars, newVars, delivery>>

Drain(w) ==
  \/ ReadClaim(w) \/ CommitClaim(w) \/ Load(w) \/ Queue(w) \/ Deliver(w)
  \/ Complete(w) \/ Retry(w)

Mishap(w) == CompleteUnheard(w) \/ Throw(w) \/ MarksFail(w) \/ Leave(w)

OutboxNext ==
  \/ \E e \in Events : Enqueue(e) \/ BecomesDue(e)
  \/ \E w \in Workers : Drain(w) \/ Defer(w) \/ Mishap(w)

\* The first channel outside the app: it is not quiet.
QueueOutside(w) == NextChannel(w) # "IN_APP" /\ Queue(w)

\* A process that does not stop goes on with its event; delays end; an attempt
\* is not put off for ever, because the quiet hours end.
OutboxFairness ==
  /\ \A e \in Events : WF_outboxVars(BecomesDue(e))
  /\ \A w \in Workers :
       /\ WF_outboxVars(ReadClaim(w)) /\ WF_outboxVars(CommitClaim(w))
       /\ WF_outboxVars(Load(w)) /\ WF_outboxVars(Queue(w)) /\ SF_outboxVars(QueueOutside(w))
       /\ WF_outboxVars(Deliver(w)) /\ WF_outboxVars(Retry(w))
       /\ WF_outboxVars(Complete(w) \/ Throw(w))

OutboxSpec == OutboxInit /\ [][OutboxNext]_outboxVars /\ OutboxFairness
-----------------------------------------------------------------------------
OutboxTypeOK ==
  /\ event \in [Events -> {"NEW", "PENDING", "PROCESSING", "PROCESSED", "FAILED"}]
  /\ attempts \in [Events -> 0..MaxAttempts]
  /\ named \in [Events -> BOOLEAN]
  /\ created \in Seq(Events) /\ ready \in Seq(Events)
  /\ delivery \in [Events -> [Channels -> {"NONE", "QUEUED", "SENT", "FAILED"}]]
  /\ message \in [Events -> [Channels -> {"UNSENT", "TAKEN", "UNHEARD", "REPEATED"}]]
  /\ worker \in [Workers -> [step : Steps, event : Events \cup {NoEvent},
        note : Events \cup {NoEvent}, owed : SUBSET Channels,
        todo : SUBSET Channels, failed : BOOLEAN]]
  /\ stranded \subseteq Events

Working(w) == worker[w].step \notin {"IDLE", "CLAIM"}

(***************************************************************************)
(* An event is in the hands of one worker at a time, however many          *)
(* processes drain the outbox: the conditional update of claimNextEvent    *)
(* decides.                                                                *)
(***************************************************************************)
OneWorkerPerEvent ==
  \A v, w \in Workers :
     v # w /\ Working(v) /\ Working(w) => worker[v].event # worker[w].event

(***************************************************************************)
(* A provider is given a message again only if it had taken it without the *)
(* worker hearing of it or being able to write that down: a retry for the  *)
(* sake of another channel repeats nothing (recordChannel).  Said of       *)
(* notifications that one event delivers.                                  *)
(***************************************************************************)
RepeatedOnlyUnheard ==
  \A n \in Events, c \in Channels : message[n][c] = "REPEATED" => ~Alone(n)

(***************************************************************************)
(* An event is only marked processed once every channel outside the app    *)
(* that the recipient had enabled says SENT, whatever was retried, put     *)
(* off or left half done before.  The row of the message in the app may    *)
(* still say FAILED: drainOne does not look at what became of it.          *)
(***************************************************************************)
ProcessedIsDelivered ==
  [][\A w \in Workers :
       LET e == worker[w].event
           n == worker[w].note
       IN worker[w].step = "CHANNELS" /\ event[e] # "PROCESSED"
             /\ event'[e] = "PROCESSED" /\ Alone(n)
          => \A c \in worker[w].owed \ {"IN_APP"} : delivery[n][c] = "SENT"]_outboxVars

(***************************************************************************)
(* Every event is settled: processed, or given up after its last attempt,  *)
(* unless the process working on it stopped, after which no claim looks at *)
(* it again.                                                               *)
(***************************************************************************)
EventSettles ==
  \A e \in Events :
     event[e] = "PENDING" ~> event[e] \in {"PROCESSED", "FAILED"} \/ e \in stranded
=============================================================================
