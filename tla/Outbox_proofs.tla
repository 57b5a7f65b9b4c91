---------------------------- MODULE Outbox_proofs ----------------------------
(***************************************************************************)
(* Proofs about Outbox, for any number of events and workers and whatever  *)
(* fails: the safety of claiming, sending and marking, none of which needs *)
(* fairness.                                                               *)
(***************************************************************************)
EXTENDS Outbox, SequenceTheorems, TLAPS

EventStatuses == {"NEW", "PENDING", "PROCESSING", "PROCESSED", "FAILED"}
Deliveries == {"NONE", "QUEUED", "SENT", "FAILED"}
Messages == {"UNSENT", "TAKEN", "UNHEARD", "REPEATED"}

Works == [step : Steps, event : Events \cup {NoEvent}, note : Events \cup {NoEvent},
          owed : SUBSET Channels, todo : SUBSET Channels, failed : BOOLEAN]

\* The types the proofs need.
Typed ==
  /\ event \in [Events -> EventStatuses]
  /\ named \in [Events -> BOOLEAN]
  /\ created \in Seq(Events)
  /\ delivery \in [Events -> [Channels -> Deliveries]]
  /\ message \in [Events -> [Channels -> Messages]]
  /\ worker \in [Workers -> Works]

\* Exactly the events that are not new have been written.
WrittenOnce == \A e \in Events : event[e] = "NEW" <=> e \notin Written

Sending(w) == worker[w].step \in {"CHANNELS", "SEND"}

\* Nobody claims what a worker has in hand; only one whose completion went
\* unheard still holds an event that is processed.
InHand ==
  /\ \A w \in Workers : worker[w].step # "IDLE" => worker[w].event \in Events
  /\ \A w \in Workers : Working(w) =>
       \/ event[worker[w].event] = "PROCESSING"
       \/ event[worker[w].event] = "PROCESSED" /\ worker[w].step = "RETRY"
  /\ OneWorkerPerEvent

\* A notification that one event delivers is in the hands of one worker.
NoteInHand ==
  \A w \in Workers : Sending(w) =>
    /\ worker[w].note \in Written
    /\ Alone(worker[w].note) => worker[w].note = worker[w].event
    /\ worker[w].step = "SEND" => NextChannel(w) \in worker[w].todo

\* What is off the list of a worker whom nothing failed that counts says SENT.
GoneThrough ==
  \A w \in Workers : Sending(w) /\ ~worker[w].failed /\ Alone(worker[w].note) =>
    \A c \in (worker[w].owed \ {"IN_APP"}) \ worker[w].todo :
       delivery[worker[w].note][c] = "SENT"

\* What the provider was heard to take says SENT, and is not about to be sent.
HeardIsSent ==
  /\ \A n \in Events, c \in Channels :
       /\ message[n][c] # "UNSENT" => n \in Written
       /\ message[n][c] = "TAKEN" /\ Alone(n) => delivery[n][c] = "SENT"
  /\ \A w \in Workers : worker[w].step = "SEND" /\ Alone(worker[w].note) =>
       message[worker[w].note][NextChannel(w)] # "TAKEN"

Inv == /\ Typed /\ WrittenOnce /\ InHand /\ NoteInHand
       /\ GoneThrough /\ HeardIsSent /\ RepeatedOnlyUnheard
-----------------------------------------------------------------------------
LEMMA NextIsTodo ==
  ASSUME Typed, NEW w \in Workers, worker[w].todo # {}
  PROVE  NextChannel(w) \in worker[w].todo /\ NextChannel(w) \in Channels
<1>1. worker[w].todo \subseteq Channels
  BY DEF Typed, Works
<1>2. PICK c \in worker[w].todo : TRUE
  OBVIOUS
<1>3. c \in {"IN_APP", "EMAIL", "PUSH"}
  BY <1>1, OutboxAssumption
<1>4. NextChannel(w) \in worker[w].todo
  BY <1>3 DEF NextChannel
<1> QED BY <1>1, <1>4

\* Two workers never send one notification that one event delivers.
LEMMA SoleSender ==
  ASSUME Inv, NEW v \in Workers, NEW w \in Workers, v # w,
         Sending(v), Sending(w), Alone(worker[w].note)
  PROVE  worker[v].note # worker[w].note
<1>1. Working(v) /\ Working(w)
  BY DEF Sending, Working
<1> QED BY <1>1 DEF Inv, InHand, NoteInHand, OneWorkerPerEvent

\* The provider may have taken what worker w is about to send, unheard.
MayBeTaken(w) ==
  \/ UNCHANGED message
  \/ /\ worker[w].step = "SEND"
     /\ message' = [message EXCEPT ![worker[w].note][NextChannel(w)] = Unheard(NextChannel(w), @)]

LEMMA TakenUnheard ==
  ASSUME Inv, NEW w \in Workers, MayBeTaken(w), UNCHANGED <<named, created>>
  PROVE  /\ message' \in [Events -> [Channels -> Messages]]
         /\ \A n \in Events, c \in Channels :
              /\ message'[n][c] # "UNSENT" => n \in Written
              /\ message'[n][c] = "TAKEN" => message[n][c] = "TAKEN"
         /\ RepeatedOnlyUnheard'
<1>1. CASE UNCHANGED message
  BY <1>1 DEF Inv, Typed, HeardIsSent, RepeatedOnlyUnheard, Alone, Written
<1>2. CASE ~ UNCHANGED message
  <2> DEFINE n == worker[w].note
             c == NextChannel(w)
             m == message[n][c]
  <2>1. Sending(w) /\ worker[w].step = "SEND"
    BY <1>2 DEF MayBeTaken, Sending
  <2>2. n \in Written /\ c \in Channels
    BY <2>1 DEF Inv, NoteInHand, Typed, Works
  <2>3. n \in Events
    BY <2>2, LenProperties, ElementOfSeq DEF Inv, Typed, Written
  <2>4. m \in Messages /\ message \in [Events -> [Channels -> Messages]]
    BY <2>2, <2>3 DEF Inv, Typed
  <2>5. /\ Unheard(c, m) \in Messages
        /\ Unheard(c, m) = m \/ Unheard(c, m) \in {"UNHEARD", "REPEATED"}
        /\ (Unheard(c, m) = "REPEATED" => m \in {"TAKEN", "REPEATED"})
    BY <2>4 DEF Unheard, Taken, Messages
  <2>6. Alone(n) => m \notin {"TAKEN", "REPEATED"}
    BY <2>1, <2>2, <2>3 DEF Inv, HeardIsSent, RepeatedOnlyUnheard
  <2>7. message' = [message EXCEPT ![n] = [message[n] EXCEPT ![c] = Unheard(c, m)]]
    BY <1>2 DEF MayBeTaken
  <2>8. \A x \in Events, y \in Channels :
          message'[x][y] = IF x = n /\ y = c THEN Unheard(c, m) ELSE message[x][y]
    BY <2>2, <2>3, <2>4, <2>7
  <2>9. message' \in [Events -> [Channels -> Messages]]
    BY <2>2, <2>3, <2>4, <2>5, <2>7 DEF Messages
  <2>10. RepeatedOnlyUnheard'
    <3> SUFFICES ASSUME NEW x \in Events, NEW y \in Channels, message'[x][y] = "REPEATED"
                 PROVE  ~ Alone(x)
      BY DEF RepeatedOnlyUnheard, Alone, Written
    <3> QED BY <2>5, <2>6, <2>8 DEF Inv, RepeatedOnlyUnheard
  <2>11. \A x \in Events, y \in Channels :
           /\ message'[x][y] # "UNSENT" => x \in Written
           /\ message'[x][y] = "TAKEN" => message[x][y] = "TAKEN"
    <3>1. m # "UNSENT" => n \in Written
      BY <2>2
    <3> QED BY <2>2, <2>5, <2>8, <3>1 DEF Inv, HeardIsSent
  <2> QED BY <2>9, <2>10, <2>11
<1> QED BY <1>1, <1>2
-----------------------------------------------------------------------------
\* However an attempt ends: done, put off, failed, or with the process.  The
\* worker lets go of its event, or goes on to retry it; others who only meant
\* to claim it may lose it.
Ends(w) ==
  /\ UNCHANGED <<named, created, delivery>>
  /\ MayBeTaken(w)
  /\ \/ worker'[w] = Idle
     \/ Working(w) /\ worker'[w] = [worker[w] EXCEPT !.step = "RETRY"]
  /\ \A v \in Workers \ {w} : worker'[v] \in {worker[v], Idle}
  /\ \/ UNCHANGED event
     \/ /\ Working(w)
        /\ \E s \in EventStatuses \ {"NEW"} :
             /\ event' = [event EXCEPT ![worker[w].event] = s]
             /\ worker'[w] = Idle \/ s = "PROCESSED"

LEMMA EndsKeeps ==
  ASSUME Inv, NEW w \in Workers, worker[w].step # "IDLE", Ends(w),
         worker' \in [Workers -> Works]
  PROVE  Inv'
<1> DEFINE e == worker[w].event
<1>1. e \in Events
  BY DEF Inv, InHand
<1>2. /\ \A n : Alone(n)' <=> Alone(n)
      /\ Written' = Written
  BY DEF Ends, Alone, Written
<1>3. Typed'
  BY <1>1, TakenUnheard DEF Ends, Inv, Typed
<1>4. \A f \in Events : f # e => event'[f] = event[f]
  BY <1>1 DEF Ends, Inv, Typed
<1>5. WrittenOnce'
  <2>1. Working(w) => event[e] # "NEW"
    BY DEF Inv, InHand
  <2>2. \A f \in Events : event'[f] = "NEW" <=> event[f] = "NEW"
    BY <1>1, <2>1 DEF Ends, Inv, Typed
  <2> QED BY <1>2, <2>2 DEF Inv, WrittenOnce
<1>6. \A v \in Workers : /\ worker'[v].step # "IDLE" => worker'[v].event = worker[v].event
                                                       /\ worker[v].step # "IDLE"
                         /\ Working(v)' => Working(v)
                         /\ Working(v)' /\ v # w => worker'[v] = worker[v]
                         /\ Sending(v)' => v # w /\ worker'[v] = worker[v]
  <2>1. worker \in [Workers -> Works]
    BY DEF Inv, Typed
  <2> QED BY <2>1 DEF Ends, Working, Sending, Idle, Works
<1>7. InHand'
  <2>1. \A v \in Workers : worker'[v].step # "IDLE" => worker'[v].event \in Events
    BY <1>6 DEF Inv, InHand
  <2>2. OneWorkerPerEvent'
    <3> SUFFICES ASSUME NEW u \in Workers, NEW v \in Workers,
                        u # v, Working(u)', Working(v)'
                 PROVE  worker'[u].event # worker'[v].event
      BY DEF OneWorkerPerEvent
    <3>1. worker'[u].event = worker[u].event /\ worker'[v].event = worker[v].event
      BY <1>6 DEF Working
    <3> QED BY <1>6, <3>1 DEF Inv, InHand, OneWorkerPerEvent
  <2>3. ASSUME NEW v \in Workers, Working(v)'
        PROVE  \/ event'[worker'[v].event] = "PROCESSING"
               \/ event'[worker'[v].event] = "PROCESSED" /\ worker'[v].step = "RETRY"
    <3>1. CASE v # w
      <4>1. worker'[v] = worker[v] /\ Working(v) /\ worker[v].event \in Events
        BY <1>6, <2>3, <3>1 DEF Inv, InHand, Working
      <4>2. CASE Working(w)
        <5>1. worker[v].event # e
          BY <3>1, <4>1, <4>2 DEF Inv, InHand, OneWorkerPerEvent
        <5> QED BY <1>4, <4>1, <5>1 DEF Inv, InHand
      <4>3. CASE ~ Working(w)
        BY <4>1, <4>3 DEF Ends, Inv, InHand
      <4> QED BY <4>2, <4>3
    <3>2. CASE v = w
      <4>1. worker'[w] # Idle
        BY <2>3, <3>2 DEF Working, Idle
      <4>2. worker'[w] = [worker[w] EXCEPT !.step = "RETRY"] /\ Working(w)
        BY <4>1 DEF Ends
      <4>3. worker'[w].event = e /\ worker'[w].step = "RETRY"
        BY <4>2 DEF Inv, Typed, Works
      <4>4. event'[e] \in {"PROCESSING", "PROCESSED"}
        BY <1>1, <4>1, <4>2 DEF Ends, Inv, InHand, Typed
      <4> QED BY <3>2, <4>3, <4>4
    <3> QED BY <3>1, <3>2
  <2> QED BY <2>1, <2>2, <2>3 DEF InHand
<1>8. NoteInHand'
  <2> SUFFICES ASSUME NEW v \in Workers, Sending(v)'
               PROVE  /\ worker'[v].note \in Written
                      /\ Alone(worker'[v].note) => worker'[v].note = worker'[v].event
                      /\ worker'[v].step = "SEND" => NextChannel(v)' \in worker'[v].todo
    BY <1>2 DEF NoteInHand
  <2>1. worker'[v] = worker[v]
    BY <1>6
  <2>2. Sending(v) /\ NextChannel(v)' = NextChannel(v)
    BY <2>1 DEF Sending, NextChannel
  <2> QED BY <2>1, <2>2 DEF Inv, NoteInHand
<1>9. GoneThrough'
  <2> SUFFICES ASSUME NEW v \in Workers, Sending(v)', ~worker'[v].failed, Alone(worker'[v].note)
               PROVE  \A c \in (worker'[v].owed \ {"IN_APP"}) \ worker'[v].todo :
                        delivery'[worker'[v].note][c] = "SENT"
    BY <1>2 DEF GoneThrough
  <2>1. worker'[v] = worker[v] /\ Sending(v) /\ delivery' = delivery
    BY <1>6 DEF Sending, Ends
  <2> QED BY <2>1 DEF Inv, GoneThrough
<1>10. HeardIsSent'
  <2>1. ASSUME NEW n \in Events, NEW c \in Channels
        PROVE  /\ message'[n][c] # "UNSENT" => n \in Written
               /\ message'[n][c] = "TAKEN" /\ Alone(n) => delivery'[n][c] = "SENT"
    BY TakenUnheard DEF Ends, Inv, HeardIsSent
  <2>2. ASSUME NEW v \in Workers, worker'[v].step = "SEND", Alone(worker'[v].note)
        PROVE  message'[worker'[v].note][NextChannel(v)'] # "TAKEN"
    <3>1. worker'[v] = worker[v] /\ Sending(v)
      BY <1>6, <2>2 DEF Sending
    <3>2. NextChannel(v)' = NextChannel(v)
      BY <3>1 DEF NextChannel
    <3>3. worker[v].note \in Events /\ NextChannel(v) \in Channels
      BY <2>2, <3>1, LenProperties, ElementOfSeq DEF Inv, NoteInHand, Typed, Works, Written
    <3>4. message[worker[v].note][NextChannel(v)] # "TAKEN"
      BY <2>2, <3>1 DEF Inv, HeardIsSent
    <3> QED BY <3>1, <3>2, <3>3, <3>4, TakenUnheard DEF Ends
  <2> QED BY <1>2, <2>1, <2>2 DEF HeardIsSent
<1>11. RepeatedOnlyUnheard'
  BY TakenUnheard DEF Ends
<1> QED BY <1>3, <1>5, <1>7, <1>8, <1>9, <1>10, <1>11 DEF Inv
-----------------------------------------------------------------------------
\* Whatever leaves deliveries and messages alone, and the workers who send,
\* keeps what is said of them, while no notification gets to have one event.
LEMMA SendersKept ==
  ASSUME Inv, UNCHANGED <<delivery, message>>,
         Written \subseteq Written',
         \A n \in Written : Alone(n)' => Alone(n),
         \A v \in Workers : Sending(v)' => worker'[v] = worker[v]
  PROVE  /\ NoteInHand' /\ GoneThrough' /\ HeardIsSent' /\ RepeatedOnlyUnheard'
<1>1. \A v \in Workers : Sending(v)' =>
         Sending(v) /\ NextChannel(v)' = NextChannel(v) /\ worker[v].note \in Written
  BY DEF Sending, NextChannel, Inv, NoteInHand
<1>2. NoteInHand'
  BY <1>1 DEF NoteInHand, Inv
<1>3. GoneThrough'
  BY <1>1 DEF GoneThrough, Inv
<1>4. HeardIsSent'
  <2>1. ASSUME NEW n \in Events, NEW c \in Channels
        PROVE  /\ message'[n][c] # "UNSENT" => n \in Written'
               /\ message'[n][c] = "TAKEN" /\ Alone(n)' => delivery'[n][c] = "SENT"
    BY DEF Inv, HeardIsSent
  <2>2. ASSUME NEW v \in Workers, worker'[v].step = "SEND", Alone(worker[v].note)',
               worker'[v] = worker[v]
        PROVE  message[worker[v].note][NextChannel(v)] # "TAKEN"
    BY <2>2 DEF Inv, HeardIsSent, NoteInHand, Sending
  <2>3. ASSUME NEW v \in Workers, worker'[v].step = "SEND", Alone(worker[v].note)'
        PROVE  /\ message'[worker'[v].note][NextChannel(v)'] # "TAKEN"
    BY <1>1, <2>2, <2>3 DEF Sending
  <2> QED BY <2>1, <2>3, <1>1 DEF HeardIsSent, Sending
<1>5. RepeatedOnlyUnheard'
  BY DEF RepeatedOnlyUnheard, Inv, HeardIsSent
<1> QED BY <1>2, <1>3, <1>4, <1>5

LEMMA EnqueueKeeps ==
  ASSUME Inv, NEW e \in Events, Enqueue(e)
  PROVE  Inv'
<1>1. created' = Append(created, e) /\ created' \in Seq(Events)
  BY AppendProperties DEF Enqueue, Inv, Typed
<1>2. Written' = Written \cup {e}
  <2>1. /\ DOMAIN created = 1..Len(created) /\ Len(created) \in Nat
        /\ DOMAIN created' = 1..(Len(created) + 1)
    BY <1>1, LenProperties, AppendProperties DEF Inv, Typed
  <2>2. \A i \in DOMAIN created : created'[i] = created[i]
    BY <1>1, <2>1, AppendProperties DEF Inv, Typed
  <2>3. created'[Len(created) + 1] = e
    BY <1>1, <2>1, AppendProperties DEF Inv, Typed
  <2> QED BY <2>1, <2>2, <2>3 DEF Written
<1>3. e \notin Written /\ event[e] = "NEW"
  BY DEF Enqueue, Inv, WrittenOnce
<1>4. /\ \A f \in Events \ {e} : named'[f] = named[f] /\ event'[f] = event[f]
      /\ event'[e] = "PENDING"
  BY DEF Enqueue, Inv, Typed
<1>5. Written \subseteq Events
  BY LenProperties, ElementOfSeq DEF Inv, Typed, Written
<1>6. \A n \in Written : Alone(n)' => Alone(n)
  BY <1>2, <1>3, <1>4, <1>5 DEF Alone
<1>7. Typed'
  BY <1>1 DEF Enqueue, Inv, Typed, EventStatuses, sendVars
<1>8. WrittenOnce'
  BY <1>2, <1>3, <1>4 DEF Inv, WrittenOnce
<1>9. UNCHANGED <<delivery, message, worker>>
  BY DEF Enqueue, sendVars
<1>10. InHand'
  <2>1. OneWorkerPerEvent'
    BY <1>9 DEF Inv, InHand, OneWorkerPerEvent, Working
  <2>2. \A w \in Workers : Working(w) => worker[w].event # e /\ worker[w].event \in Events
    BY <1>3 DEF Inv, InHand, Working
  <2> QED BY <1>4, <1>9, <2>1, <2>2 DEF Inv, InHand, Working
<1>11. NoteInHand' /\ GoneThrough' /\ HeardIsSent' /\ RepeatedOnlyUnheard'
  <2>1. Written \subseteq Written' /\ (\A v \in Workers : Sending(v)' => worker'[v] = worker[v])
    BY <1>2, <1>9
  <2> QED BY <1>6, <1>9, <2>1, SendersKept
<1> QED BY <1>7, <1>8, <1>10, <1>11 DEF Inv

\* Reading the next event, claiming it.
LEMMA ClaimKeeps ==
  ASSUME Inv, NEW w \in Workers, ReadClaim(w) \/ (CommitClaim(w) /\ Claimable(worker[w].event))
  PROVE  Inv'
<1>1. /\ UNCHANGED <<named, created, delivery, message>>
      /\ \A v \in Workers \ {w} : worker'[v] = worker[v]
  BY DEF ReadClaim, CommitClaim, Step, newVars, sendVars, Inv, Typed
<1>2. Written' = Written /\ \A n \in Written : Alone(n)' => Alone(n)
  BY <1>1 DEF Written, Alone
<1>3. CASE ReadClaim(w)
  <2>1. PICK e \in Events :
          worker' = [worker EXCEPT ![w].step = "CLAIM", ![w].event = e]
    BY <1>3 DEF ReadClaim
  <2>2. worker[w] \in Works /\ UNCHANGED event
    BY <1>3 DEF Inv, Typed, ReadClaim, rowVars
  <2>3. worker'[w] = [worker[w] EXCEPT !.step = "CLAIM", !.event = e]
    BY <2>1 DEF Inv, Typed
  <2>4. worker'[w].step = "CLAIM" /\ worker'[w].event = e /\ worker'[w] \in Works
    BY <2>2, <2>3 DEF Works, Steps
  <2>5. Typed'
    BY <1>1, <2>1, <2>2, <2>4 DEF Inv, Typed
  <2>6. WrittenOnce'
    BY <1>2, <2>2 DEF Inv, WrittenOnce
  <2>7. InHand'
    BY <1>1, <2>2, <2>4 DEF Inv, InHand, OneWorkerPerEvent, Working
  <2>8. \A v \in Workers : Sending(v)' => worker'[v] = worker[v]
    BY <1>1, <2>4 DEF Sending
  <2> QED BY <1>1, <1>2, <2>5, <2>6, <2>7, <2>8, SendersKept DEF Inv
<1>4. CASE CommitClaim(w) /\ Claimable(worker[w].event)
  <2> DEFINE e == worker[w].event
  <2>1. /\ e \in Events /\ event[e] \in {"PENDING", "FAILED"}
        /\ event' = [event EXCEPT ![e] = "PROCESSING"]
        /\ worker' = [worker EXCEPT ![w].step = "LOAD"]
    BY <1>4 DEF CommitClaim, Claimable, Step, Inv, InHand
  <2>2. worker[w] \in Works
    BY DEF Inv, Typed
  <2>3. worker'[w] = [worker[w] EXCEPT !.step = "LOAD"]
    BY <2>1 DEF Inv, Typed
  <2>4. worker'[w].step = "LOAD" /\ worker'[w].event = e /\ worker'[w] \in Works
    BY <2>2, <2>3 DEF Works, Steps
  <2>5. Typed'
    BY <1>1, <2>1, <2>4 DEF Inv, Typed, EventStatuses
  <2>6. event'[e] = "PROCESSING" /\ \A f \in Events \ {e} : event'[f] = event[f]
    BY <2>1 DEF Inv, Typed
  <2>7. WrittenOnce'
    BY <1>2, <2>1, <2>6 DEF Inv, WrittenOnce
  <2>8. \A v \in Workers \ {w} : Working(v) => worker[v].event # e /\ worker[v].event \in Events
    BY <2>1 DEF Inv, InHand, Working
  <2>9. InHand'
    <3>1. \A v \in Workers : worker'[v].step # "IDLE" => worker'[v].event \in Events
      BY <1>1, <2>1, <2>4 DEF Inv, InHand
    <3>2. \A v \in Workers \ {w} : Working(v)' => Working(v)
      BY <1>1 DEF Working
    <3>3. OneWorkerPerEvent'
      BY <1>1, <2>4, <2>8, <3>2 DEF Inv, InHand, OneWorkerPerEvent
    <3> QED BY <1>1, <2>4, <2>6, <2>8, <3>1, <3>2, <3>3 DEF Inv, InHand
  <2>10. \A v \in Workers : Sending(v)' => worker'[v] = worker[v]
    BY <1>1, <2>4 DEF Sending
  <2> QED BY <1>1, <1>2, <2>5, <2>7, <2>9, <2>10, SendersKept DEF Inv
<1> QED BY <1>3, <1>4
-----------------------------------------------------------------------------
\* Whatever one worker does with its own event while it works on it.
LEMMA WorkGoesOn ==
  ASSUME Inv, NEW w \in Workers, Working(w), UNCHANGED <<event, named, created>>,
         \A v \in Workers \ {w} : worker'[v] = worker[v],
         worker'[w].event = worker[w].event,
         event[worker[w].event] = "PROCESSING",
         worker'[w].step \in {"CHANNELS", "SEND", "RETRY"}
  PROVE  WrittenOnce' /\ InHand'
<1>1. WrittenOnce'
  BY DEF Inv, WrittenOnce, Written
<1>2. \A v \in Workers : worker'[v].event = worker[v].event /\ (Working(v)' => Working(v))
  BY DEF Working
<1>3. OneWorkerPerEvent'
  BY <1>2 DEF Inv, InHand, OneWorkerPerEvent
<1>4. \A v \in Workers : worker'[v].step # "IDLE" => worker'[v].event \in Events
  BY <1>2 DEF Inv, InHand, Working
<1>5. \A v \in Workers : Working(v)' =>
       \/ event'[worker'[v].event] = "PROCESSING"
       \/ event'[worker'[v].event] = "PROCESSED" /\ worker'[v].step = "RETRY"
  BY <1>2 DEF Inv, InHand
<1> QED BY <1>1, <1>3, <1>4, <1>5 DEF InHand

\* A notification found for an event is one that has been written, and if no
\* other event finds it, the event's own.
LEMMA LoadKeeps ==
  ASSUME Inv, NEW w \in Workers, Load(w)
  PROVE  Inv'
<1> DEFINE e == worker[w].event
<1>1. PICK want \in Enabled, n \in Events :
        /\ Finds(e, n)
        /\ worker' = [worker EXCEPT ![w].step = "CHANNELS", ![w].note = n,
                                    ![w].owed = want, ![w].todo = want]
  BY DEF Load
<1>2. UNCHANGED <<event, named, created, delivery, message>> /\ worker[w].step = "LOAD"
  BY DEF Load, rowVars, newVars, sendVars
<1>3. Working(w) /\ e \in Events /\ event[e] = "PROCESSING" /\ worker[w] \in Works
  BY <1>2 DEF Working, Inv, InHand, Typed
<1>4. e \in Written
  BY <1>3 DEF Inv, WrittenOnce
<1>5. n \in Written /\ (Alone(n) => n = e)
  <2>1. CASE named[e]
    BY <1>1, <1>4, <2>1 DEF Finds
  <2>2. CASE ~ named[e]
    <3>1. n \in Written /\ ~ named[n]
      BY <1>1, <2>2 DEF Finds, Written
    <3>2. Alone(n) => n = e
      BY <1>4, <2>2, <3>1 DEF Alone
    <3> QED BY <3>1, <3>2
  <2> QED BY <2>1, <2>2
<1>6. /\ worker'[w] = [worker[w] EXCEPT !.step = "CHANNELS", !.note = n,
                                        !.owed = want, !.todo = want]
      /\ \A v \in Workers \ {w} : worker'[v] = worker[v]
  BY <1>1 DEF Inv, Typed
<1>7. /\ worker'[w] \in Works
      /\ worker'[w].step = "CHANNELS" /\ worker'[w].event = e /\ worker'[w].note = n
      /\ worker'[w].owed = want /\ worker'[w].todo = want
  <2>1. want \in SUBSET Channels
    BY OutboxAssumption
  <2> QED BY <1>3, <1>6, <2>1 DEF Works, Steps
<1>8. Typed'
  BY <1>1, <1>2, <1>7 DEF Inv, Typed
<1>9. WrittenOnce' /\ InHand'
  BY <1>2, <1>3, <1>6, <1>7, WorkGoesOn
<1>10. Written' = Written /\ \A x : Alone(x)' <=> Alone(x)
  BY <1>2 DEF Written, Alone
<1>11. \A v \in Workers \ {w} : /\ Sending(v)' <=> Sending(v)
                                /\ NextChannel(v)' = NextChannel(v)
  BY <1>6 DEF Sending, NextChannel
<1>12. NoteInHand'
  <2> SUFFICES ASSUME NEW v \in Workers, Sending(v)'
               PROVE  /\ worker'[v].note \in Written
                      /\ Alone(worker'[v].note) => worker'[v].note = worker'[v].event
                      /\ worker'[v].step = "SEND" => NextChannel(v)' \in worker'[v].todo
    BY <1>10 DEF NoteInHand
  <2>1. CASE v = w
    BY <1>5, <1>7, <2>1
  <2>2. CASE v # w
    <3>1. Sending(v) /\ NextChannel(v)' = NextChannel(v) /\ worker'[v] = worker[v]
      BY <1>6, <1>11, <2>2
    <3> QED BY <3>1 DEF Inv, NoteInHand
  <2> QED BY <2>1, <2>2
<1>13. GoneThrough'
  <2> SUFFICES ASSUME NEW v \in Workers, Sending(v)', ~worker'[v].failed, Alone(worker'[v].note)
               PROVE  \A c \in (worker'[v].owed \ {"IN_APP"}) \ worker'[v].todo :
                        delivery[worker'[v].note][c] = "SENT"
    BY <1>2, <1>10 DEF GoneThrough
  <2>1. CASE v = w
    BY <1>7, <2>1
  <2>2. CASE v # w
    <3>1. Sending(v) /\ worker'[v] = worker[v]
      BY <1>6, <1>11, <2>2
    <3> QED BY <3>1 DEF Inv, GoneThrough
  <2> QED BY <2>1, <2>2
<1>14. HeardIsSent'
  <2>1. ASSUME NEW v \in Workers, worker'[v].step = "SEND", Alone(worker'[v].note)
        PROVE  message[worker'[v].note][NextChannel(v)'] # "TAKEN"
    <3>1. v # w
      BY <1>7, <2>1
    <3>2. NextChannel(v)' = NextChannel(v) /\ worker'[v] = worker[v]
      BY <1>6, <1>11, <3>1
    <3>3. worker[v].step = "SEND" /\ Alone(worker[v].note)
      BY <2>1, <3>2
    <3>4. message[worker[v].note][NextChannel(v)] # "TAKEN"
      BY <3>3 DEF Inv, HeardIsSent
    <3> QED BY <3>2, <3>4
  <2> QED BY <1>2, <1>10, <2>1 DEF Inv, HeardIsSent
<1>15. RepeatedOnlyUnheard'
  BY <1>2, <1>10 DEF Inv, RepeatedOnlyUnheard
<1> QED BY <1>8, <1>9, <1>12, <1>13, <1>14, <1>15 DEF Inv
-----------------------------------------------------------------------------
\* A step of worker w at the channel it has come to: the delivery is marked d,
\* the provider has m of it, and the worker goes on as r says.
Touches(w, n, c, d, m, r) ==
  /\ UNCHANGED <<event, named, created>>
  /\ delivery' = [delivery EXCEPT ![n] = [delivery[n] EXCEPT ![c] = d]]
  /\ message' = [message EXCEPT ![n] = [message[n] EXCEPT ![c] = m]]
  /\ worker' = [worker EXCEPT ![w] = r]
  /\ r.event = worker[w].event /\ r.note = n /\ r.owed = worker[w].owed
  /\ worker[w].failed => r.failed
  /\ \/ r.step = "SEND" /\ r.todo = worker[w].todo /\ (Alone(n) => m # "TAKEN")
     \/ r.step = "CHANNELS" /\ r.todo = worker[w].todo \ {c} /\ (~FailureCounts(c) \/ d = "SENT" \/ r.failed)
  /\ Alone(n) => m # "REPEATED" /\ (m = "TAKEN" => d = "SENT")

LEMMA TouchKeeps ==
  ASSUME Inv, NEW w \in Workers, Sending(w), worker[w].todo # {},
         NEW n, n = worker[w].note, NEW c, c = NextChannel(w),
         NEW d \in Deliveries, NEW m \in Messages, NEW r \in Works,
         Touches(w, n, c, d, m, r)
  PROVE  Inv'
<1>1. n \in Written /\ n \in Events /\ c \in Channels /\ c \in worker[w].todo
  BY NextIsTodo, LenProperties, ElementOfSeq DEF Inv, NoteInHand, Typed, Written
<1>2. worker'[w] = r /\ \A v \in Workers \ {w} : worker'[v] = worker[v]
  BY DEF Touches, Inv, Typed
<1>3. /\ \A x \in Events, y \in Channels :
           /\ delivery'[x][y] = IF x = n /\ y = c THEN d ELSE delivery[x][y]
           /\ message'[x][y] = IF x = n /\ y = c THEN m ELSE message[x][y]
      /\ delivery' \in [Events -> [Channels -> Deliveries]]
      /\ message' \in [Events -> [Channels -> Messages]]
  BY <1>1 DEF Touches, Inv, Typed
<1>4. Typed'
  BY <1>3 DEF Touches, Inv, Typed
<1>5. WrittenOnce' /\ InHand'
  <2>1. Working(w) /\ event[worker[w].event] = "PROCESSING"
    BY DEF Working, Sending, Inv, InHand
  <2>2. /\ worker'[w].event = worker[w].event
        /\ worker'[w].step \in {"CHANNELS", "SEND", "RETRY"}
        /\ UNCHANGED <<event, named, created>>
    BY <1>2 DEF Touches
  <2> QED BY <1>2, <2>1, <2>2, WorkGoesOn
<1>6. Written' = Written /\ \A x : Alone(x)' <=> Alone(x)
  BY DEF Touches, Written, Alone
<1>7. ASSUME NEW v \in Workers, v # w
      PROVE  /\ worker'[v] = worker[v]
             /\ Sending(v)' <=> Sending(v)
             /\ NextChannel(v)' = NextChannel(v)
             /\ Sending(v) => worker[v].note \in Events
             /\ Sending(v) /\ Alone(worker[v].note) => worker[v].note # n
  <2>1. worker'[v] = worker[v]
    BY <1>2, <1>7
  <2>2. Sending(v)' <=> Sending(v)
    BY <2>1 DEF Sending
  <2>3. NextChannel(v)' = NextChannel(v)
    BY <2>1 DEF NextChannel
  <2>4. Sending(v) => worker[v].note \in Events
    BY LenProperties, ElementOfSeq DEF Inv, NoteInHand, Typed, Written
  <2>5. Sending(v) /\ Alone(worker[v].note) => worker[v].note # n
    BY <1>7, SoleSender
  <2> QED BY <2>1, <2>2, <2>3, <2>4, <2>5
<1>8. NoteInHand'
  <2> SUFFICES ASSUME NEW v \in Workers, Sending(v)'
               PROVE  /\ worker'[v].note \in Written
                      /\ Alone(worker'[v].note) => worker'[v].note = worker'[v].event
                      /\ worker'[v].step = "SEND" => NextChannel(v)' \in worker'[v].todo
    BY <1>6 DEF NoteInHand
  <2>1. CASE v = w
    <3>1. /\ worker'[w].note = worker[w].note /\ worker'[w].event = worker[w].event
          /\ worker'[w].step = "SEND" => worker'[w].todo = worker[w].todo
      BY <1>2 DEF Touches
    <3>2. worker'[w].step = "SEND" => NextChannel(w)' = NextChannel(w)
      BY <3>1 DEF NextChannel
    <3> QED BY <1>1, <2>1, <3>1, <3>2 DEF Inv, NoteInHand
  <2>2. CASE v # w
    <3>1. Sending(v) /\ NextChannel(v)' = NextChannel(v) /\ worker'[v] = worker[v]
      BY <1>7, <2>2
    <3> QED BY <3>1 DEF Inv, NoteInHand
  <2> QED BY <2>1, <2>2
<1>9. GoneThrough'
  <2> SUFFICES ASSUME NEW v \in Workers, Sending(v)', ~worker'[v].failed,
                      Alone(worker'[v].note),
                      NEW x \in (worker'[v].owed \ {"IN_APP"}) \ worker'[v].todo
               PROVE  delivery'[worker'[v].note][x] = "SENT"
    BY <1>6 DEF GoneThrough
  <2>1. CASE v = w
    <3>1. /\ Alone(n) /\ ~worker[w].failed /\ worker'[w].note = n
          /\ x \in worker[w].owed /\ (x \in worker[w].todo => x = c /\ d = "SENT")
      BY <1>2, <2>1 DEF Touches, FailureCounts
    <3>2. x \in Channels
      BY <3>1 DEF Inv, Typed, Works
    <3>3. x \notin worker[w].todo => delivery[n][x] = "SENT" /\ x # c
      BY <1>1, <3>1 DEF Inv, GoneThrough
    <3> QED BY <1>1, <1>3, <2>1, <3>1, <3>2, <3>3
  <2>2. CASE v # w
    <3>1. Sending(v) /\ worker'[v] = worker[v] /\ worker[v].note \in Events \ {n}
      BY <1>7, <2>2
    <3>2. x \in Channels /\ delivery[worker[v].note][x] = "SENT"
      BY <3>1 DEF Inv, GoneThrough, Typed, Works
    <3> QED BY <1>3, <3>1, <3>2
  <2> QED BY <2>1, <2>2
<1>10. HeardIsSent'
  <2>1. ASSUME NEW x \in Events, NEW y \in Channels
        PROVE  /\ message'[x][y] # "UNSENT" => x \in Written
               /\ message'[x][y] = "TAKEN" /\ Alone(x) => delivery'[x][y] = "SENT"
    <3>1. CASE x = n /\ y = c
      BY <1>1, <1>3, <3>1 DEF Touches
    <3>2. CASE ~ (x = n /\ y = c)
      BY <1>3, <3>2 DEF Inv, HeardIsSent
    <3> QED BY <3>1, <3>2
  <2>2. ASSUME NEW v \in Workers, worker'[v].step = "SEND", Alone(worker'[v].note)
        PROVE  message'[worker'[v].note][NextChannel(v)'] # "TAKEN"
    <3>1. CASE v = w
      <4>1. r.step = "SEND" /\ r.todo = worker[w].todo /\ r.note = n /\ Alone(n)
        BY <1>2, <2>2, <3>1 DEF Touches
      <4>2. NextChannel(w)' = c
        BY <1>2, <4>1 DEF NextChannel
      <4>3. m # "TAKEN"
        BY <4>1 DEF Touches
      <4> QED BY <1>1, <1>2, <1>3, <3>1, <4>1, <4>2, <4>3
    <3>2. CASE v # w
      <4>1. worker[v].step = "SEND" /\ Alone(worker[v].note) /\ worker'[v] = worker[v]
            /\ NextChannel(v)' = NextChannel(v)
        BY <1>7, <2>2, <3>2
      <4>2. Sending(v) /\ worker[v].note \in Events \ {n}
        BY <1>7, <3>2, <4>1 DEF Sending
      <4>3. NextChannel(v) \in Channels
        BY <4>1, <4>2 DEF Inv, NoteInHand, Typed, Works
      <4>4. message[worker[v].note][NextChannel(v)] # "TAKEN"
        BY <4>1 DEF Inv, HeardIsSent
      <4> QED BY <1>3, <4>1, <4>2, <4>3, <4>4
    <3> QED BY <3>1, <3>2
  <2> QED BY <1>6, <2>1, <2>2 DEF HeardIsSent
<1>11. RepeatedOnlyUnheard'
  <2> SUFFICES ASSUME NEW x \in Events, NEW y \in Channels, message'[x][y] = "REPEATED"
               PROVE  ~ Alone(x)
    BY <1>6 DEF RepeatedOnlyUnheard
  <2> QED BY <1>3 DEF Touches, Inv, RepeatedOnlyUnheard
<1> QED BY <1>4, <1>5, <1>8, <1>9, <1>10, <1>11 DEF Inv
LEMMA AtTheChannel ==
  ASSUME Inv, NEW w \in Workers, Sending(w), worker[w].todo # {}
  PROVE  /\ worker[w].note \in Events /\ NextChannel(w) \in Channels
         /\ worker[w] \in Works /\ worker[w].todo \in SUBSET Channels
         /\ delivery[worker[w].note][NextChannel(w)] \in Deliveries
         /\ message[worker[w].note][NextChannel(w)] \in Messages
         /\ Channel(w)[1] = worker[w].note /\ Channel(w)[2] = NextChannel(w)
<1>1. worker[w].note \in Events /\ NextChannel(w) \in Channels
  BY NextIsTodo, LenProperties, ElementOfSeq DEF Inv, NoteInHand, Typed, Written
<1> QED BY <1>1 DEF Inv, Typed, Works, Channel

LEMMA QueueKeeps ==
  ASSUME Inv, NEW w \in Workers, Queue(w)
  PROVE  Inv'
<1>1. PICK n, c : n = worker[w].note /\ c = NextChannel(w)
  OBVIOUS
<1>2. /\ worker[w].step = "CHANNELS" /\ worker[w].todo # {} /\ Sending(w)
      /\ UNCHANGED <<event, named, created, message>>
  BY DEF Queue, Sending, rowVars, newVars
<1>3. /\ n \in Events /\ c \in Channels /\ worker[w] \in Works
      /\ delivery[n][c] \in Deliveries /\ message[n][c] \in Messages
      /\ Channel(w)[1] = n /\ Channel(w)[2] = c
  BY <1>1, <1>2, AtTheChannel
<1>4. message' = [message EXCEPT ![n] = [message[n] EXCEPT ![c] = message[n][c]]]
  BY <1>2, <1>3 DEF Inv, Typed
<1>5. CASE Skipped(delivery[n][c])
  <2>1. delivery[n][c] = "SENT" /\ UNCHANGED delivery
        /\ worker' = [worker EXCEPT ![w].todo = @ \ {c}]
    BY <1>3, <1>5 DEF Queue, Skipped
  <2>2. delivery' = [delivery EXCEPT ![n] = [delivery[n] EXCEPT ![c] = "SENT"]]
    BY <1>3, <2>1 DEF Inv, Typed
  <2>3. PICK r : r = [worker[w] EXCEPT !.todo = @ \ {c}]
    OBVIOUS
  <2>4. /\ r \in Works /\ worker' = [worker EXCEPT ![w] = r]
        /\ r.step = "CHANNELS" /\ r.event = worker[w].event /\ r.note = n
        /\ r.owed = worker[w].owed /\ r.todo = worker[w].todo \ {c}
        /\ r.failed = worker[w].failed
    BY <1>1, <1>2, <1>3, <2>1, <2>3 DEF Works
  <2>5. Alone(n) => message[n][c] # "REPEATED"
    BY <1>3 DEF Inv, RepeatedOnlyUnheard
  <2>6. Touches(w, n, c, "SENT", message[n][c], r)
    BY <1>2, <1>4, <2>2, <2>4, <2>5 DEF Touches
  <2> QED BY <1>1, <1>2, <1>3, <2>4, <2>6, TouchKeeps DEF Deliveries
<1>6. CASE ~ Skipped(delivery[n][c])
  <2>1. delivery[n][c] # "SENT" /\ worker' = [worker EXCEPT ![w].step = "SEND"]
        /\ delivery' = [delivery EXCEPT ![n] = [delivery[n] EXCEPT ![c] = "QUEUED"]]
    BY <1>3, <1>6 DEF Queue, Skipped, Step
  <2>2. PICK r : r = [worker[w] EXCEPT !.step = "SEND"]
    OBVIOUS
  <2>3. /\ r \in Works /\ worker' = [worker EXCEPT ![w] = r]
        /\ r.step = "SEND" /\ r.event = worker[w].event /\ r.note = n
        /\ r.owed = worker[w].owed /\ r.todo = worker[w].todo
        /\ r.failed = worker[w].failed
    BY <1>1, <1>2, <1>3, <2>1, <2>2 DEF Works, Steps
  <2>4. Alone(n) => message[n][c] \notin {"TAKEN", "REPEATED"}
    BY <1>3, <2>1 DEF Inv, RepeatedOnlyUnheard, HeardIsSent
  <2>5. Touches(w, n, c, "QUEUED", message[n][c], r)
    BY <1>2, <1>4, <2>1, <2>3, <2>4 DEF Touches
  <2> QED BY <1>1, <1>2, <1>3, <2>3, <2>5, TouchKeeps DEF Deliveries
<1> QED BY <1>5, <1>6

LEMMA DeliverKeeps ==
  ASSUME Inv, NEW w \in Workers, Deliver(w)
  PROVE  Inv'
<1>1. PICK n, c : n = worker[w].note /\ c = NextChannel(w)
  OBVIOUS
<1>2. worker[w].step = "SEND" /\ Sending(w) /\ UNCHANGED <<event, named, created>>
  BY DEF Deliver, Sending, rowVars, newVars
<1>3. worker[w].todo # {}
  BY <1>2 DEF Inv, NoteInHand
<1>4. /\ n \in Events /\ c \in Channels /\ worker[w] \in Works
      /\ message[n][c] \in Messages /\ worker[w].todo \in SUBSET Channels
      /\ Channel(w)[1] = n /\ Channel(w)[2] = c
  BY <1>1, <1>2, <1>3, AtTheChannel
<1>5. PICK d, m, failed :
        /\ \/ d = "SENT" /\ m = Taken(c, message[n][c])
           \/ d = "FAILED" /\ m \in {message[n][c], Unheard(c, message[n][c])}
        /\ failed = (d = "FAILED" /\ FailureCounts(c))
        /\ delivery' = [delivery EXCEPT ![n] = [delivery[n] EXCEPT ![c] = d]]
        /\ message' = [message EXCEPT ![n] = [message[n] EXCEPT ![c] = m]]
        /\ worker' = [worker EXCEPT ![w].step = "CHANNELS", ![w].todo = @ \ {c},
                                    ![w].failed = @ \/ failed]
  <2> DEFINE Outcome(d, m, failed) ==
               /\ delivery' = [delivery EXCEPT ![n] = [delivery[n] EXCEPT ![c] = d]]
               /\ message' = [message EXCEPT ![n] = [message[n] EXCEPT ![c] = m]]
               /\ worker' = [worker EXCEPT ![w].step = "CHANNELS", ![w].todo = @ \ {c},
                                           ![w].failed = @ \/ failed]
             Counts(d) == d = "FAILED" /\ FailureCounts(c)
  <2>1. \/ Outcome("SENT", Taken(c, message[n][c]), Counts("SENT"))
        \/ Outcome("FAILED", message[n][c], Counts("FAILED"))
        \/ Outcome("FAILED", Unheard(c, message[n][c]), Counts("FAILED"))
    BY <1>4, ZenonT(30) DEF Deliver
  <2> HIDE DEF Outcome
  <2>2. \E d, m, failed :
          /\ \/ d = "SENT" /\ m = Taken(c, message[n][c])
             \/ d = "FAILED" /\ m \in {message[n][c], Unheard(c, message[n][c])}
          /\ failed = (d = "FAILED" /\ FailureCounts(c))
          /\ Outcome(d, m, failed)
    BY <2>1, ZenonT(30)
  <2> QED BY <2>2, ZenonT(30) DEF Outcome
<1>6. Alone(n) => message[n][c] \notin {"TAKEN", "REPEATED"}
  BY <1>1, <1>2, <1>4 DEF Inv, RepeatedOnlyUnheard, HeardIsSent
<1>7. /\ m \in Messages /\ d \in Deliveries /\ failed \in BOOLEAN
      /\ Alone(n) => m # "REPEATED" /\ (m = "TAKEN" => d = "SENT")
      /\ ~FailureCounts(c) \/ d = "SENT" \/ failed
  BY <1>4, <1>5, <1>6 DEF Taken, Unheard, Messages, Deliveries, FailureCounts
<1>8. PICK r : r = [worker[w] EXCEPT !.step = "CHANNELS", !.todo = @ \ {c},
                                    !.failed = @ \/ failed]
  OBVIOUS
<1>9. /\ worker' = [worker EXCEPT ![w] = r]
      /\ r.step = "CHANNELS" /\ r.event = worker[w].event /\ r.note = n
      /\ r.owed = worker[w].owed /\ r.todo = worker[w].todo \ {c}
  BY <1>1, <1>4, <1>5, <1>8 DEF Works, Inv, Typed
<1>10. /\ r \in Works /\ r.failed = (worker[w].failed \/ failed)
  <2>1. r.failed = (worker[w].failed \/ failed)
    BY <1>4, <1>8 DEF Works
  <2>2. (worker[w].failed \/ failed) \in BOOLEAN
    BY ZenonT(30)
  <2>3. worker[w].todo \ {c} \in SUBSET Channels
    BY <1>4
  <2>4. PICK f : f = (worker[w].failed \/ failed)
    OBVIOUS
  <2>5. r = [worker[w] EXCEPT !.step = "CHANNELS", !.todo = @ \ {c}, !.failed = f]
    BY <1>8, <2>4, ZenonT(30)
  <2>6. f \in BOOLEAN
    BY <2>2, <2>4, ZenonT(30)
  <2>7. r \in Works
    BY <1>4, <2>3, <2>5, <2>6 DEF Works, Steps
  <2> QED BY <2>1, <2>7
<1>11. Touches(w, n, c, d, m, r)
  BY <1>2, <1>5, <1>7, <1>9, <1>10 DEF Touches
<1> QED BY <1>1, <1>2, <1>3, <1>7, <1>10, <1>11, TouchKeeps
-----------------------------------------------------------------------------
Ending(w) ==
  \/ CommitClaim(w) /\ ~Claimable(worker[w].event)
  \/ Defer(w) \/ Complete(w) \/ CompleteUnheard(w)
  \/ Throw(w) \/ MarksFail(w) \/ Retry(w) \/ Leave(w)

\* What the ends of an attempt do to the workers: w lets go or will retry.
LEMMA EndingWorkers ==
  ASSUME Inv, NEW w \in Workers, Ending(w)
  PROVE  /\ worker[w].step # "IDLE"
         /\ worker' \in [Workers -> Works]
         /\ \/ worker'[w] = Idle
            \/ Working(w) /\ worker'[w] = [worker[w] EXCEPT !.step = "RETRY"]
         /\ \A v \in Workers \ {w} : worker'[v] \in {worker[v], Idle}
<1>1. worker \in [Workers -> Works] /\ Idle \in Works
  BY DEF Inv, Typed, Works, Idle, Steps
<1>2. [worker[w] EXCEPT !.step = "RETRY"] \in Works
  BY <1>1 DEF Works, Steps
<1>3. CASE worker' = [worker EXCEPT ![w] = Idle] /\ worker[w].step # "IDLE"
  BY <1>1, <1>3
<1>4. CASE Release(w) /\ worker[w].step # "IDLE"
  BY <1>1, <1>4 DEF Release
<1>5. CASE Step(w, "RETRY") /\ Working(w)
  BY <1>1, <1>2, <1>5 DEF Step, Working
<1>6. CASE CommitClaim(w) /\ ~Claimable(worker[w].event)
  BY <1>3, <1>6 DEF CommitClaim
<1>7. CASE Defer(w) \/ Retry(w)
  BY <1>4, <1>7 DEF Defer, Retry
<1>8. CASE Complete(w)
  BY <1>3, <1>8 DEF Complete, AllSent
<1>9. CASE CompleteUnheard(w) \/ Throw(w) \/ MarksFail(w)
  BY <1>5, <1>9 DEF CompleteUnheard, AllSent, Throw, MarksFail, Working
<1>10. CASE Leave(w)
  BY <1>3, <1>10 DEF Leave
<1> QED BY <1>6, <1>7, <1>8, <1>9, <1>10 DEF Ending

LEMMA EndingKeeps ==
  ASSUME Inv, NEW w \in Workers, Ending(w)
  PROVE  Inv'
<1>1. UNCHANGED <<named, created, delivery>>
  BY DEF Ending, CommitClaim, Defer, Complete, CompleteUnheard, Throw, MarksFail,
         Retry, Leave, newVars, sendVars
<1>2. MayBeTaken(w)
  <2>1. Channel(w)[1] = worker[w].note /\ Channel(w)[2] = NextChannel(w)
    BY DEF Channel
  <2>2. CASE MarksFail(w)
    BY <2>1, <2>2 DEF MarksFail, MayBeTaken
  <2>3. CASE Leave(w)
    BY <2>1, <2>3 DEF Leave, MayBeTaken
  <2>4. CASE ~ MarksFail(w) /\ ~ Leave(w)
    BY <2>4 DEF Ending, CommitClaim, Defer, Complete, CompleteUnheard, Throw, Retry,
                sendVars, MayBeTaken
  <2> QED BY <2>2, <2>3, <2>4
<1>3. \/ UNCHANGED event
      \/ /\ Working(w)
         /\ \E s \in EventStatuses \ {"NEW"} :
              /\ event' = [event EXCEPT ![worker[w].event] = s]
              /\ worker'[w] = Idle \/ s = "PROCESSED"
  <2>1. CASE Defer(w) \/ Retry(w)
    <3>1. worker'[w] = Idle /\ Working(w)
      BY <2>1 DEF Defer, Retry, Release, Working
    <3>2. PICK s \in EventStatuses \ {"NEW"} : event' = [event EXCEPT ![worker[w].event] = s]
      BY <2>1 DEF Defer, Retry, AfterFailure, EventStatuses
    <3> QED BY <3>1, <3>2
  <2>2. CASE Complete(w) \/ CompleteUnheard(w)
    BY <2>2 DEF Complete, CompleteUnheard, AllSent, Working, EventStatuses
  <2>3. CASE ~ (Defer(w) \/ Retry(w) \/ Complete(w) \/ CompleteUnheard(w))
    BY <2>3 DEF Ending, CommitClaim, Throw, MarksFail, Leave, rowVars
  <2> QED BY <2>1, <2>2, <2>3
<1>4. Ends(w)
  BY <1>1, <1>2, <1>3, EndingWorkers DEF Ends
<1> QED BY <1>4, EndingWorkers, EndsKeeps

LEMMA InvKept == OutboxSpec => []Inv
<1>1. OutboxInit => Inv
  <2> SUFFICES ASSUME OutboxInit PROVE Inv
    OBVIOUS
  <2>1. created = <<>> /\ Written = {}
    BY DEF OutboxInit, Written
  <2>2. Idle \in Works
    BY DEF Works, Idle, Steps
  <2>3. Typed
    BY <2>1, <2>2 DEF OutboxInit, Typed, EventStatuses, Deliveries, Messages
  <2>4. \A w \in Workers : worker[w].step = "IDLE"
    BY DEF OutboxInit, Idle
  <2>5. \A n \in Events, c \in Channels : message[n][c] = "UNSENT"
    BY DEF OutboxInit
  <2> QED BY <2>1, <2>3, <2>4, <2>5
          DEF Inv, WrittenOnce, InHand, NoteInHand, GoneThrough, HeardIsSent,
              RepeatedOnlyUnheard, OneWorkerPerEvent, Working, Sending, OutboxInit
<1>2. Inv /\ [OutboxNext]_outboxVars => Inv'
  <2> SUFFICES ASSUME Inv, [OutboxNext]_outboxVars PROVE Inv'
    OBVIOUS
  <2>1. CASE UNCHANGED <<event, named, created, delivery, message, worker>>
    BY <2>1 DEF Inv, Typed, WrittenOnce, InHand, NoteInHand, GoneThrough, HeardIsSent,
                RepeatedOnlyUnheard, OneWorkerPerEvent, Working, Sending, Alone, Written,
                NextChannel
  <2>2. CASE \E e \in Events : Enqueue(e)
    BY <2>2, EnqueueKeeps
  <2>3. CASE \E e \in Events : BecomesDue(e)
    BY <2>1, <2>3 DEF BecomesDue, newVars, sendVars
  <2>4. ASSUME NEW w \in Workers, Drain(w) \/ Defer(w) \/ Mishap(w)
        PROVE  Inv'
    <3>1. CASE ReadClaim(w) \/ (CommitClaim(w) /\ Claimable(worker[w].event))
      BY <3>1, ClaimKeeps
    <3>2. CASE Load(w)
      BY <3>2, LoadKeeps
    <3>3. CASE Queue(w)
      BY <3>3, QueueKeeps
    <3>4. CASE Deliver(w)
      BY <3>4, DeliverKeeps
    <3>5. CASE Ending(w)
      BY <3>5, EndingKeeps
    <3> QED BY <2>4, <3>1, <3>2, <3>3, <3>4, <3>5 DEF Drain, Mishap, Ending
  <2>5. CASE UNCHANGED outboxVars
    BY <2>1, <2>5 DEF outboxVars, rowVars, newVars, sendVars
  <2> QED BY <2>2, <2>3, <2>4, <2>5 DEF OutboxNext
<1> QED BY <1>1, <1>2, PTL DEF OutboxSpec
-----------------------------------------------------------------------------
(***************************************************************************)
(* However many processes drain the outbox, no two work on one event: a    *)
(* claim finds only what is pending or given up (claimNextEvent), and      *)
(* what a worker has in hand is neither.                                   *)
(***************************************************************************)
THEOREM ClaimedOnce == OutboxSpec => []OneWorkerPerEvent
<1>1. Inv => OneWorkerPerEvent
  BY DEF Inv, InHand
<1> QED BY <1>1, InvKept, PTL

(***************************************************************************)
(* Whatever fails and however often an event is tried again, a provider is *)
(* given a second copy only of what it took unheard.                       *)
(***************************************************************************)
THEOREM NothingRepeated == OutboxSpec => []RepeatedOnlyUnheard
<1>1. Inv => RepeatedOnlyUnheard
  BY DEF Inv
<1> QED BY <1>1, InvKept, PTL

(***************************************************************************)
(* The step that marks an event processed finds SENT on every channel      *)
(* outside the app that was asked for when its notification was loaded,    *)
(* however often the event was tried before.  Of the row of the message in *)
(* the app nothing is said, as drainOne does not look at it.               *)
(***************************************************************************)
THEOREM ProcessedWasDelivered == OutboxSpec => ProcessedIsDelivered
<1> DEFINE Delivered ==
      \A w \in Workers :
         LET e == worker[w].event
             n == worker[w].note
         IN worker[w].step = "CHANNELS" /\ event[e] # "PROCESSED"
               /\ event'[e] = "PROCESSED" /\ Alone(n)
            => \A c \in worker[w].owed \ {"IN_APP"} : delivery[n][c] = "SENT"
<1>1. Inv /\ [OutboxNext]_outboxVars => [Delivered]_outboxVars
  <2> SUFFICES ASSUME Inv, OutboxNext, NEW w \in Workers,
                      worker[w].step = "CHANNELS", event[worker[w].event] # "PROCESSED",
                      event'[worker[w].event] = "PROCESSED", Alone(worker[w].note),
                      NEW c \in worker[w].owed \ {"IN_APP"}
               PROVE  delivery[worker[w].note][c] = "SENT"
    OBVIOUS
  <2>1. worker[w].event \in Events
    BY DEF Inv, InHand
  <2>2. PICK v \in Workers : Complete(v) \/ CompleteUnheard(v)
    <3>1. ASSUME NEW f \in Events, Enqueue(f) \/ BecomesDue(f)
          PROVE  event'[worker[w].event] # "PROCESSED"
      BY <2>1, <3>1 DEF Enqueue, BecomesDue, Inv, Typed
    <3>2. ASSUME NEW v \in Workers,
                 Drain(v) \/ Defer(v) \/ Mishap(v), ~ (Complete(v) \/ CompleteUnheard(v))
          PROVE  event'[worker[w].event] # "PROCESSED"
      <4>1. CASE UNCHANGED event
        BY <4>1
      <4>2. CASE ~ UNCHANGED event
        <5>1. CommitClaim(v) \/ Defer(v) \/ Retry(v)
          BY <3>2, <4>2 DEF Drain, Mishap, ReadClaim, Load, Queue, Deliver, Throw,
                            MarksFail, Leave, rowVars
        <5> QED BY <2>1, <4>2, <5>1 DEF CommitClaim, Defer, Retry, AfterFailure, Inv,
                                        Typed, rowVars
      <4> QED BY <4>1, <4>2
    <3> QED BY <3>1, <3>2 DEF OutboxNext
  <2>3. /\ AllSent(v)
        /\ event' = [event EXCEPT ![worker[v].event] = "PROCESSED"]
    BY <2>2 DEF Complete, CompleteUnheard
  <2>4. v = w
    <3>1. worker[v].event = worker[w].event
      BY <2>1, <2>3 DEF Inv, Typed
    <3> QED BY <2>3, <3>1 DEF Inv, InHand, OneWorkerPerEvent, Working, AllSent
  <2> QED BY <2>3, <2>4 DEF AllSent, Sending, Inv, GoneThrough
<1> QED BY <1>1, InvKept, PTL DEF OutboxSpec, ProcessedIsDelivered
=============================================================================
