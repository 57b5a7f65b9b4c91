------------------------------- MODULE MCOutbox -------------------------------
(* One worker and two events, and one page with two notifications, each by *)
(* itself, for what must happen in the end: a behaviour follows one of     *)
(* them, and the other rests where nothing of it is due.                   *)
EXTENDS Outbox, Notices

CONSTANT AllAround   \* the events whose recipient may have every channel enabled

VARIABLE part

Init ==
  /\ part \in {"OUTBOX", "NOTICES"}
  /\ OutboxInit /\ NoticesInit
  /\ here <=> part = "NOTICES"
  /\ ~here => note = inbox

Next ==
  /\ part' = part
  /\ \/ /\ part = "OUTBOX" /\ OutboxNext /\ UNCHANGED noticeVars
        /\ \A w \in Workers : worker'[w].owed = Channels => worker'[w].event \in AllAround
     \/ part = "NOTICES" /\ NoticesNext /\ UNCHANGED outboxVars

Spec ==
  Init /\ [][Next]_<<part, outboxVars, noticeVars>> /\ OutboxFairness /\ NoticesFairness

\* What a recipient may have enabled.
OneOrAll == {{"EMAIL"}, Channels}
===============================================================================
