------------------------------- MODULE Notices -------------------------------
(***************************************************************************)
(* The notification centre of a page: the list it loads when it opens,     *)
(* every half minute, when the page is looked at again and when the        *)
(* drawer is opened, and the marks it sends.                               *)
(*                                                                         *)
(* Loads overlap and their answers are shown as they come; one reads the   *)
(* list and the count separately.  A mark is shown before it is sent, and  *)
(* nobody looks at its answer; that all is read is shown when the answer   *)
(* comes.  The server cuts the list at 50, which is left out, as are       *)
(* previews, filters and push.                                             *)
(***************************************************************************)
EXTENDS Requests, Naturals, FiniteSets

CONSTANT Notes

VARIABLES
  here,      \* the page is open; once left it is gone
  note,      \* what is stored of each notification
  inbox,     \* what the page shows of each
  count      \* how many it says are unread

noticeVars == <<here, note, inbox, count, request>>

NoticesInit ==
  /\ here \in BOOLEAN
  /\ note \in [Notes -> {"NONE", "UNREAD"}]
  /\ inbox = [n \in Notes |-> "NONE"] /\ count = 0
  /\ RequestInit

Unread(notes) == {n \in Notes : notes[n] = "UNREAD"}

AllRead(notes) == [n \in Notes |-> IF notes[n] = "UNREAD" THEN "READ" ELSE notes[n]]

\* A notification is written, or read on another page.
ChangeElsewhere(n) ==
  /\ note' = [note EXCEPT ![n] = IF @ = "NONE" THEN "UNREAD" ELSE "READ"]
  /\ UNCHANGED <<here, inbox, count, request>>

LeavePage ==
  /\ here /\ here' = FALSE
  /\ UNCHANGED <<note, inbox, count, request>>
-----------------------------------------------------------------------------
(* Loading.  What a load that fails had read makes no difference.          *)

Goes(h, r) == Continue(h, r) /\ UNCHANGED <<here, note, inbox, count>>

\* Whether a load may start now.  (Slip: only the first one does.)
FirstLoad == inbox = [n \in Notes |-> "NONE"]

Due == TRUE

LoadInbox(h) ==
  /\ here /\ Due
  /\ Begin(h, [op |-> "LOAD"])
  /\ UNCHANGED <<here, note, inbox, count>>

ItemsRead(h) ==
  /\ request[h].op = "LOAD"
  /\ Goes(h, [op |-> "COUNT", items |-> note])

CountRead(h) ==
  /\ request[h].op = "COUNT"
  /\ Goes(h, [op |-> "ARRIVE", items |-> request[h].items,
              unread |-> Cardinality(Unread(note))])

InboxShown(h) ==
  /\ here /\ request[h].op = "ARRIVE"
  /\ inbox' = request[h].items /\ count' = request[h].unread
  /\ Finish(h)
  /\ UNCHANGED <<here, note>>

LoadFails(h) ==
  /\ request[h].op = "ARRIVE"
  /\ Finish(h)
  /\ UNCHANGED <<here, note, inbox, count>>
-----------------------------------------------------------------------------
(* Marking.                                                                *)

\* The page moves on to what the notification is about, if there is such.
MarkRead(h, n) ==
  /\ here /\ inbox[n] = "UNREAD"
  /\ inbox' = [inbox EXCEPT ![n] = "READ"]
  /\ count' = IF count = 0 THEN 0 ELSE count - 1
  /\ Begin(h, [op |-> "MARK", notes |-> {n}])
  /\ UNCHANGED <<here, note>>

MarkAllRead(h) ==
  /\ here /\ count # 0
  /\ \A g \in Handlers : request[g].op \notin {"ALL", "MARKED"}
  /\ Begin(h, [op |-> "ALL", notes |-> Notes])
  /\ UNCHANGED <<here, note, inbox, count>>

MarksStored(h) ==
  LET r == request[h] IN
  /\ r.op \in {"MARK", "ALL"}
  /\ note' = [n \in Notes |-> IF n \in r.notes THEN AllRead(note)[n] ELSE note[n]]
  /\ \/ r.op = "MARK" /\ Finish(h)
     \/ r.op = "ALL" /\ Continue(h, [op |-> "MARKED"])
  /\ UNCHANGED <<here, inbox, count>>

\* Everything shown by then is said to be read.
AllMarked(h) ==
  /\ request[h].op = "MARKED" /\ Finish(h)
  /\ inbox' = AllRead(inbox) /\ count' = 0
  /\ UNCHANGED <<here, note>>

MarksLost(h) ==
  /\ request[h].op \in {"MARK", "ALL", "MARKED"} /\ Finish(h)
  /\ UNCHANGED <<here, note, inbox, count>>

CallEnds(h) == MarksStored(h) \/ AllMarked(h) \/ MarksLost(h)

LoadGoesOn(h) == LoadInbox(h) \/ ItemsRead(h) \/ CountRead(h)

NoticesNext ==
  \/ LeavePage
  \/ \E n \in Notes : ChangeElsewhere(n) \/ \E h \in Handlers : MarkRead(h, n)
  \/ \E h \in Handlers :
       LoadGoesOn(h) \/ InboxShown(h) \/ LoadFails(h) \/ MarkAllRead(h) \/ CallEnds(h)

\* The timer goes on however often the customer marks; every call ends; loads
\* do not fail for ever.
NoticesFairness ==
  /\ SF_noticeVars(\E h \in Handlers : LoadGoesOn(h))
  /\ WF_noticeVars(\E h \in Handlers : CallEnds(h))
  /\ SF_noticeVars(\E h \in Handlers : InboxShown(h))

NoticesSpec == NoticesInit /\ [][NoticesNext]_noticeVars /\ NoticesFairness
-----------------------------------------------------------------------------
(***************************************************************************)
(* As long as the page is open it comes to show what is stored again and   *)
(* again: neither a lost mark, nor a late answer, nor a list and a count   *)
(* read apart stays on it.                                                 *)
(***************************************************************************)
InboxSettles == []<>(~here \/ (inbox = note /\ count = Cardinality(Unread(note))))
=============================================================================
