----------------------------- MODULE OfficeLists -----------------------------
(***************************************************************************)
(* The pages that list what is kept (staff, cars, branches, texts,         *)
(* policies, sessions, ...), let one entry be changed, and bring the list  *)
(* up to date with the answer.  They differ in four things:                *)
(*   busy     what a change under way holds back: every other change of    *)
(*            the page, another of the same entry, or nothing; ALL where   *)
(*            nothing can be changed                                       *)
(*   answer   whether the list is read again or the saved entry put in     *)
(*   refilters whether the list is also read when its filter is changed,   *)
(*            or from time to time                                         *)
(*   keeps    whether the list stays when it could not be read again       *)
(* Nothing is edited before the list has arrived.                          *)
(***************************************************************************)
EXTENDS Requests, Naturals

CONSTANTS
  Entries,      \* what a page lists
  MaxVersion    \* bound of the changes of one entry

ASSUME OfficeListsAssumption == None \notin Entries /\ MaxVersion \in Nat \ {0}

VARIABLES
  page,      \* which page is open
  stored,    \* per entry, the version in the database
  listed,    \* per entry, the version in the list, 0 before it arrives
  own,       \* per entry, the latest version this page saved
  error      \* the page says that something failed

officeVars == <<page, stored, listed, own, error, request>>

StaffPage == [busy |-> "PAGE",  answer |-> "RELOAD", refilters |-> FALSE, keeps |-> TRUE]
ReviewPage == [busy |-> "PAGE",  answer |-> "RELOAD", refilters |-> FALSE, keeps |-> FALSE]
FleetPage == [busy |-> "PAGE",  answer |-> "RELOAD", refilters |-> FALSE, keeps |-> TRUE]
BranchPage == [busy |-> "PAGE",  answer |-> "ENTRY",  refilters |-> FALSE, keeps |-> TRUE]
ContentPage == [busy |-> "PAGE",  answer |-> "ENTRY",  refilters |-> FALSE, keeps |-> TRUE]
\* The answer to a publication is the list, read after it.
PolicyPage == [busy |-> "PAGE",  answer |-> "RELOAD", refilters |-> FALSE, keeps |-> TRUE]
CustomerPage == [busy |-> "PAGE",  answer |-> "RELOAD", refilters |-> TRUE, keeps |-> TRUE]
CalendarPage == [busy |-> "ENTRY", answer |-> "RELOAD", refilters |-> TRUE, keeps |-> TRUE]
CampaignPage == [busy |-> "NONE",  answer |-> "RELOAD", refilters |-> TRUE, keeps |-> TRUE]
RulePage == [busy |-> "NONE", answer |-> "RELOAD", refilters |-> FALSE, keeps |-> TRUE]
\* The customer's sessions; of profile and preferences the answer is the whole
\* account, read after the change.
SecurityPage == [busy |-> "PAGE", answer |-> "RELOAD", refilters |-> FALSE, keeps |-> FALSE]
AccountPage == [busy |-> "PAGE", answer |-> "RELOAD", refilters |-> FALSE, keeps |-> TRUE]
CommunicationsPage == [busy |-> "PAGE", answer |-> "RELOAD", refilters |-> TRUE, keeps |-> TRUE]
ReportsPage == [busy |-> "ALL", answer |-> "RELOAD", refilters |-> TRUE, keeps |-> TRUE]
LedgerPage == [busy |-> "ALL", answer |-> "RELOAD", refilters |-> TRUE, keeps |-> FALSE]

Pages == {StaffPage, ReviewPage, FleetPage, BranchPage, ContentPage, PolicyPage,
          CustomerPage, CalendarPage, CampaignPage, RulePage, SecurityPage,
          AccountPage, CommunicationsPage, ReportsPage, LedgerPage}

OfficeListsInit ==
  /\ page \in Pages
  /\ stored = [e \in Entries |-> 1]
  /\ listed = [e \in Entries |-> 0]
  /\ own = [e \in Entries |-> 0]
  /\ error = FALSE
  /\ RequestInit

\* Another administrator's change.
StoredElsewhere(e) ==
  /\ stored[e] < MaxVersion
  /\ stored' = [stored EXCEPT ![e] = @ + 1]
  /\ UNCHANGED <<page, listed, own, error, request>>
-----------------------------------------------------------------------------
\* A request that belongs to a change carries the entry changed.
Reading(e) == [op |-> "LIST", entry |-> e]

Loaded == \A e \in Entries : listed[e] # 0

\* When the page opens, and when its filter is changed.
LoadList(h) ==
  /\ \/ ~Loaded /\ \A g \in Handlers : request[g] = NoRequest
     \/ page.refilters
  /\ Begin(h, Reading(None))
  /\ error' = FALSE
  /\ UNCHANGED <<page, stored, listed, own>>

ListRead(h) ==
  /\ request[h].op = "LIST"
  /\ Continue(h, [op |-> "ARRIVE", entry |-> request[h].entry, versions |-> stored])
  /\ UNCHANGED <<page, stored, listed, own, error>>

ListShown(h) ==
  /\ request[h].op = "ARRIVE"
  /\ listed' = request[h].versions
  /\ Finish(h)
  /\ UNCHANGED <<page, stored, own, error>>

\* Changes under way on the page, the list read after them included.
UnderWay == {request[h].entry : h \in {g \in Handlers : request[g] # NoRequest}} \ {None}

\* Whether an entry may be saved now.  (Slip: the button stays enabled.)
FreeAlways(e) == TRUE

Free(e) ==
  CASE page.busy = "PAGE"  -> UnderWay = {}
    [] page.busy = "ENTRY" -> e \notin UnderWay
    [] page.busy = "NONE"  -> TRUE
    [] page.busy = "ALL"   -> FALSE

SaveEntry(h, e) ==
  /\ Loaded /\ Free(e)
  /\ Begin(h, [op |-> "STORE", entry |-> e])
  /\ error' = FALSE
  /\ UNCHANGED <<page, stored, listed, own>>

EntryStored(h) ==
  LET e == request[h].entry IN
  /\ request[h].op = "STORE" /\ stored[e] < MaxVersion
  /\ stored' = [stored EXCEPT ![e] = @ + 1]
  /\ Continue(h, [op |-> "STORED", entry |-> e, version |-> stored[e] + 1])
  /\ UNCHANGED <<page, listed, own, error>>

SaveAnswered(h) ==
  LET e == request[h].entry
      version == request[h].version
  IN
  /\ request[h].op = "STORED"
  /\ own' = [own EXCEPT ![e] = IF version > @ THEN version ELSE @]
  /\ \/ /\ page.answer = "RELOAD" /\ Continue(h, Reading(e)) /\ listed' = listed
     \/ /\ page.answer = "ENTRY" /\ Finish(h)
        /\ listed' = [listed EXCEPT ![e] = version]
  /\ UNCHANGED <<page, stored, error>>

\* Refused, or lost before or after.
OfficeCallFails(h) ==
  /\ request[h] # NoRequest
  /\ Finish(h)
  /\ error' = TRUE
  /\ \/ listed' = listed
     \/ /\ ~page.keeps /\ request[h].op \in {"LIST", "ARRIVE"}
        /\ listed' = [e \in Entries |-> 0]
  /\ UNCHANGED <<page, stored, own>>

OfficeListsNext ==
  \/ \E e \in Entries : StoredElsewhere(e) \/ \E h \in Handlers : SaveEntry(h, e)
  \/ \E h \in Handlers :
       \/ LoadList(h) \/ ListRead(h) \/ ListShown(h)
       \/ EntryStored(h) \/ SaveAnswered(h) \/ OfficeCallFails(h)

OfficeListsSpec == OfficeListsInit /\ [][OfficeListsNext]_officeVars
-----------------------------------------------------------------------------
OfficeListsTypeOK ==
  /\ page \in Pages
  /\ stored \in [Entries -> 1..MaxVersion]
  /\ listed \in [Entries -> 0..MaxVersion]
  /\ own \in [Entries -> 0..MaxVersion]
  /\ error \in BOOLEAN

(***************************************************************************)
(* Once nothing is under way and no error is shown, a page that holds back *)
(* every other change during one shows its own changes: no list read       *)
(* earlier arrives over them.                                              *)
(***************************************************************************)
OwnChangesShown ==
  (/\ page.busy = "PAGE" /\ ~page.refilters /\ ~error
   /\ \A h \in Handlers : request[h] = NoRequest)
    => \A e \in Entries : listed[e] >= own[e]
=============================================================================
