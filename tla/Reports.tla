------------------------------- MODULE Reports -------------------------------
(***************************************************************************)
(* What the administrator's overview and reports count, over requests that *)
(* go on while they are read.                                              *)
(*                                                                         *)
(* A report is of two windows that meet, the later of which ends when the  *)
(* report is asked for.  Each window is read by queries that are answered  *)
(* one by one, while the requests go on; a figure is of the rows of one    *)
(* query.  A handler stamps a row and commits it at most an instant later. *)
(*                                                                         *)
(* An instant stands for a day of the reports and one deposit is like      *)
(* another.  The windows of a report do not meet again, so that one window *)
(* of one report is followed.  Branches, minutes, rates, rounding, the mix *)
(* of statuses, the tables of cars and employees and the checks of data    *)
(* are left out.                                                           *)
(***************************************************************************)
EXTENDS Integers, FiniteSets

Sets == INSTANCE FiniteSetsExt

CONSTANTS
  Rentals,        \* the requests
  ReportRange,    \* instants of a window
  BucketSize,     \* instants of a point of its trend
  DayLength,      \* instants of a day of the overview
  TrendDays,      \* days of its trend
  LastInstant     \* bound of the clock

ASSUME ReportsAssumption ==
  /\ \A n \in {ReportRange, BucketSize, DayLength, TrendDays, LastInstant} : n \in Nat \ {0}
  /\ IsFiniteSet(Rentals)

VARIABLES
  now,
  rental,      \* the row of each request, 0 for a time it does not have
  report       \* the report being read, and what its queries have answered

reportVars == <<now, rental, report>>

Times == {"submitted", "confirmed", "completed", "deposited"}

NoReport == [asked |-> 0]

ReportsInit ==
  /\ now = 1
  /\ rental = [r \in Rentals |->
                 [status |-> "DRAFT", milestones |-> {},
                  submitted |-> 0, confirmed |-> 0, completed |-> 0, deposited |-> 0]]
  /\ report = NoReport

ReportDayPasses ==
  /\ now < LastInstant /\ now' = now + 1
  /\ UNCHANGED <<rental, report>>
-----------------------------------------------------------------------------
(* The life of a request, as far as its row is counted.                    *)

Goes(r, from, to) ==
  /\ rental[r].status \in from
  /\ rental' = [rental EXCEPT ![r].status = to]
  /\ UNCHANGED <<now, report>>

Stamped(r, from, to, field) ==
  /\ rental[r].status \in from
  /\ \E at \in {now - 1, now} \ {0} :
       /\ \A f \in Times : at >= rental[r][f]
       /\ rental' = [rental EXCEPT ![r].status = to, ![r][field] = at]
  /\ UNCHANGED <<now, report>>

Passes(r, from, to) ==
  /\ rental[r].status = from
  /\ rental' = [rental EXCEPT ![r].status = to, ![r].milestones = @ \cup {to}]
  /\ UNCHANGED <<now, report>>

SubmitRental(r) == Stamped(r, {"DRAFT"}, "PENDING_REVIEW", "submitted")
ReviewRental(r) == Passes(r, "PENDING_REVIEW", "UNDER_REVIEW")
ApproveRental(r) == Passes(r, "UNDER_REVIEW", "PRE_APPROVED")
DepositTaken(r) ==
  rental[r].deposited = 0 /\ Stamped(r, {"PRE_APPROVED"}, "PRE_APPROVED", "deposited")
BookRental(r) ==
  rental[r].deposited # 0 /\ Stamped(r, {"PRE_APPROVED"}, "CONFIRMED", "confirmed")
FinishRental(r) == Stamped(r, {"CONFIRMED"}, "COMPLETED", "completed")
RejectRental(r) ==
  \/ Goes(r, {"PENDING_REVIEW", "UNDER_REVIEW"}, "REJECTED")
  \/ Goes(r, {"PRE_APPROVED"}, "EXPIRED")
MissRental(r) == Goes(r, {"CONFIRMED"}, "NO_SHOW")
-----------------------------------------------------------------------------
(* The rows a query of a window gets.                                      *)

Windows(end) ==
  {[start |-> end - ReportRange, end |-> end],
   [start |-> end - 2 * ReportRange, end |-> end - ReportRange]}

In(at, w) == at # 0 /\ w.start <= at /\ at < w.end

Cohort(w) == {r \in Rentals : In(rental[r].submitted, w)}

Activity(w) ==
  {r \in Rentals : \E f \in {"submitted", "confirmed", "completed"} : In(rental[r][f], w)}

Deposits(w) == {r \in Rentals : In(rental[r].deposited, w)}

\* A time of a row of the activity is counted if it is in the window.  (Slip:
\* if there is one, since another time of the row is.)
CountedIfThere(at, w) == at # 0

Counted(at, w) == In(at, w)

Dated(rows, field, w) == {r \in rows : Counted(rental[r][field], w)}
-----------------------------------------------------------------------------
(* A report is asked for, and each of its queries answered.                *)

Having(rows, field) == {r \in rows : rental[r][field] # 0}

InStatus(rows, statuses) == {r \in rows : rental[r].status \in statuses}

Passed(rows, milestone) == {r \in rows : milestone \in rental[r].milestones}

Queries == {"COHORT", "ACTIVITY", "MILESTONES"}

ReportAsked == report.asked # 0

\* "drafts" and "waiting" are not read by the program: the requests that were
\* not submitted, and not pre-approved, when the report was asked for.
AskReport(w) ==
  /\ ~ReportAsked
  /\ report' = [asked |-> now, window |-> w, answered |-> {},
                drafts |-> InStatus(Rentals, {"DRAFT"}),
                waiting |-> Rentals \ Passed(Rentals, "PRE_APPROVED"),
                cohort |-> {}, confirmed |-> {}, completed |-> {}, lost |-> {},
                trend |-> {}, reviewed |-> {}, approved |-> {}]
  /\ UNCHANGED <<now, rental>>

Unanswered(q) == ReportAsked /\ q \notin report.answered

CohortAnswered ==
  /\ Unanswered("COHORT")
  /\ LET rows == Cohort(report.window) IN
     report' = [report EXCEPT
       !.answered = @ \cup {"COHORT"}, !.cohort = rows,
       !.confirmed = Having(rows, "confirmed"), !.completed = Having(rows, "completed"),
       !.lost = InStatus(rows, {"REJECTED", "EXPIRED", "CANCELLED", "NO_SHOW"})]
  /\ UNCHANGED <<now, rental>>

ActivityAnswered ==
  /\ Unanswered("ACTIVITY")
  /\ report' = [report EXCEPT
       !.answered = @ \cup {"ACTIVITY"},
       !.trend = Dated(Activity(report.window), "submitted", report.window)]
  /\ UNCHANGED <<now, rental>>

\* An assignee makes a request of the cohort one that is reviewed, too.
MilestonesAnswered ==
  /\ Unanswered("MILESTONES")
  /\ LET rows == Cohort(report.window) IN
     report' = [report EXCEPT
       !.answered = @ \cup {"MILESTONES"},
       !.reviewed = Passed(rows, "UNDER_REVIEW"), !.approved = Passed(rows, "PRE_APPROVED")]
  /\ UNCHANGED <<now, rental>>

ReportsNext ==
  \/ ReportDayPasses
  \/ \E r \in Rentals :
       \/ SubmitRental(r) \/ ReviewRental(r) \/ ApproveRental(r) \/ DepositTaken(r)
       \/ BookRental(r) \/ FinishRental(r) \/ RejectRental(r) \/ MissRental(r)
  \/ \E w \in Windows(now) : AskReport(w)
  \/ CohortAnswered \/ ActivityAnswered \/ MilestonesAnswered

ReportsSpec == ReportsInit /\ [][ReportsNext]_reportVars
-----------------------------------------------------------------------------
(* The figures that are sums.                                              *)

\* The sum of the values of "points": each unit counted at one of them, counted.
Units(points) == UNION {{p} \X (1..points[p]) : p \in DOMAIN points}

Total(points) == Cardinality(Units(points))

Points(w) == 0..((w.end - w.start + BucketSize - 1) \div BucketSize - 1)

Bucket(at, w) ==
  Sets!Min({Sets!Max(Points(w)), Sets!Max({0, (at - w.start) \div BucketSize})})

\* How many of the rows fall into each point.
Trend(rows, field, w) ==
  [p \in Points(w) |->
    Cardinality({r \in Dated(rows, field, w) : Bucket(rental[r][field], w) = p})]

\* The overview: the day it is asked for, and the days before it.
DayOf(at) == at \div DayLength

OverviewDays(asked) == (DayOf(asked) - TrendDays + 1)..DayOf(asked)

OverviewTrend(field, asked) ==
  [d \in OverviewDays(asked) |->
    Cardinality({r \in Rentals : rental[r][field] # 0 /\ DayOf(rental[r][field]) = d})]
-----------------------------------------------------------------------------
(* The day a report calls today: hours of a calendar whose clocks are put  *)
(* forward when the second day begins and back when the fourth would.      *)

CairoOffset(hour) == IF 24 - 2 <= hour /\ hour < 3 * 24 - 3 THEN 3 ELSE 2

CairoDate(hour) == (hour + CairoOffset(hour)) \div 24

\* Guessed twice, since the first guess may be on the other side of a shift.
\* (Slip: once.)
CairoLocalMidnightOnce(date) == date * 24 - CairoOffset(date * 24)

CairoLocalMidnight(date) ==
  LET utcGuess == date * 24 IN utcGuess - CairoOffset(utcGuess - CairoOffset(utcGuess))

\* The hours from one midnight to the next.
CairoDay(hour) ==
  CairoLocalMidnight(CairoDate(hour))..(CairoLocalMidnight(CairoDate(hour) + 1) - 1)

CalendarHours == 0..(5 * 24)
-----------------------------------------------------------------------------
ReportRecords ==
  [asked : Nat, window : [start : Int, end : Int], answered : SUBSET Queries,
   drafts : SUBSET Rentals, waiting : SUBSET Rentals,
   cohort : SUBSET Rentals, confirmed : SUBSET Rentals, completed : SUBSET Rentals,
   lost : SUBSET Rentals, trend : SUBSET Rentals,
   reviewed : SUBSET Rentals, approved : SUBSET Rentals]

ReportsTypeOK ==
  /\ now \in 1..LastInstant
  /\ \A r \in Rentals :
       /\ \A f \in Times : rental[r][f] \in 0..now
       /\ rental[r].status = "DRAFT" <=> rental[r].submitted = 0
  /\ ReportAsked =>
       /\ report \in ReportRecords
       /\ report.asked <= now /\ report.window \in Windows(report.asked)

TodayIsWhole ==
  \A n \in CalendarHours :
    CairoDay(n) \cap CalendarHours = {h \in CalendarHours : CairoDate(h) = CairoDate(n)}

\* The figures made of one query, whenever it is answered.
TrendsAddUp(w) ==
  /\ \A f \in {"submitted", "completed"} :
       Total(Trend(Activity(w), f, w)) = Cardinality({r \in Activity(w) : In(rental[r][f], w)})
  /\ Total(Trend(Deposits(w), "deposited", w)) = Cardinality(Deposits(w))

\* The days of the overview leave no request of theirs out.
OverviewAddsUp(field, asked) ==
  Total(OverviewTrend(field, asked))
    = Cardinality({r \in Rentals :
                     /\ rental[r][field] # 0
                     /\ (DayOf(asked) - TrendDays + 1) * DayLength <= rental[r][field]
                     /\ rental[r][field] < (DayOf(asked) + 1) * DayLength})

\* The requests of the window that were being submitted when its end was read.
Straddling == IF report.window.end = report.asked THEN report.drafts ELSE {}

FunnelNarrows ==
  /\ report.completed \subseteq report.confirmed /\ report.completed \cap report.lost = {}
  /\ report.approved \subseteq report.reviewed
  /\ {"COHORT", "MILESTONES"} \subseteq report.answered =>
       /\ report.confirmed \subseteq report.approved \cup report.waiting
       /\ report.reviewed \subseteq report.cohort \cup Straddling

TrendIsOfCohort ==
  {"COHORT", "ACTIVITY"} \subseteq report.answered =>
    /\ report.trend \subseteq report.cohort \cup Straddling
    /\ report.cohort \subseteq report.trend \cup Straddling

(***************************************************************************)
(* Whenever a report is asked for, and in whatever order and however late  *)
(* its queries are answered: a trend adds up to the figure of its own      *)
(* query; the requests the trend says were submitted are those of the      *)
(* cohort, but for requests whose submission was not committed when the    *)
(* report was asked for, and in the earlier window without exception; and  *)
(* the funnel only narrows, but for requests that were pre-approved or     *)
(* submitted while it was read.  The days of the overview leave no request *)
(* of theirs out.  Today is the hours the calendar gives the date of the   *)
(* hour, also when the clocks are shifted.  (Before anything is submitted  *)
(* no query has rows.)                                                     *)
(***************************************************************************)
ReportAddsUp ==
  /\ TodayIsWhole
  /\ ReportAsked => FunnelNarrows /\ TrendIsOfCohort
  /\ (\E r \in Rentals : rental[r].submitted # 0) =>
      \A asked \in 1..now :
        /\ \A w \in Windows(asked) : TrendsAddUp(w)
        /\ \A f \in {"submitted", "completed"} : OverviewAddsUp(f, asked)
=============================================================================
