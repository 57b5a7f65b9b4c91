------------------------------ MODULE MCDrafts ------------------------------
(* An instance of DraftSubmission, with its pages, and one of the reports  *)
(* that count what was submitted: a behaviour follows one of them, "part", *)
(* and the other rests.                                                    *)
EXTENDS DraftControls, Reports, TLC

\* The number of pairs that a report takes for a sum is the sum.
ASSUME TotalIsSum ==
  \A n \in 0..3 : \A points \in [1..n -> 0..3] :
    Total(points) = Sets!MapThenSumSet(LAMBDA p : points[p], 1..n)

CONSTANTS EGYPTIAN, FOREIGN, ID, PASSPORT, q1, q2

\* Every row is a draft of the same car, period and driver choice.
OneSelection == [r \in Drafts |-> None]

\* An Egyptian shows an identity card, a foreigner a passport.
RequiredByCategory ==
  [c \in Categories |-> IF c = FOREIGN THEN {PASSPORT} ELSE {ID}]

VARIABLE part

PartInit == part \in {"DRAFTS", "REPORTS"} /\ Init /\ ReportsInit

\* A report is followed until its queries are answered.  Sums are of two
\* requests, which need not be told apart; one at a time has been submitted while
\* a report is read, as its queries are compared request by request.
ReportsRun ==
  /\ ReportsNext
  /\ ReportAsked => report.answered # Queries
  /\ ReportAsked' => rental'[q2].submitted = 0
  /\ rental'[q2].submitted # 0 => rental'[q1].submitted # 0

PartNext ==
  /\ part' = part
  /\ \/ part = "DRAFTS" /\ Next /\ UNCHANGED reportVars
     \/ part = "REPORTS" /\ ReportsRun /\ UNCHANGED vars

PartSpec == PartInit /\ [][PartNext]_<<part, vars, reportVars>>

Interchangeable == Permutations(Handlers) \cup Permutations(Keys)
=============================================================================
