-------------------------- MODULE StaffOnboarding --------------------------
(***************************************************************************)
(* The page that takes an employee from the password to the workspace: the *)
(* second factor, the recovery codes, an administrator's first address,    *)
(* and the end of the temporary password.  The page goes from stage to     *)
(* stage by what the last answer told it, while an administrator may reset *)
(* the access, the password may be reset by e-mail, and a timer runs.      *)
(*                                                                         *)
(* Guesses, texts and the suspension of the account are left out, see      *)
(* Accounts; a refusal is a call that fails.                               *)
(***************************************************************************)
EXTENDS Requests

\* "None" is none of the actions, nor what a request that found no session holds.
ASSUME StaffOnboardingAssumption ==
  None \notin {"ENROLL_MFA", "SET_PRIMARY_EMAIL", "CHANGE_TEMPORARY_PASSWORD", "NONE", "?"}

VARIABLES
  employee,  \* the account: role, second factor enrolled, address verified,
             \* password temporary
  browser,   \* its cookies: whether the challenge can still be used, and the
             \* session; late: opened from an account read before a change
  lapsed,    \* the time of the last challenge is over
  screen     \* stage; whether a challenge is held; the action the session held
             \* asks for; whether an address code was sent

onboardingVars == <<employee, browser, lapsed, screen, request>>

Stages == {"auth", "loading", "mfa", "recovery", "email", "password", "complete", "expired"}

Entering(stage) == [stage |-> stage, held |-> FALSE, action |-> None, sent |-> FALSE]

StaffOnboardingInit ==
  /\ \E r \in {"SALES", "ADMIN"} :
       employee = [role |-> r, enrolled |-> FALSE, verified |-> r = "SALES",
                   temporary |-> TRUE]
  /\ browser = [challenge |-> FALSE, session |-> FALSE, late |-> FALSE]
  /\ lapsed = FALSE
  /\ screen = Entering("auth")
  /\ RequestInit

\* What the account still has to do.  (Slip: the password before the address.)
SecurityActionPasswordFirst(e) ==
  CASE ~e.enrolled -> "ENROLL_MFA"
    [] e.enrolled /\ e.temporary -> "CHANGE_TEMPORARY_PASSWORD"
    [] e.enrolled /\ ~e.temporary /\ ~e.verified -> "SET_PRIMARY_EMAIL"
    [] OTHER -> None

SecurityAction(e) ==
  CASE ~e.enrolled -> "ENROLL_MFA"
    [] e.enrolled /\ ~e.verified -> "SET_PRIMARY_EMAIL"
    [] e.enrolled /\ e.verified /\ e.temporary -> "CHANGE_TEMPORARY_PASSWORD"
    [] OTHER -> None

\* The stage an action leads to.
StageOf(action) ==
  CASE action = "SET_PRIMARY_EMAIL" -> "email"
    [] action = "CHANGE_TEMPORARY_PASSWORD" -> "password"
    [] action = "ENROLL_MFA" -> "expired"
    [] action = None -> "complete"

Quiet == \A h \in Handlers : request[h] = NoRequest

To(stage) == screen' = [screen EXCEPT !.stage = stage]
-----------------------------------------------------------------------------
(* Signing in and opening the page.                                        *)

\* The password is right: a challenge, and no session any more.
SignInAsStaff ==
  /\ screen.stage \in {"auth", "expired"} /\ Quiet
  /\ browser' = [challenge |-> TRUE, session |-> FALSE, late |-> FALSE]
  /\ lapsed' = FALSE
  /\ screen' = Entering("loading")
  /\ UNCHANGED <<employee, request>>

\* The page is opened again, by the employee or by a workspace that sends
\* there whoever has something to do.
OpenAgain ==
  /\ screen.stage # "auth" /\ Quiet
  /\ screen' = Entering("loading")
  /\ UNCHANGED <<employee, browser, lapsed, request>>

LoadPage(h) ==
  /\ screen.stage = "loading" /\ Quiet
  /\ Begin(h, [op |-> "LOAD", challenge |-> "?", action |-> "?"])
  /\ UNCHANGED <<employee, browser, lapsed, screen>>

\* The challenge and the session are asked for at the same time.
ReadChallenge(h) ==
  /\ request[h].op = "LOAD" /\ request[h].challenge = "?"
  /\ Continue(h, [request[h] EXCEPT !.challenge = IF browser.challenge THEN "HELD" ELSE "NONE"])
  /\ UNCHANGED <<employee, browser, lapsed, screen>>

ReadSession(h) ==
  /\ request[h].op = "LOAD" /\ request[h].action = "?"
  /\ Continue(h, [request[h] EXCEPT !.action =
                    IF browser.session THEN SecurityAction(employee) ELSE "NONE"])
  /\ UNCHANGED <<employee, browser, lapsed, screen>>

PageLoaded(h) ==
  LET action == request[h].action IN
  /\ request[h].op = "LOAD" /\ request[h].challenge # "?" /\ action # "?"
  /\ screen' = CASE request[h].challenge = "HELD" ->
                      [screen EXCEPT !.stage = "mfa", !.held = TRUE]
                 [] request[h].challenge = "NONE" /\ action = "NONE" ->
                      [screen EXCEPT !.stage = "expired"]
                 [] OTHER -> [screen EXCEPT !.stage = StageOf(action), !.action = action]
  /\ Finish(h)
  /\ UNCHANGED <<employee, browser, lapsed>>
-----------------------------------------------------------------------------
(* The second factor.                                                      *)

ConfirmFactor(h) ==
  /\ screen.stage = "mfa" /\ Quiet
  /\ Begin(h, [op |-> "CONFIRM"])
  /\ UNCHANGED <<employee, browser, lapsed, screen>>

\* The challenge is consumed, the factor enrolled if it was not.
FactorAccepted(h) ==
  /\ request[h].op = "CONFIRM" /\ browser.challenge
  /\ browser' = [browser EXCEPT !.challenge = FALSE]
  /\ employee' = [employee EXCEPT !.enrolled = TRUE]
  /\ Continue(h, [op |-> "ISSUE", enrolling |-> ~employee.enrolled,
                  user |-> [employee EXCEPT !.enrolled = TRUE]])
  /\ UNCHANGED <<lapsed, screen>>

\* The session is opened for the account as it was read.
SessionIssued(h) ==
  /\ request[h].op = "ISSUE"
  /\ browser' = [browser EXCEPT !.session = TRUE, !.late = request[h].user # employee]
  /\ Continue(h, [op |-> "ISSUED", enrolling |-> request[h].enrolling,
                  action |-> SecurityAction(request[h].user)])
  /\ UNCHANGED <<employee, lapsed, screen>>

\* Whoever has just enrolled is shown the recovery codes first.
FactorAnswered(h) ==
  LET action == request[h].action IN
  /\ request[h].op = "ISSUED"
  /\ screen' = [screen EXCEPT !.action = action,
       !.stage = IF request[h].enrolling THEN "recovery" ELSE StageOf(action)]
  /\ Finish(h)
  /\ UNCHANGED <<employee, browser, lapsed>>

ContinueAfterRecovery ==
  /\ screen.stage = "recovery"
  /\ To(StageOf(screen.action))
  /\ UNCHANGED <<employee, browser, lapsed, request>>

\* The countdown runs as long as a challenge is held, which the page never
\* lets go of, and shows "expired" every second once the time is over.
CountdownEnds ==
  /\ screen.held /\ lapsed /\ screen.stage # "expired"
  /\ To("expired")
  /\ UNCHANGED <<employee, browser, lapsed, request>>
-----------------------------------------------------------------------------
(* The first address and the first password of one's own.                  *)

\* initialAdminEmailSetup.
MaySetEmail ==
  /\ browser.session /\ employee.role = "ADMIN" /\ employee.enrolled
  /\ ~employee.verified /\ employee.temporary

SubmitPrimaryEmail(h) ==
  /\ screen.stage = "email" /\ Quiet
  /\ Begin(h, [op |-> IF screen.sent THEN "EMAIL" ELSE "CODE"])
  /\ UNCHANGED <<employee, browser, lapsed, screen>>

EmailAccepted(h) ==
  /\ request[h].op \in {"EMAIL", "CODE"} /\ MaySetEmail
  /\ employee' = [employee EXCEPT !.verified = request[h].op = "EMAIL"]
  /\ Continue(h, [op |-> IF request[h].op = "EMAIL" THEN "VERIFIED" ELSE "MAILED"])
  /\ UNCHANGED <<browser, lapsed, screen>>

EmailAnswered(h) ==
  /\ request[h].op \in {"VERIFIED", "MAILED"}
  /\ screen' = IF request[h].op = "MAILED" THEN [screen EXCEPT !.sent = TRUE]
               ELSE [screen EXCEPT !.stage = "password", !.action = "CHANGE_TEMPORARY_PASSWORD"]
  /\ Finish(h)
  /\ UNCHANGED <<employee, browser, lapsed>>

AnotherEmail ==
  /\ screen.stage = "email" /\ screen.sent
  /\ screen' = [screen EXCEPT !.sent = FALSE]
  /\ UNCHANGED <<employee, browser, lapsed, request>>

SubmitPassword(h) ==
  /\ screen.stage = "password" /\ Quiet
  /\ Begin(h, [op |-> "PASSWORD"])
  /\ UNCHANGED <<employee, browser, lapsed, screen>>

PasswordAccepted(h) ==
  /\ request[h].op = "PASSWORD" /\ browser.session /\ employee.enrolled
  /\ employee' = [employee EXCEPT !.temporary = FALSE]
  /\ Continue(h, [op |-> "CHANGED"])
  /\ UNCHANGED <<browser, lapsed, screen>>

PasswordAnswered(h) ==
  /\ request[h].op = "CHANGED"
  /\ screen' = [screen EXCEPT !.stage = "complete", !.action = None]
  /\ Finish(h)
  /\ UNCHANGED <<employee, browser, lapsed>>

\* Refused, or lost before or after, the cookie of a new session with it.  The
\* page gives up when it cannot be loaded, and when the challenge is over or
\* guessed at too often.
OnboardingCallFails(h) ==
  /\ request[h] # NoRequest
  /\ Finish(h)
  /\ \/ request[h].op # "LOAD" /\ screen' = screen
     \/ request[h].op \in {"LOAD", "CONFIRM"} /\ To("expired")
  /\ browser' \in {browser} \cup
       IF request[h].op = "ISSUED" THEN {[browser EXCEPT !.session = FALSE]} ELSE {}
  /\ UNCHANGED <<employee, lapsed>>
-----------------------------------------------------------------------------
(* Elsewhere.                                                              *)

ChallengeLapses ==
  /\ ~lapsed
  /\ lapsed' = TRUE
  /\ browser' = [browser EXCEPT !.challenge = FALSE]
  /\ UNCHANGED <<employee, screen, request>>

AccessReset ==
  /\ employee' = [employee EXCEPT !.temporary = TRUE]
  /\ browser' = [browser EXCEPT !.challenge = FALSE, !.session = FALSE]
  /\ UNCHANGED <<lapsed, screen, request>>

PasswordResetByEmail ==
  /\ employee' = [employee EXCEPT !.temporary = FALSE]
  /\ browser' = [browser EXCEPT !.session = FALSE]
  /\ UNCHANGED <<lapsed, screen, request>>

StaffOnboardingNext ==
  \/ SignInAsStaff \/ OpenAgain \/ ContinueAfterRecovery \/ CountdownEnds \/ AnotherEmail
  \/ ChallengeLapses \/ AccessReset \/ PasswordResetByEmail
  \/ \E h \in Handlers :
       \/ LoadPage(h) \/ ReadChallenge(h) \/ ReadSession(h) \/ PageLoaded(h)
       \/ ConfirmFactor(h) \/ FactorAccepted(h) \/ SessionIssued(h) \/ FactorAnswered(h)
       \/ SubmitPrimaryEmail(h) \/ EmailAccepted(h) \/ EmailAnswered(h)
       \/ SubmitPassword(h) \/ PasswordAccepted(h) \/ PasswordAnswered(h)
       \/ OnboardingCallFails(h)

StaffOnboardingSpec == StaffOnboardingInit /\ [][StaffOnboardingNext]_onboardingVars
-----------------------------------------------------------------------------
Actions == {"ENROLL_MFA", "SET_PRIMARY_EMAIL", "CHANGE_TEMPORARY_PASSWORD", None}

Employees == [role : {"SALES", "ADMIN"}, enrolled : BOOLEAN, verified : BOOLEAN,
              temporary : BOOLEAN]
Browsers == [challenge : BOOLEAN, session : BOOLEAN, late : BOOLEAN]
Screens == [stage : Stages, held : BOOLEAN, sent : BOOLEAN, action : Actions]

StaffOnboardingTypeOK ==
  /\ employee \in Employees
  /\ browser \in Browsers
  /\ lapsed \in BOOLEAN
  /\ screen \in Screens

(***************************************************************************)
(* Where the page says the account is complete and its session still       *)
(* holds, nothing is left to do: each stage follows from an answer of its  *)
(* own, and a reset ends the session.  Only a session opened from an       *)
(* account read before a reset (completeStaffMfaChallenge) is excepted.    *)
(***************************************************************************)
CompleteIsSecured ==
  screen.stage = "complete" /\ browser.session /\ ~browser.late
    => SecurityAction(employee) = None
=============================================================================
