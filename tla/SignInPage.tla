------------------------------ MODULE SignInPage ------------------------------
(***************************************************************************)
(* The page on which one signs in or registers, has the address verified   *)
(* by a code, and signs out.                                               *)
(*                                                                         *)
(* A call acts for the session whose cookie it is sent with.  The cookie   *)
(* is the browser's and not the page's: another tab may sign in as         *)
(* somebody else, sign out, or verify the address, while the page shows    *)
(* what it was told last.  Answers are shown when they come.               *)
(*                                                                         *)
(* Employees go from here to StaffOnboarding.  Codes are guessed at, and   *)
(* sessions end, in Accounts; here a refused call is one that fails.       *)
(***************************************************************************)
EXTENDS Requests

CONSTANT People     \* the customers

VARIABLES
  standing,   \* per customer: no account, PENDING_VERIFICATION, or ACTIVE
  mailed,     \* customers in whose mailbox the code is that is still good
  cookie,     \* whose session the browser has
  desk        \* the page

signInVars == <<standing, mailed, cookie, desk, request>>

Standings == {"NONE", "PENDING_VERIFICATION", "ACTIVE"}

\* What the server says of an account (toAuthUser).
UserOf(p) == [person |-> p, verified |-> standing[p] = "ACTIVE"]

SignedIn == desk.session # None

Ask(h, call) ==
  /\ Begin(h, call)
  /\ UNCHANGED <<standing, mailed, cookie>>

Page(d) == desk' = d /\ UNCHANGED <<standing, mailed, cookie>>

SignInPageInit ==
  /\ standing \in [People -> Standings]
  /\ mailed = {}
  /\ cookie \in {None} \cup {p \in People : standing[p] # "NONE"}
  /\ desk = [session |-> None, mode |-> "closed", field |-> FALSE,
             submitting |-> FALSE, verifying |-> FALSE, leaving |-> FALSE]
  /\ RequestInit

\* The page is opened and asks who it is for.
OpenSignIn(h) ==
  /\ desk.mode = "closed"
  /\ Ask(h, [op |-> "SESSION", sender |-> cookie])
  /\ desk' = [desk EXCEPT !.mode = "login"]

\* Read from the account of the sender.
SessionRead(h) ==
  /\ request[h].op = "SESSION" /\ request[h].sender # None
  /\ Continue(h, [op |-> "FOUND", user |-> UserOf(request[h].sender)])
  /\ UNCHANGED <<standing, mailed, cookie, desk>>

SessionShown(h) ==
  /\ request[h].op = "FOUND"
  /\ Finish(h) /\ Page([desk EXCEPT !.session = request[h].user])
-----------------------------------------------------------------------------
(* Signing in and out.                                                     *)

SwitchMode ==
  /\ ~SignedIn /\ desk.mode # "closed"
  /\ \E m \in {"login", "register"} \ {desk.mode} : Page([desk EXCEPT !.mode = m])
  /\ UNCHANGED request

SubmitSignIn(h) ==
  /\ ~SignedIn /\ desk.mode # "closed" /\ ~desk.submitting
  /\ \E p \in People : Ask(h, [op |-> desk.mode, person |-> p])
  /\ desk' = [desk EXCEPT !.submitting = TRUE]

SignInAccepted(h) ==
  LET p == request[h].person IN
  /\ \/ request[h].op = "login" /\ standing[p] # "NONE" /\ UNCHANGED standing
     \/ /\ request[h].op = "register" /\ standing[p] = "NONE"
        /\ standing' = [standing EXCEPT ![p] = "PENDING_VERIFICATION"]
  /\ Continue(h, [op |-> "SIGNED_IN",
                  user |-> [person |-> p, verified |-> standing[p] = "ACTIVE"]])
  /\ UNCHANGED <<mailed, cookie, desk>>

\* The answer brings the cookie.
SignInAnswered(h) ==
  /\ request[h].op = "SIGNED_IN"
  /\ Finish(h)
  /\ cookie' = request[h].user.person
  /\ desk' = [desk EXCEPT !.session = request[h].user, !.submitting = FALSE]
  /\ UNCHANGED <<standing, mailed>>

Logout(h) ==
  /\ SignedIn /\ ~desk.leaving
  /\ Ask(h, [op |-> "LOGOUT"])
  /\ desk' = [desk EXCEPT !.leaving = TRUE]

LogoutAnswered(h) ==
  /\ request[h].op = "LOGOUT"
  /\ Finish(h)
  /\ cookie' = None
  /\ desk' = [desk EXCEPT !.session = None, !.field = FALSE, !.mode = "login",
                          !.leaving = FALSE]
  /\ UNCHANGED <<standing, mailed>>
-----------------------------------------------------------------------------
(* Verifying the address.                                                  *)

AskForCode(h) ==
  /\ SignedIn /\ ~desk.session.verified /\ ~desk.verifying
  /\ Ask(h, [op |-> "CODE", sender |-> cookie])
  /\ desk' = [desk EXCEPT !.verifying = TRUE]

\* Refused for an address that is verified already.
CodeMailed(h) ==
  LET p == request[h].sender IN
  /\ request[h].op = "CODE" /\ p # None
  /\ standing[p] # "ACTIVE"
  /\ mailed' = mailed \cup {p}
  /\ Continue(h, [op |-> "MAILED"])
  /\ UNCHANGED <<standing, cookie, desk>>

FieldShown(h) ==
  /\ request[h].op = "MAILED"
  /\ Finish(h) /\ Page([desk EXCEPT !.field = TRUE, !.verifying = FALSE])

CancelVerification ==
  /\ SignedIn /\ desk.field
  /\ Page([desk EXCEPT !.field = FALSE]) /\ UNCHANGED request

\* The handler of the form keeps the session shown when it was submitted.
ConfirmCode(h) ==
  /\ SignedIn /\ desk.field /\ ~desk.verifying
  /\ Ask(h, [op |-> "CONFIRM", sender |-> cookie, kept |-> desk.session])
  /\ desk' = [desk EXCEPT !.verifying = TRUE]

\* What is typed is the code of the sender.  The two writes are one commit.
CodeConsumed(h) ==
  LET p == request[h].sender IN
  /\ request[h].op = "CONFIRM" /\ p \in mailed
  /\ mailed' = mailed \ {p}
  /\ standing' = [standing EXCEPT ![p] = "ACTIVE"]
  /\ Continue(h, [op |-> "CONFIRMED", kept |-> request[h].kept,
                  user |-> [person |-> p, verified |-> TRUE]])
  /\ UNCHANGED <<cookie, desk>>

\* The session shown from then on.  (Slip: the one kept, ticked as verified.)
SessionAfterKept(kept, user) == [kept EXCEPT !.verified = TRUE]

SessionAfter(kept, user) == user

VerificationShown(h) ==
  /\ request[h].op = "CONFIRMED"
  /\ Finish(h)
  /\ Page([desk EXCEPT !.session = SessionAfter(request[h].kept, request[h].user),
                       !.field = FALSE, !.verifying = FALSE])

\* Refused, or lost before the server or after it, then with its cookie.
SignInCallFails(h) ==
  /\ request[h] # NoRequest
  /\ Finish(h)
  /\ Page(CASE request[h].op \in {"SESSION", "FOUND"} -> desk
            [] request[h].op \in {"login", "register", "SIGNED_IN"} ->
                 [desk EXCEPT !.submitting = FALSE]
            [] request[h].op = "LOGOUT" -> [desk EXCEPT !.leaving = FALSE]
            [] OTHER -> [desk EXCEPT !.verifying = FALSE])
-----------------------------------------------------------------------------
(* Another tab of the browser.                                             *)

SignInElsewhere ==
  /\ cookie' \in ({None} \cup {p \in People : standing[p] # "NONE"}) \ {cookie}
  /\ UNCHANGED <<standing, mailed, desk, request>>

\* The code is typed there.
VerifyElsewhere ==
  /\ cookie \in mailed
  /\ mailed' = mailed \ {cookie}
  /\ standing' = [standing EXCEPT ![cookie] = "ACTIVE"]
  /\ UNCHANGED <<cookie, desk, request>>

SignInPageNext ==
  \/ SwitchMode \/ CancelVerification \/ SignInElsewhere \/ VerifyElsewhere
  \/ \E h \in Handlers :
       \/ OpenSignIn(h) \/ SessionRead(h) \/ SessionShown(h)
       \/ SubmitSignIn(h) \/ SignInAccepted(h) \/ SignInAnswered(h)
       \/ Logout(h) \/ LogoutAnswered(h)
       \/ AskForCode(h) \/ CodeMailed(h) \/ FieldShown(h)
       \/ ConfirmCode(h) \/ CodeConsumed(h) \/ VerificationShown(h)
       \/ SignInCallFails(h)

SignInPageSpec == SignInPageInit /\ [][SignInPageNext]_signInVars
-----------------------------------------------------------------------------
Users == [person : People, verified : BOOLEAN]

Desks ==
  [session : Users \cup {None}, mode : {"closed", "login", "register"}, field : BOOLEAN,
   submitting : BOOLEAN, verifying : BOOLEAN, leaving : BOOLEAN]

SignInPageTypeOK ==
  /\ standing \in [People -> Standings]
  /\ mailed \subseteq {p \in People : standing[p] = "PENDING_VERIFICATION"}
  /\ cookie \in People \cup {None}
  /\ desk \in Desks

(***************************************************************************)
(* Whom the page calls verified is: a confirmation counts for the session  *)
(* of the cookie, which need not be the one the page showed when the code  *)
(* was sent or typed, nor the one it shows by the time of the answer.      *)
(***************************************************************************)
VerifiedIsTrue ==
  SignedIn /\ desk.session.verified => standing[desk.session.person] = "ACTIVE"
=============================================================================
