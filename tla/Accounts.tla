------------------------------ MODULE Accounts ------------------------------
(***************************************************************************)
(* One account: signing in with a password and, for staff, a second        *)
(* factor; the six-digit codes that verify an address, reset a password or *)
(* change the address; and whatever revokes sessions.                      *)
(*                                                                         *)
(* A handler reads the account, works (a password hash takes long), and    *)
(* commits; several of its commits are not one transaction.  Guessing is   *)
(* abstracted to right and wrong, and a time-based code to its counter.    *)
(*                                                                         *)
(* A definition marked "Slip" is no part of the model: it is a plausible   *)
(* mistake in the definition after it, kept to show which property would   *)
(* catch it.                                                               *)
(***************************************************************************)
EXTENDS Requests, Naturals, Sequences, FiniteSets

CONSTANTS
  RecoveryCodes,  \* those of the staff member's credential
  AttemptLimit,   \* 5 in the code, for codes and for challenges
  MaxCodes, MaxChallenges, MaxSessions, MaxPassword, MaxTime   \* bounds

Roles == {"CUSTOMER", "SALES", "ADMIN"}

ASSUME AccountsAssumption ==
  /\ IsFiniteSet(Handlers)
  /\ AttemptLimit \in Nat \ {0}
  /\ MaxCodes \in Nat /\ MaxChallenges \in Nat /\ MaxSessions \in Nat
  /\ MaxPassword \in Nat /\ MaxTime \in Nat \ {0}
  /\ None \notin Nat \cup RecoveryCodes
  /\ \A r \in RecoveryCodes : r \notin Nat

VARIABLES
  role,        \* User.systemRole
  account,     \* status, whether the address is verified, the password's version
  codes,       \* VerificationCode and ContactChangeChallenge rows, oldest first;
               \* open means neither used, nor invalidated, nor expired; uses
               \* counts the changes of the address a code made
  credential,  \* StaffMfaCredential: last counter, recovery codes used
  challenges,  \* StaffLoginChallenge rows, oldest first
  sessions,    \* Session rows, oldest first
  period       \* the 30-second period of the clock

factorVars == <<credential, challenges, period>>
accountVars == <<role, account, codes, factorVars, sessions, request>>

Staff == role # "CUSTOMER"
Restricted == account.status = "SUSPENDED"

AccountsInit ==
  /\ role \in Roles
  /\ account = [status |-> IF Staff THEN "ACTIVE" ELSE "PENDING",
                verified |-> role = "SALES", password |-> 0, temporary |-> Staff]
  /\ credential = [enrolled |-> FALSE, counter |-> 0, spent |-> {}]
  /\ codes = <<>> /\ challenges = <<>> /\ sessions = <<>>
  /\ period = 1
  /\ RequestInit

\* The process stops or the database refuses: a handler gets no further.
GiveUp(h) ==
  /\ request[h] # NoRequest
  /\ Finish(h)
  /\ UNCHANGED <<role, account, codes, factorVars, sessions>>
-----------------------------------------------------------------------------
(* Sessions.                                                               *)

Active(s) == s \in DOMAIN sessions /\ sessions[s].active

\* requireSessionRecord: what a session must be for the account's own pages.
Usable(s) ==
  /\ Active(s) /\ ~Restricted
  /\ Staff => /\ credential.enrolled /\ sessions[s].factor # None
              /\ ~account.temporary

\* The sessions but one are revoked.
RevokedBut(s) ==
  [i \in DOMAIN sessions |-> [sessions[i] EXCEPT !.active = @ /\ i = s]]

RevokedAll == RevokedBut(0)

\* createSession.  A session is late when the password it was opened with was
\* replaced while the sign-in was under way.
Opened(factor, challenge, password) ==
  Append(sessions, [active |-> TRUE, factor |-> factor, challenge |-> challenge,
                    password |-> password, late |-> password # account.password])

RevokeSession(s) ==
  /\ Active(s)
  /\ sessions' = [sessions EXCEPT ![s].active = FALSE]
  /\ UNCHANGED <<role, account, codes, factorVars, request>>

\* From one session another, or itself, is revoked.
RevokeOwned(s, other) == Usable(s) /\ RevokeSession(other)

RevokeOthers(s) ==
  /\ Usable(s)
  /\ sessions' = RevokedBut(s)
  /\ UNCHANGED <<role, account, codes, factorVars, request>>

\* Suspended stands for blocked too.
SetStatus(status) ==
  /\ account' = [account EXCEPT !.status = status]
  /\ sessions' = RevokedAll
  /\ UNCHANGED <<role, codes, factorVars, request>>

\* admin-customers: only to another status.
UpdateCustomerStatus(status) ==
  ~Staff /\ status # account.status /\ SetStatus(status)

\* updateStaff: the same status again, or a new role or address, revokes too.
UpdateStaff(status) == Staff /\ SetStatus(status)

\* The rights of the employee, or of the employee's role, are replaced.
ReplacePermissions == Staff /\ SetStatus(account.status)

\* Every challenge is invalidated.
ChallengesDropped == [i \in DOMAIN challenges |-> [challenges[i] EXCEPT !.open = FALSE]]

\* An administrator issues a temporary password.
ResetAccess ==
  /\ Staff /\ account.password < MaxPassword
  /\ account' = [account EXCEPT !.password = @ + 1, !.temporary = TRUE]
  /\ sessions' = RevokedAll
  /\ challenges' = ChallengesDropped
  /\ UNCHANGED <<role, codes, credential, period, request>>

BeginChangePassword(h, s) ==
  /\ Active(s) /\ ~Restricted
  /\ Staff => credential.enrolled /\ sessions[s].factor # None
  /\ account.password < MaxPassword
  /\ Begin(h, [op |-> "PASSWORD", session |-> s])
  /\ UNCHANGED <<role, account, codes, factorVars, sessions>>

ChangePassword(h) ==
  LET s == request[h].session IN
  /\ request[h].op = "PASSWORD"
  /\ account.password < MaxPassword
  /\ account' = [account EXCEPT !.password = @ + 1, !.temporary = FALSE]
  /\ sessions' = [RevokedBut(s) EXCEPT ![s].password = account.password + 1]
  /\ Finish(h)
  /\ UNCHANGED <<role, codes, factorVars>>
-----------------------------------------------------------------------------
(* Signing in.                                                             *)

\* The password is right and the account may sign in.
BeginSignIn(h) ==
  /\ ~Staff /\ ~Restricted
  /\ Begin(h, [op |-> "OPEN", factor |-> None, challenge |-> 0,
               password |-> account.password])
  /\ UNCHANGED <<role, account, codes, factorVars, sessions>>

OpenSession(h) ==
  /\ request[h].op = "OPEN"
  /\ Len(sessions) < MaxSessions
  /\ sessions' = Opened(request[h].factor, request[h].challenge, request[h].password)
  /\ Finish(h)
  /\ UNCHANGED <<role, account, codes, factorVars>>

\* Staff are challenged; the challenges of earlier attempts are invalidated.
BeginChallenge(h) ==
  /\ Staff /\ ~Restricted
  /\ Begin(h, [op |-> "CHALLENGE", password |-> account.password,
               kind |-> IF credential.enrolled THEN "VERIFY" ELSE "ENROLL"])
  /\ challenges' = ChallengesDropped
  /\ UNCHANGED <<role, account, codes, credential, period, sessions>>

IssueChallenge(h) ==
  /\ request[h].op = "CHALLENGE"
  /\ Len(challenges) < MaxChallenges
  /\ challenges' = Append(challenges,
       [kind |-> request[h].kind, open |-> TRUE, attempts |-> 0,
        password |-> request[h].password])
  /\ Finish(h)
  /\ UNCHANGED <<role, account, codes, credential, period, sessions>>

\* (Slip: the attempts are counted but never looked at.)
GuessableAlways(row) == row.open

Guessable(row) == row.open /\ row.attempts < AttemptLimit

\* verifyTotp accepts the periods beside the present one, after the last used.
Counters(last) == {c \in {period - 1, period, period + 1} : c > last}

Factored(op, i, factor) ==
  [op |-> op, challenge |-> i, factor |-> factor, password |-> challenges[i].password]

SubmitFactor(h, i) ==
  /\ i \in DOMAIN challenges /\ Guessable(challenges[i]) /\ ~Restricted
  /\ LET enrolling == challenges[i].kind = "ENROLL" IN
     \/ \E c \in Counters(IF enrolling THEN 0 ELSE credential.counter) :
          /\ enrolling \/ credential.enrolled
          /\ Begin(h, Factored(IF enrolling THEN "ENROLL" ELSE "TOTP", i, c))
     \/ \E r \in RecoveryCodes :
          /\ ~enrolling /\ credential.enrolled
          /\ Begin(h, Factored("RECOVERY", i, r))
  /\ UNCHANGED <<role, account, codes, factorVars, sessions>>

WrongFactor(h, i) ==
  /\ i \in DOMAIN challenges /\ Guessable(challenges[i]) /\ ~Restricted
  /\ Begin(h, Factored("REJECT", i, None))
  /\ UNCHANGED <<role, account, codes, factorVars, sessions>>

\* The challenge is still to be consumed, for what it was read as.
Consumable(h, kind) ==
  LET row == challenges[request[h].challenge] IN
  row.kind = kind /\ row.open

\* A conflict counts as a wrong code; a second enrolment fails altogether.
Consume(h, ok, after) ==
  IF ok
  THEN /\ credential' = after
       /\ challenges' = [challenges EXCEPT ![request[h].challenge].open = FALSE]
       /\ Continue(h, [request[h] EXCEPT !.op = "OPEN"])
  ELSE /\ Continue(h, [request[h] EXCEPT !.op = "REJECT"])
       /\ UNCHANGED <<credential, challenges>>

Enroll(h) ==
  /\ request[h].op = "ENROLL"
  /\ ~credential.enrolled
  /\ Consume(h, Consumable(h, "ENROLL"),
       [enrolled |-> TRUE, counter |-> request[h].factor, spent |-> {}])
  /\ sessions' = IF Consumable(h, "ENROLL") THEN RevokedAll ELSE sessions
  /\ UNCHANGED <<role, account, codes, period>>

VerifyTotp(h) ==
  /\ request[h].op = "TOTP"
  /\ Consume(h, credential.counter < request[h].factor /\ Consumable(h, "VERIFY"),
       [credential EXCEPT !.counter = request[h].factor])
  /\ UNCHANGED <<role, account, codes, period, sessions>>

VerifyRecovery(h) ==
  /\ request[h].op = "RECOVERY"
  /\ Consume(h, request[h].factor \notin credential.spent /\ Consumable(h, "VERIFY"),
       [credential EXCEPT !.spent = @ \cup {request[h].factor}])
  /\ UNCHANGED <<role, account, codes, period, sessions>>

RejectFactor(h) ==
  /\ request[h].op = "REJECT"
  /\ challenges' = [challenges EXCEPT ![request[h].challenge].attempts = @ + 1]
  /\ Finish(h)
  /\ UNCHANGED <<role, account, codes, credential, period, sessions>>
-----------------------------------------------------------------------------
(* Six-digit codes.                                                        *)

Invalidated(p) ==
  [i \in DOMAIN codes |->
     IF codes[i].purpose = p THEN [codes[i] EXCEPT !.open = FALSE] ELSE codes[i]]

\* The older codes of the purpose are invalidated first.
AskFor(h, p) ==
  /\ Begin(h, [op |-> "CODE", purpose |-> p])
  /\ codes' = Invalidated(p)
  /\ UNCHANGED <<role, account, factorVars, sessions>>

RequestVerification(h, s) == Usable(s) /\ ~account.verified /\ AskFor(h, "VERIFY")

\* Anybody may ask; a suspended account is sent nothing.
RequestPasswordReset(h) == ~Restricted /\ AskFor(h, "RESET")

\* Who may change the address: a customer, or an administrator who signs in
\* with a temporary password and whose first address is not verified yet.
MayChangeContact(s) ==
  /\ Active(s) /\ ~Restricted
  /\ Staff => /\ role = "ADMIN" /\ ~account.verified /\ account.temporary
              /\ credential.enrolled /\ sessions[s].factor # None

RequestContactChange(h, s) == MayChangeContact(s) /\ AskFor(h, "CONTACT")

StoreCode(h) ==
  /\ request[h].op = "CODE"
  /\ Len(codes) < MaxCodes
  /\ codes' = Append(codes, [purpose |-> request[h].purpose, open |-> TRUE,
                 attempts |-> 0, uses |-> 0])
  /\ Continue(h, [request[h] EXCEPT !.op = "MAIL"])
  /\ UNCHANGED <<role, account, factorVars, sessions>>

\* A code that could not be sent is taken back, with any sent meanwhile.
MailCode(h) ==
  /\ request[h].op = "MAIL"
  /\ codes' \in {codes, Invalidated(request[h].purpose)}
  /\ Finish(h)
  /\ UNCHANGED <<role, account, factorVars, sessions>>

\* findActive...: the latest code of the purpose that may still be used.
Latest(i) ==
  LET live == {j \in DOMAIN codes : codes[j].purpose = codes[i].purpose /\ codes[j].open}
  IN i \in live /\ \A j \in live : j <= i

\* A guess at the latest code: right, and the request goes on with what
\* follows, or wrong, and it goes on to count the attempt.
Try(h, i, p, s) ==
  /\ i \in DOMAIN codes /\ codes[i].purpose = p /\ Latest(i) /\ Guessable(codes[i])
  /\ \/ Begin(h, [op |-> p, code |-> i, session |-> s])
     \/ Begin(h, [op |-> "COUNT", code |-> i])
  /\ UNCHANGED <<role, account, codes, factorVars, sessions>>

ConfirmVerification(h, i, s) == Usable(s) /\ Try(h, i, "VERIFY", 0)

ConfirmPasswordReset(h, i) == Try(h, i, "RESET", 0)

ConfirmContactChange(h, i, s) == MayChangeContact(s) /\ Try(h, i, "CONTACT", s)

CountAttempt(h) ==
  /\ request[h].op = "COUNT"
  /\ codes' = [codes EXCEPT ![request[h].code].attempts = @ + 1]
  /\ Finish(h)
  /\ UNCHANGED <<role, account, factorVars, sessions>>

UsedUp(i) == [codes EXCEPT ![i].open = FALSE]

\* completeVerification: by id.
VerifyAddress(h) ==
  /\ request[h].op = "VERIFY"
  /\ codes' = UsedUp(request[h].code)
  /\ account' = [account EXCEPT !.verified = TRUE,
                   !.status = IF @ = "PENDING" THEN "ACTIVE" ELSE @]
  /\ Finish(h)
  /\ UNCHANGED <<role, factorVars, sessions>>

\* (Slip: the sessions opened with the old password live on.)
SessionsAfterResetKept == sessions

SessionsAfterReset == RevokedAll

\* resetPassword: by id.
ResetPassword(h) ==
  /\ request[h].op = "RESET"
  /\ account.password < MaxPassword
  /\ codes' = UsedUp(request[h].code)
  /\ account' = [account EXCEPT !.password = @ + 1, !.temporary = FALSE]
  /\ sessions' = SessionsAfterReset
  /\ Finish(h)
  /\ UNCHANGED <<role, factorVars>>

\* The WHERE clause of completeContactChange.  (Slip: by id.)
ContactConsumableById(i) == i \in DOMAIN codes

ContactConsumable(i) == Guessable(codes[i])

ChangeContact(h) ==
  LET i == request[h].code IN
  /\ request[h].op = "CONTACT"
  /\ IF ContactConsumable(i)
     THEN /\ codes' = [j \in DOMAIN codes |->
                         IF j = i THEN [UsedUp(i)[i] EXCEPT !.uses = @ + 1]
                         ELSE Invalidated("CONTACT")[j]]
          /\ account' = [account EXCEPT !.verified = TRUE]
          /\ sessions' = RevokedBut(request[h].session)
     ELSE UNCHANGED <<codes, account, sessions>>
  /\ Finish(h)
  /\ UNCHANGED <<role, factorVars>>
-----------------------------------------------------------------------------
(* Time.                                                                   *)

CodeExpires(i) ==
  /\ i \in DOMAIN codes /\ codes[i].open
  /\ codes' = [codes EXCEPT ![i].open = FALSE]
  /\ UNCHANGED <<role, account, factorVars, sessions, request>>

ChallengeExpires(i) ==
  /\ i \in DOMAIN challenges /\ challenges[i].open
  /\ challenges' = [challenges EXCEPT ![i].open = FALSE]
  /\ UNCHANGED <<role, account, codes, credential, period, sessions, request>>

PeriodPasses ==
  /\ Staff /\ period < MaxTime
  /\ period' = period + 1
  /\ UNCHANGED <<role, account, codes, credential, challenges, sessions, request>>

SignIn(h) ==
  \/ BeginSignIn(h) \/ OpenSession(h) \/ BeginChallenge(h) \/ IssueChallenge(h)
  \/ \E i \in 1..MaxChallenges : SubmitFactor(h, i) \/ WrongFactor(h, i)
  \/ Enroll(h) \/ VerifyTotp(h) \/ VerifyRecovery(h) \/ RejectFactor(h)

Codes(h) ==
  \/ RequestPasswordReset(h) \/ StoreCode(h) \/ MailCode(h)
  \/ \E i \in 1..MaxCodes : ConfirmPasswordReset(h, i)
  \/ \E s \in 1..MaxSessions :
       \/ RequestVerification(h, s) \/ RequestContactChange(h, s)
       \/ \E i \in 1..MaxCodes : ConfirmVerification(h, i, s) \/ ConfirmContactChange(h, i, s)
  \/ CountAttempt(h) \/ VerifyAddress(h) \/ ResetPassword(h) \/ ChangeContact(h)

AccountsNext ==
  \/ \E h \in Handlers :
       \/ SignIn(h) \/ Codes(h) \/ GiveUp(h) \/ ChangePassword(h)
       \/ \E s \in 1..MaxSessions : BeginChangePassword(h, s)
  \/ \E s \in 1..MaxSessions :
       \/ RevokeSession(s) \/ RevokeOthers(s)
       \/ \E other \in 1..MaxSessions : RevokeOwned(s, other)
  \/ \E status \in {"ACTIVE", "SUSPENDED"} :
       UpdateCustomerStatus(status) \/ UpdateStaff(status)
  \/ ReplacePermissions
  \/ ResetAccess \/ PeriodPasses
  \/ \E i \in 1..MaxCodes : CodeExpires(i)
  \/ \E i \in 1..MaxChallenges : ChallengeExpires(i)

AccountsSpec == AccountsInit /\ [][AccountsNext]_accountVars
-----------------------------------------------------------------------------
AccountRows == [status : {"PENDING", "ACTIVE", "SUSPENDED"}, verified : BOOLEAN,
                password : 0..MaxPassword, temporary : BOOLEAN]
Credentials == [enrolled : BOOLEAN, counter : Nat, spent : SUBSET RecoveryCodes]
Codewords == [purpose : {"VERIFY", "RESET", "CONTACT"}, open : BOOLEAN,
              attempts : Nat, uses : Nat]
Challenges == [kind : {"ENROLL", "VERIFY"}, open : BOOLEAN,
               attempts : Nat, password : 0..MaxPassword]
Factors == Nat \cup RecoveryCodes \cup {None}
SessionRows == [active : BOOLEAN, factor : Factors, challenge : Nat,
                password : 0..MaxPassword, late : BOOLEAN]

AccountsTypeOK ==
  /\ role \in Roles
  /\ account \in AccountRows
  /\ codes \in Seq(Codewords) /\ challenges \in Seq(Challenges)
  /\ credential \in Credentials
  /\ sessions \in Seq(SessionRows)
  /\ period \in 1..MaxTime

(***************************************************************************)
(* The limit on wrong codes holds up to the requests in flight: the        *)
(* attempts are read, the code compared and the counter raised in separate *)
(* calls (confirmVerification, completeStaffMfaChallenge), so every        *)
(* request that was under way when the limit was reached may count one     *)
(* wrong answer more, and no other may.                                    *)
(***************************************************************************)
AttemptsBounded ==
  \A rows \in {codes, challenges} : \A i \in DOMAIN rows :
     rows[i].attempts <= AttemptLimit + Cardinality(Handlers) - 1

(***************************************************************************)
(* What is good for one use is used once, also by two requests that carry  *)
(* it at the same time: a code changes the address once                    *)
(* (completeContactChange); a time-based code, a recovery code and a       *)
(* challenge open one session each (completeStaffMfaTotp,                  *)
(* completeStaffMfaRecovery).                                              *)
(***************************************************************************)
UsedOnce ==
  /\ \A i \in DOMAIN codes : codes[i].purpose = "CONTACT" => codes[i].uses <= 1
  /\ \A i, j \in DOMAIN sessions :
        /\ i # j /\ sessions[i].factor # None
        => /\ sessions[i].factor # sessions[j].factor
           /\ sessions[i].challenge # sessions[j].challenge

(***************************************************************************)
(* Whoever is signed in knows the present password, but for a sign-in that *)
(* was under way when the password was replaced (resetPassword,            *)
(* changePassword, resetAccess).                                           *)
(***************************************************************************)
ActiveSessionKnowsPassword ==
  \A i \in DOMAIN sessions :
     sessions[i].active => sessions[i].late \/ sessions[i].password = account.password
=============================================================================
