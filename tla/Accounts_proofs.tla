--------------------------- MODULE Accounts_proofs ---------------------------
(***************************************************************************)
(* Proofs about Accounts, for any number of handlers and recovery codes,   *)
(* any limit on wrong codes and any bounds of rows, passwords and time.    *)
(***************************************************************************)
EXTENDS Accounts, FiniteSetTheorems, SequenceTheorems, TLAPS

Purposes == {"VERIFY", "RESET", "CONTACT"}

\* The operations that carry a factor; a wrong one may be counted by all but OPEN.
Guessing == {"ENROLL", "TOTP", "RECOVERY", "REJECT"}
Carried == [op : Guessing \cup {"OPEN"}, challenge : Nat, factor : Factors,
            password : 0..MaxPassword]

\* What a request under way has read.
Well(q) ==
  /\ q.op \in Guessing \cup {"OPEN"} => q \in Carried
  /\ q.op = "OPEN" /\ q.factor = None => q.challenge = 0
  /\ q.op \in Guessing => q.challenge \in 1..Len(challenges)
  /\ q.op \in {"ENROLL", "TOTP"} => q.factor \in Nat
  /\ q.op = "RECOVERY" => q.factor \in RecoveryCodes
  /\ q.op \in {"TOTP", "RECOVERY"} => credential.enrolled
  /\ q.op = "CHALLENGE" => /\ q.password \in 0..MaxPassword
                           /\ q.kind \in {"ENROLL", "VERIFY"}
  /\ q.op = "CODE" => q \in [op : {"CODE"}, purpose : Purposes]

Typed ==
  /\ AccountsTypeOK
  /\ DOMAIN request = Handlers
  /\ \A h \in Handlers : Well(request[h])

\* The requests that may still count an attempt at a code, at a challenge.
CodeGuesses(i) == {h \in Handlers : request[h].op = "COUNT" /\ request[h].code = i}
ChallengeGuesses(i) ==
  {h \in Handlers : request[h].op \in Guessing /\ request[h].challenge = i}

\* Attempts that were counted, and those that may yet be, are within the limit.
Within(attempts, guesses) ==
  attempts + Cardinality(guesses) <= AttemptLimit + Cardinality(Handlers) - 1

Limited ==
  /\ \A i \in DOMAIN codes : Within(codes[i].attempts, CodeGuesses(i))
  /\ \A i \in DOMAIN challenges : Within(challenges[i].attempts, ChallengeGuesses(i))

\* A code that is open has not been used.
CodesOnce == \A i \in DOMAIN codes : codes[i].uses <= IF codes[i].open THEN 0 ELSE 1

\* The factor and the challenge of a session cannot serve another.
Spent(f, i) ==
  /\ credential.enrolled
  /\ i \in DOMAIN challenges /\ ~challenges[i].open
  /\ f \in Nat => f <= credential.counter
  /\ f \in RecoveryCodes => f \in credential.spent

Apart(a, b) ==
  a.factor # None /\ b.factor # None => a.factor # b.factor /\ a.challenge # b.challenge

\* The requests whose factor was accepted and whose session is still to be opened.
Opening == {h \in Handlers : request[h].op = "OPEN"}

FactorsOnce ==
  /\ \A i \in DOMAIN sessions :
       IF sessions[i].factor = None THEN sessions[i].challenge = 0
       ELSE Spent(sessions[i].factor, sessions[i].challenge)
  /\ \A h \in Opening :
       request[h].factor # None => Spent(request[h].factor, request[h].challenge)
  /\ \A i, j \in DOMAIN sessions : i # j => Apart(sessions[i], sessions[j])
  /\ \A i \in DOMAIN sessions, h \in Opening : Apart(sessions[i], request[h])
  /\ \A g, h \in Opening : g # h => Apart(request[g], request[h])
-----------------------------------------------------------------------------
(* What a step does to each table.                                         *)

\* A sequence whose elements are replaced one by one keeps its length.
LEMMA Replaced ==
  ASSUME NEW S, NEW s \in Seq(S), NEW t \in [DOMAIN s -> S]
  PROVE  t \in Seq(S) /\ Len(t) = Len(s) /\ DOMAIN t = DOMAIN s
<1>1. Len(s) \in Nat /\ DOMAIN s = 1..Len(s)
  BY LenProperties
<1>2. t \in Seq(S)
  BY <1>1, SeqDef
<1>3. Len(t) \in Nat /\ DOMAIN t = 1..Len(t)
  BY <1>2, LenProperties
<1> QED BY <1>1, <1>2, <1>3

LEMMA Appended ==
  ASSUME NEW S, NEW s \in Seq(S), NEW e \in S
  PROVE  /\ Append(s, e) \in Seq(S) /\ Len(Append(s, e)) = Len(s) + 1
         /\ DOMAIN Append(s, e) = DOMAIN s \cup {Len(s) + 1}
         /\ Len(s) + 1 \notin DOMAIN s
         /\ \A i \in DOMAIN s : Append(s, e)[i] = s[i]
         /\ Append(s, e)[Len(s) + 1] = e
<1>1. Len(s) \in Nat /\ DOMAIN s = 1..Len(s)
  BY LenProperties
<1> QED BY <1>1, AppendProperties

CodeMoves ==
  \/ UNCHANGED codes
  \/ \E p : codes' = Invalidated(p)
  \/ \E i : codes' = UsedUp(i)
  \/ \E h \in Handlers : StoreCode(h) \/ CountAttempt(h) \/ ChangeContact(h)

ChallengeMoves ==
  \/ UNCHANGED challenges
  \/ challenges' = ChallengesDropped
  \/ \E i : challenges' = [challenges EXCEPT ![i].open = FALSE]
  \/ \E h \in Handlers : IssueChallenge(h) \/ RejectFactor(h)

SessionMoves ==
  \/ UNCHANGED sessions
  \/ \E s : sessions' = RevokedBut(s)
  \/ \E s : sessions' = [sessions EXCEPT ![s].active = FALSE]
  \/ \E h \in Handlers : OpenSession(h) \/ ChangePassword(h)

CredentialMoves ==
  UNCHANGED credential
    \/ \E h \in Handlers : Enroll(h) \/ VerifyTotp(h) \/ VerifyRecovery(h)

LEMMA SignInMoves ==
  ASSUME NEW h \in Handlers, SignIn(h)
  PROVE  CodeMoves /\ ChallengeMoves /\ SessionMoves /\ CredentialMoves
<1>1. ASSUME Enroll(h) \/ VerifyTotp(h) \/ VerifyRecovery(h)
      PROVE  /\ UNCHANGED codes
             /\ UNCHANGED challenges
                  \/ \E i : challenges' = [challenges EXCEPT ![i].open = FALSE]
             /\ UNCHANGED sessions \/ sessions' = RevokedBut(0)
  BY <1>1 DEF Enroll, VerifyTotp, VerifyRecovery, Consume, RevokedAll
<1>2. ASSUME NEW i, SubmitFactor(h, i) \/ WrongFactor(h, i)
      PROVE  UNCHANGED <<codes, credential, challenges, sessions>>
  BY <1>2 DEF SubmitFactor, WrongFactor, factorVars
<1>3. BeginSignIn(h) => UNCHANGED <<codes, credential, challenges, sessions>>
  BY DEF BeginSignIn, factorVars
<1>4. BeginChallenge(h) => challenges' = ChallengesDropped /\ UNCHANGED <<codes, credential, sessions>>
  BY DEF BeginChallenge
<1>5. /\ OpenSession(h) => UNCHANGED <<codes, credential, challenges>>
      /\ IssueChallenge(h) \/ RejectFactor(h) => UNCHANGED <<codes, credential, sessions>>
  BY DEF OpenSession, IssueChallenge, RejectFactor, factorVars
<1> QED BY <1>1, <1>2, <1>3, <1>4, <1>5
    DEF SignIn, CodeMoves, ChallengeMoves, SessionMoves, CredentialMoves

LEMMA CodesMoves ==
  ASSUME NEW h \in Handlers, Codes(h)
  PROVE  CodeMoves /\ ChallengeMoves /\ SessionMoves /\ CredentialMoves
<1>1. ASSUME NEW p, AskFor(h, p)
      PROVE  codes' = Invalidated(p) /\ UNCHANGED <<credential, challenges, sessions>>
  BY <1>1 DEF AskFor, factorVars
<1>2. ASSUME NEW i, NEW p, NEW s, Try(h, i, p, s)
      PROVE  UNCHANGED <<codes, credential, challenges, sessions>>
  BY <1>2 DEF Try, factorVars
<1>3. MailCode(h) => /\ UNCHANGED <<credential, challenges, sessions>>
                     /\ UNCHANGED codes \/ \E p : codes' = Invalidated(p)
  BY DEF MailCode, factorVars
<1>4. VerifyAddress(h) => /\ UNCHANGED <<credential, challenges, sessions>>
                          /\ \E i : codes' = UsedUp(i)
  BY DEF VerifyAddress, factorVars
<1>5. ResetPassword(h) => /\ UNCHANGED <<credential, challenges>> /\ sessions' = RevokedBut(0)
                          /\ \E i : codes' = UsedUp(i)
  BY DEF ResetPassword, SessionsAfterReset, RevokedAll, factorVars
<1>6. StoreCode(h) \/ CountAttempt(h) => UNCHANGED <<credential, challenges, sessions>>
  BY DEF StoreCode, CountAttempt, factorVars
<1>7. ChangeContact(h) => /\ UNCHANGED <<credential, challenges>>
                          /\ UNCHANGED sessions \/ \E s : sessions' = RevokedBut(s)
  BY DEF ChangeContact, factorVars
<1>8. /\ RequestPasswordReset(h) => AskFor(h, "RESET")
      /\ \A s : RequestVerification(h, s) => AskFor(h, "VERIFY")
      /\ \A s : RequestContactChange(h, s) => AskFor(h, "CONTACT")
      /\ \A i : ConfirmPasswordReset(h, i) => Try(h, i, "RESET", 0)
      /\ \A i, s : ConfirmVerification(h, i, s) => Try(h, i, "VERIFY", 0)
      /\ \A i, s : ConfirmContactChange(h, i, s) => Try(h, i, "CONTACT", s)
  BY DEF RequestPasswordReset, RequestVerification, RequestContactChange,
         ConfirmPasswordReset, ConfirmVerification, ConfirmContactChange
<1> QED BY <1>1, <1>2, <1>3, <1>4, <1>5, <1>6, <1>7, <1>8
    DEF Codes, CodeMoves, ChallengeMoves, SessionMoves, CredentialMoves

LEMMA Moves ==
  ASSUME [AccountsNext]_accountVars
  PROVE  CodeMoves /\ ChallengeMoves /\ SessionMoves /\ CredentialMoves
<1>1. ASSUME NEW h \in Handlers, GiveUp(h)
      PROVE  UNCHANGED <<codes, credential, challenges, sessions>>
  BY <1>1 DEF GiveUp, factorVars
<1>2. ASSUME NEW h \in Handlers, NEW s, BeginChangePassword(h, s)
      PROVE  UNCHANGED <<codes, credential, challenges, sessions>>
  BY <1>2 DEF BeginChangePassword, factorVars
<1>3. ASSUME NEW h \in Handlers, ChangePassword(h)
      PROVE  UNCHANGED <<codes, credential, challenges>>
  BY <1>3 DEF ChangePassword, factorVars
<1>4. ASSUME NEW s, NEW t, RevokeSession(s) \/ RevokeOthers(s) \/ RevokeOwned(t, s)
      PROVE  /\ UNCHANGED <<codes, credential, challenges>>
             /\ \/ sessions' = [sessions EXCEPT ![s].active = FALSE]
                \/ sessions' = RevokedBut(s)
  BY <1>4 DEF RevokeSession, RevokeOthers, RevokeOwned, factorVars
<1>5. ASSUME NEW x, SetStatus(x)
      PROVE  UNCHANGED <<codes, credential, challenges>> /\ sessions' = RevokedBut(0)
  BY <1>5 DEF SetStatus, RevokedAll, factorVars
<1>6. ResetAccess => /\ UNCHANGED <<codes, credential>> /\ sessions' = RevokedBut(0)
                     /\ challenges' = ChallengesDropped
  BY DEF ResetAccess, RevokedAll
<1>7. PeriodPasses => UNCHANGED <<codes, credential, challenges, sessions>>
  BY DEF PeriodPasses
<1>8. ASSUME NEW i, CodeExpires(i)
      PROVE  codes' = UsedUp(i) /\ UNCHANGED <<credential, challenges, sessions>>
  BY <1>8 DEF CodeExpires, UsedUp, factorVars
<1>9. ASSUME NEW i, ChallengeExpires(i)
      PROVE  /\ challenges' = [challenges EXCEPT ![i].open = FALSE]
             /\ UNCHANGED <<codes, credential, sessions>>
  BY <1>9 DEF ChallengeExpires
<1>10. /\ \A x : UpdateCustomerStatus(x) \/ UpdateStaff(x) => SetStatus(x)
       /\ ReplacePermissions => SetStatus(account.status)
  BY DEF UpdateCustomerStatus, UpdateStaff, ReplacePermissions
<1>11. UNCHANGED accountVars => UNCHANGED <<codes, credential, challenges, sessions>>
  BY DEF accountVars, factorVars
<1>12. ASSUME NEW h \in Handlers, SignIn(h) \/ Codes(h)
       PROVE  CodeMoves /\ ChallengeMoves /\ SessionMoves /\ CredentialMoves
  BY <1>12, SignInMoves, CodesMoves
<1> QED BY <1>1, <1>2, <1>3, <1>4, <1>5, <1>6, <1>7, <1>8, <1>9, <1>10, <1>11, <1>12
    DEF AccountsNext, CodeMoves, ChallengeMoves, SessionMoves, CredentialMoves
-----------------------------------------------------------------------------
(* What a step does to the requests under way.                             *)

\* The factor of q is accepted, and will not be again.
Accepts(q) ==
  /\ q.challenge \in DOMAIN challenges /\ challenges[q.challenge].open
  /\ Spent(q.factor, q.challenge)'
  /\ credential.enrolled =>
       /\ q.factor \in Nat => q.factor > credential.counter
       /\ q.factor \in RecoveryCodes => q.factor \notin credential.spent

\* The request of handler h becomes q.
Becomes(h, q) ==
  \/ q = NoRequest
  \/ request[h] = NoRequest /\ q.op \notin Guessing \cup {"OPEN", "COUNT"}
  \/ request[h] = NoRequest /\ q.op = "OPEN" /\ q.factor = None
  \/ /\ request[h] = NoRequest /\ q.op = "COUNT"
     /\ Guessable(codes[q.code]) /\ UNCHANGED codes
  \/ /\ request[h] = NoRequest /\ q.op \in Guessing
     /\ Guessable(challenges[q.challenge]) /\ UNCHANGED challenges
  \/ request[h].op = "CODE" /\ q.op = "MAIL"
  \/ request[h].op \in Guessing /\ q = [request[h] EXCEPT !.op = "REJECT"]
  \/ /\ request[h].op \in Guessing /\ q = [request[h] EXCEPT !.op = "OPEN"]
     /\ Accepts(q)

RequestMoves ==
  \/ UNCHANGED request
  \/ \E h \in Handlers : \E q :
       request' = [request EXCEPT ![h] = q] /\ Well(q)' /\ Becomes(h, q)

\* Challenges are only added, and closed for good; enrolment stays.
Growing ==
  /\ credential.enrolled => credential'.enrolled
  /\ Len(challenges) <= Len(challenges')
  /\ \A i \in DOMAIN challenges :
       i \in DOMAIN challenges' /\ (challenges'[i].open => challenges[i].open)

LEMMA EnrolmentStays ==
  ASSUME Typed, [AccountsNext]_accountVars
  PROVE  credential.enrolled => credential'.enrolled
<1> SUFFICES ASSUME credential.enrolled, credential' # credential PROVE credential'.enrolled
  OBVIOUS
<1>1. ASSUME NEW h \in Handlers, VerifyTotp(h) \/ VerifyRecovery(h) PROVE credential'.enrolled
  BY <1>1 DEF VerifyTotp, VerifyRecovery, Consume, Typed, AccountsTypeOK, Credentials
<1> QED BY <1>1, Moves DEF CredentialMoves, Enroll

LEMMA ChallengesGrow ==
  ASSUME Typed, [AccountsNext]_accountVars
  PROVE  challenges' \in Seq(Challenges) /\ Growing
<1> USE AccountsAssumption
<1>1. /\ challenges \in Seq(Challenges)
      /\ Len(challenges) \in Nat /\ DOMAIN challenges = 1..Len(challenges)
      /\ \A i \in DOMAIN challenges : challenges[i] \in Challenges
  BY LenProperties, ElementOfSeq DEF Typed, AccountsTypeOK
<1>2. credential.enrolled => credential'.enrolled
  BY EnrolmentStays
<1>3. CASE UNCHANGED challenges
  BY <1>1, <1>3, <1>2 DEF Growing
<1>4. ASSUME challenges' \in [DOMAIN challenges -> Challenges],
             \A i \in DOMAIN challenges : challenges'[i].open => challenges[i].open
      PROVE  challenges' \in Seq(Challenges) /\ Growing
  BY <1>1, <1>4, <1>2, Replaced DEF Growing
<1>5. CASE challenges' = ChallengesDropped
  BY <1>1, <1>4, <1>5 DEF ChallengesDropped, Challenges
<1>6. ASSUME NEW i, challenges' = [challenges EXCEPT ![i].open = FALSE]
      PROVE  challenges' \in Seq(Challenges) /\ Growing
  <2>1. challenges' \in [DOMAIN challenges -> Challenges]
    BY <1>1, <1>6 DEF Challenges
  <2>2. \A j \in DOMAIN challenges : challenges'[j].open => challenges[j].open
    BY <1>1, <1>6 DEF Challenges
  <2> QED BY <1>4, <2>1, <2>2
<1>7. ASSUME NEW h \in Handlers, RejectFactor(h)
      PROVE  challenges' \in Seq(Challenges) /\ Growing
  <2>1. ASSUME NEW j \in DOMAIN challenges
        PROVE  challenges'[j] \in Challenges /\ challenges'[j].open = challenges[j].open
    <3>1. challenges[j] \in Challenges
      BY <1>1
    <3>2. challenges'[j] = IF j = request[h].challenge
                             THEN [challenges[j] EXCEPT !.attempts = @ + 1]
                             ELSE challenges[j]
      BY <1>7 DEF RejectFactor
    <3> QED BY <3>1, <3>2 DEF Challenges
  <2>2. challenges' = [j \in DOMAIN challenges |-> challenges'[j]]
    BY <1>7 DEF RejectFactor
  <2>3. challenges' \in [DOMAIN challenges -> Challenges]
    BY <2>1, <2>2
  <2> QED BY <1>4, <2>1, <2>3
<1>8. ASSUME NEW h \in Handlers, IssueChallenge(h)
      PROVE  challenges' \in Seq(Challenges) /\ Growing
  <2>1. PICK row : /\ challenges' = Append(challenges, row)
                   /\ row = [kind |-> request[h].kind, open |-> TRUE, attempts |-> 0,
                             password |-> request[h].password]
    BY <1>8 DEF IssueChallenge
  <2>2. row \in Challenges
    BY <1>8, <2>1 DEF IssueChallenge, Challenges, Typed, Well
  <2> QED BY <1>1, <1>2, <2>1, <2>2, Appended DEF Growing
<1> QED BY <1>3, <1>5, <1>6, <1>7, <1>8, Moves DEF ChallengeMoves

LEMMA Accepted ==
  ASSUME Typed, Growing, NEW h \in Handlers,
         Enroll(h) \/ VerifyTotp(h) \/ VerifyRecovery(h)
  PROVE  /\ credential' \in Credentials
         /\ \E q : request' = [request EXCEPT ![h] = q] /\ Well(q)' /\ Becomes(h, q)
<1> USE AccountsAssumption DEF Credentials, AccountRows
<1>1. PICK r : r = request[h]
  OBVIOUS
<1>2. /\ Len(challenges) \in Nat /\ DOMAIN challenges = 1..Len(challenges)
      /\ \A i \in DOMAIN challenges : challenges[i] \in Challenges
  BY LenProperties, ElementOfSeq DEF Typed, AccountsTypeOK
<1>3. /\ r.op \in {"ENROLL", "TOTP", "RECOVERY"} /\ r \in Carried
      /\ r.challenge \in DOMAIN challenges
      /\ r.op \in {"ENROLL", "TOTP"} => r.factor \in Nat
      /\ r.op = "RECOVERY" => r.factor \in RecoveryCodes
      /\ r.op \in {"TOTP", "RECOVERY"} => credential.enrolled
  <2>1. r.op \in {"ENROLL", "TOTP", "RECOVERY"}
    BY <1>1 DEF Enroll, VerifyTotp, VerifyRecovery
  <2> QED BY <1>1, <1>2, <2>1 DEF Typed, Well, Guessing
<1>4. CASE /\ UNCHANGED <<credential, challenges>>
           /\ request' = [request EXCEPT ![h] = [r EXCEPT !.op = "REJECT"]]
  <2>1. PICK q : q = [r EXCEPT !.op = "REJECT"]
    OBVIOUS
  <2>2. Well(q)'
    BY <1>2, <1>3, <1>4, <2>1 DEF Well, Carried, Guessing
  <2>3. Becomes(h, q)
    BY <1>1, <1>3, <2>1 DEF Becomes, Guessing
  <2> QED BY <1>4, <2>1, <2>2, <2>3 DEF Typed, AccountsTypeOK
<1>5. ASSUME credential' \in Credentials,
             credential'.enrolled,
             challenges[r.challenge].open,
             challenges' = [challenges EXCEPT ![r.challenge].open = FALSE],
             request' = [request EXCEPT ![h] = [r EXCEPT !.op = "OPEN"]],
             r.factor \in Nat =>
               /\ r.factor <= credential'.counter
               /\ credential.enrolled => r.factor > credential.counter,
             r.factor \in RecoveryCodes =>
               /\ r.factor \in credential'.spent
               /\ credential.enrolled => r.factor \notin credential.spent
      PROVE  \E q : request' = [request EXCEPT ![h] = q] /\ Well(q)' /\ Becomes(h, q)
  <2>1. PICK q : q = [r EXCEPT !.op = "OPEN"]
    OBVIOUS
  <2>2. Well(q)'
    BY <1>3, <2>1 DEF Well, Carried, Guessing
  <2>3. r.challenge \in DOMAIN challenges' /\ ~challenges'[r.challenge].open
    BY <1>2, <1>3, <1>5 DEF Challenges
  <2>4. q.factor = r.factor /\ q.challenge = r.challenge
    BY <1>3, <2>1 DEF Carried
  <2>5. Spent(q.factor, q.challenge)'
    BY <1>5, <2>3, <2>4 DEF Spent
  <2>6. Becomes(h, q)
    BY <1>1, <1>3, <1>5, <2>1, <2>4, <2>5 DEF Becomes, Accepts, Guessing
  <2> QED BY <1>5, <2>1, <2>2, <2>6
<1>6. credential \in Credentials
  BY DEF Typed, AccountsTypeOK
<1>7. CASE Enroll(h)
  <2>1. CASE Consumable(h, "ENROLL")
    <3>1. /\ credential' = [enrolled |-> TRUE, counter |-> r.factor, spent |-> {}]
          /\ challenges' = [challenges EXCEPT ![r.challenge].open = FALSE]
          /\ request' = [request EXCEPT ![h] = [r EXCEPT !.op = "OPEN"]]
          /\ ~credential.enrolled /\ challenges[r.challenge].open
      BY <1>1, <1>7, <2>1 DEF Enroll, Consume, Consumable, Continue
    <3>2. r.factor \in Nat /\ r.factor \notin RecoveryCodes
      BY <1>1, <1>3, <1>7 DEF Enroll
    <3>3. /\ credential' \in Credentials
          /\ credential'.enrolled /\ credential'.counter = r.factor
      BY <3>1, <3>2
    <3>4. /\ r.factor \in Nat =>
               /\ r.factor <= credential'.counter
               /\ credential.enrolled => r.factor > credential.counter
          /\ r.factor \in RecoveryCodes =>
               /\ r.factor \in credential'.spent
               /\ credential.enrolled => r.factor \notin credential.spent
      BY <3>1, <3>2, <3>3
    <3> QED BY <1>5, <3>1, <3>3, <3>4
  <2>2. CASE ~ Consumable(h, "ENROLL")
    BY <1>1, <1>4, <1>7, <2>2 DEF Enroll, Consume, Continue
  <2> QED BY <2>1, <2>2
<1>8. CASE VerifyTotp(h)
  <2> DEFINE ok == credential.counter < r.factor /\ Consumable(h, "VERIFY")
  <2>1. CASE ok
    BY <1>1, <1>3, <1>5, <1>6, <1>8, <2>1 DEF VerifyTotp, Consume, Consumable, Continue
  <2>2. CASE ~ ok
    BY <1>1, <1>4, <1>8, <2>2 DEF VerifyTotp, Consume, Continue
  <2> QED BY <2>1, <2>2
<1>9. CASE VerifyRecovery(h)
  <2> DEFINE ok == r.factor \notin credential.spent /\ Consumable(h, "VERIFY")
  <2>1. CASE ok
    BY <1>1, <1>3, <1>5, <1>6, <1>9, <2>1 DEF VerifyRecovery, Consume, Consumable, Continue
  <2>2. CASE ~ ok
    BY <1>1, <1>4, <1>9, <2>2 DEF VerifyRecovery, Consume, Continue
  <2> QED BY <2>1, <2>2
<1> QED BY <1>7, <1>8, <1>9

LEMMA RequestsMove ==
  ASSUME Typed, Growing, [AccountsNext]_accountVars
  PROVE  RequestMoves
<1> USE AccountsAssumption DEF Credentials, AccountRows
<1> DEFINE Moved(h) ==
      \E q : request' = [request EXCEPT ![h] = q] /\ Well(q)' /\ Becomes(h, q)
<1>1. ASSUME NEW h \in Handlers, Finish(h) PROVE Moved(h)
  BY <1>1 DEF Finish, Well, Becomes, NoRequest, Guessing
<1>2. ASSUME NEW h \in Handlers, NEW q, Begin(h, q), Well(q)', Becomes(h, q) PROVE Moved(h)
  BY <1>2 DEF Begin
<1>3. /\ Len(challenges) \in Nat /\ DOMAIN challenges = 1..Len(challenges)
      /\ Len(challenges') \in Nat
      /\ \A i \in DOMAIN challenges : challenges[i] \in Challenges
  BY LenProperties, ElementOfSeq, ChallengesGrow DEF Typed, AccountsTypeOK
<1>4. ASSUME NEW h \in Handlers, NEW q,
             q.op \in {"PASSWORD", "COUNT", "MAIL", "VERIFY", "RESET", "CONTACT"}
      PROVE  Well(q)'
  BY <1>4 DEF Well, Guessing
<1>5. ASSUME NEW h \in Handlers, SignIn(h) PROVE Moved(h)
  <2>1. CASE BeginSignIn(h)
    <3>1. PICK q : q = [op |-> "OPEN", factor |-> None, challenge |-> 0,
                        password |-> account.password]
      OBVIOUS
    <3>2. Well(q)'
      BY <3>1 DEF Well, Guessing, Carried, Factors, Typed, AccountsTypeOK
    <3>3. request[h] = NoRequest /\ Begin(h, q)
      BY <2>1, <3>1 DEF BeginSignIn, Begin
    <3> QED BY <1>2, <3>1, <3>2, <3>3 DEF Becomes
  <2>2. CASE BeginChallenge(h)
    <3>1. PICK q : q = [op |-> "CHALLENGE", password |-> account.password,
                        kind |-> IF credential.enrolled THEN "VERIFY" ELSE "ENROLL"]
      OBVIOUS
    <3>2. Well(q)'
      BY <3>1 DEF Well, Guessing, Typed, AccountsTypeOK
    <3>3. request[h] = NoRequest /\ Begin(h, q)
      BY <2>2, <3>1 DEF BeginChallenge, Begin
    <3> QED BY <1>2, <3>1, <3>2, <3>3 DEF Becomes, Guessing
  <2>3. CASE OpenSession(h) \/ IssueChallenge(h) \/ RejectFactor(h)
    BY <1>1, <2>3 DEF OpenSession, IssueChallenge, RejectFactor
  <2>4. ASSUME NEW i, NEW op \in Guessing, NEW f \in Factors, Begin(h, Factored(op, i, f)),
               i \in DOMAIN challenges, Guessable(challenges[i]),
               UNCHANGED <<credential, challenges>>,
               op \in {"ENROLL", "TOTP"} => f \in Nat, op = "RECOVERY" => f \in RecoveryCodes,
               op \in {"TOTP", "RECOVERY"} => credential.enrolled
        PROVE  Moved(h)
    <3>1. PICK q : q = [op |-> op, challenge |-> i, factor |-> f,
                        password |-> challenges[i].password]
      OBVIOUS
    <3>2. Well(q)'
      <4>1. q \in Carried
        BY <1>3, <2>4, <3>1 DEF Carried, Challenges
      <4> QED BY <1>3, <2>4, <3>1, <4>1 DEF Well, Guessing, Carried
    <3>3. request[h] = NoRequest /\ Begin(h, q)
      BY <2>4, <3>1 DEF Factored, Begin
    <3>4. Becomes(h, q)
      BY <2>4, <3>1, <3>3 DEF Becomes
    <3> QED BY <1>2, <3>2, <3>3, <3>4
  <2>5. ASSUME NEW i, SubmitFactor(h, i) PROVE Moved(h)
    <3>1. /\ i \in DOMAIN challenges /\ Guessable(challenges[i])
          /\ UNCHANGED <<credential, challenges>>
      BY <2>5 DEF SubmitFactor, factorVars
    <3>2. CASE \E r \in RecoveryCodes : credential.enrolled /\ Begin(h, Factored("RECOVERY", i, r))
      BY <2>4, <3>1, <3>2 DEF Guessing, Factors
    <3>3. ASSUME NEW last \in Nat, NEW c \in Counters(last), NEW op \in {"ENROLL", "TOTP"},
                 Begin(h, Factored(op, i, c)), op = "TOTP" => credential.enrolled
          PROVE  Moved(h)
      <4>1. c \in Nat
        BY <3>3 DEF Counters, Typed, AccountsTypeOK
      <4> QED BY <2>4, <3>1, <3>3, <4>1 DEF Guessing, Factors
    <3>4. credential.counter \in Nat
      BY DEF Typed, AccountsTypeOK
    <3> QED BY <2>5, <3>2, <3>3, <3>4 DEF SubmitFactor
  <2>6. ASSUME NEW i, WrongFactor(h, i) PROVE Moved(h)
    BY <2>4, <2>6 DEF WrongFactor, factorVars, Guessing, Factors
  <2>7. CASE Enroll(h) \/ VerifyTotp(h) \/ VerifyRecovery(h)
    BY <2>7, Accepted
  <2> QED BY <1>5, <2>1, <2>2, <2>3, <2>5, <2>6, <2>7 DEF SignIn
<1>6. ASSUME NEW h \in Handlers, Codes(h) PROVE Moved(h)
  <2>1. ASSUME NEW p \in Purposes, AskFor(h, p) PROVE Moved(h)
    <3>1. PICK q : q = [op |-> "CODE", purpose |-> p]
      OBVIOUS
    <3>2. Well(q)'
      BY <3>1 DEF Well, Guessing
    <3>3. request[h] = NoRequest /\ Begin(h, q)
      BY <2>1, <3>1 DEF AskFor, Begin
    <3> QED BY <1>2, <3>1, <3>2, <3>3 DEF Becomes, Guessing
  <2>2. ASSUME NEW i, NEW p \in Purposes, NEW s, Try(h, i, p, s) PROVE Moved(h)
    <3>1. CASE Begin(h, [op |-> p, code |-> i, session |-> s])
      <4>1. PICK q : q = [op |-> p, code |-> i, session |-> s]
        OBVIOUS
      <4>2. request[h] = NoRequest /\ Begin(h, q)
        BY <3>1, <4>1 DEF Begin
      <4> QED BY <1>2, <1>4, <4>1, <4>2 DEF Becomes, Guessing, Purposes
    <3>2. CASE Begin(h, [op |-> "COUNT", code |-> i])
      <4>1. PICK q : q = [op |-> "COUNT", code |-> i]
        OBVIOUS
      <4>2. request[h] = NoRequest /\ Begin(h, q)
        BY <3>2, <4>1 DEF Begin
      <4>3. Guessable(codes[i]) /\ UNCHANGED codes
        BY <2>2 DEF Try
      <4> QED BY <1>2, <1>4, <4>1, <4>2, <4>3 DEF Becomes
    <3> QED BY <2>2, <3>1, <3>2 DEF Try
  <2>3. CASE StoreCode(h)
    <3>1. PICK q : q = [request[h] EXCEPT !.op = "MAIL"]
      OBVIOUS
    <3>2. request[h] \in [op : {"CODE"}, purpose : Purposes]
      BY <2>3 DEF StoreCode, Typed, Well
    <3>3. q.op = "MAIL" /\ request[h].op = "CODE" /\ request' = [request EXCEPT ![h] = q]
      BY <2>3, <3>1, <3>2 DEF StoreCode, Continue
    <3>4. Well(q)'
      BY <1>4, <3>3
    <3> QED BY <3>3, <3>4 DEF Becomes
  <2>4. CASE \/ MailCode(h) \/ CountAttempt(h) \/ VerifyAddress(h)
             \/ ResetPassword(h) \/ ChangeContact(h)
    BY <1>1, <2>4 DEF MailCode, CountAttempt, VerifyAddress, ResetPassword, ChangeContact
  <2>5. /\ RequestPasswordReset(h) => AskFor(h, "RESET")
        /\ \A s : RequestVerification(h, s) => AskFor(h, "VERIFY")
        /\ \A s : RequestContactChange(h, s) => AskFor(h, "CONTACT")
        /\ \A i : ConfirmPasswordReset(h, i) => Try(h, i, "RESET", 0)
        /\ \A i, s : ConfirmVerification(h, i, s) => Try(h, i, "VERIFY", 0)
        /\ \A i, s : ConfirmContactChange(h, i, s) => Try(h, i, "CONTACT", s)
    BY DEF RequestPasswordReset, RequestVerification, RequestContactChange,
           ConfirmPasswordReset, ConfirmVerification, ConfirmContactChange
  <2> QED BY <1>6, <2>1, <2>2, <2>3, <2>4, <2>5 DEF Codes, Purposes
<1>7. ASSUME NEW h \in Handlers, NEW s, BeginChangePassword(h, s) PROVE Moved(h)
  <2>1. PICK q : q = [op |-> "PASSWORD", session |-> s]
    OBVIOUS
  <2>2. request[h] = NoRequest /\ Begin(h, q)
    BY <1>7, <2>1 DEF BeginChangePassword, Begin
  <2> QED BY <1>2, <1>4, <2>1, <2>2 DEF Becomes, Guessing
<1>8. ASSUME NEW h \in Handlers, GiveUp(h) \/ ChangePassword(h) PROVE Moved(h)
  BY <1>1, <1>8 DEF GiveUp, ChangePassword
<1>9. CASE \E h \in Handlers : Moved(h)
  BY <1>9 DEF RequestMoves
<1>10. CASE UNCHANGED request
  BY <1>10 DEF RequestMoves
<1> HIDE DEF Moved
<1> QED BY <1>5, <1>6, <1>7, <1>8, <1>9, <1>10
    DEF AccountsNext, RevokeSession, RevokeOthers, RevokeOwned, SetStatus, UpdateCustomerStatus,
        UpdateStaff, ReplacePermissions, ResetAccess, PeriodPasses, CodeExpires,
        ChallengeExpires, accountVars
-----------------------------------------------------------------------------
(* Types.                                                                  *)

\* The counted and the appended rows have the types of their tables.
LEMMA TablesTyped ==
  ASSUME Typed, [AccountsNext]_accountVars
  PROVE  codes' \in Seq(Codewords) /\ sessions' \in Seq(SessionRows)
<1> USE AccountsAssumption DEF Credentials, AccountRows
<1>1. codes' \in Seq(Codewords)
  <2>1. codes \in Seq(Codewords) /\ \A i \in DOMAIN codes : codes[i] \in Codewords
    BY LenProperties, ElementOfSeq DEF Typed, AccountsTypeOK
  <2>2. ASSUME NEW p, codes' = Invalidated(p) PROVE codes' \in [DOMAIN codes -> Codewords]
    BY <2>1, <2>2 DEF Invalidated, Codewords
  <2>3. ASSUME NEW i, codes' = UsedUp(i) PROVE codes' \in [DOMAIN codes -> Codewords]
    BY <2>1, <2>3 DEF UsedUp, Codewords
  <2>4. ASSUME NEW h \in Handlers, CountAttempt(h) PROVE codes' \in [DOMAIN codes -> Codewords]
    <3>1. ASSUME NEW j \in DOMAIN codes PROVE codes'[j] \in Codewords
      <4>1. codes[j] \in Codewords
        BY <2>1
      <4>2. codes'[j] = IF j = request[h].code
                          THEN [codes[j] EXCEPT !.attempts = @ + 1] ELSE codes[j]
        BY <2>4 DEF CountAttempt
      <4> QED BY <4>1, <4>2 DEF Codewords
    <3> QED BY <2>4, <3>1 DEF CountAttempt
  <2>5. ASSUME NEW h \in Handlers, ChangeContact(h), codes' # codes
        PROVE  codes' \in [DOMAIN codes -> Codewords]
    <3>1. ASSUME NEW j \in DOMAIN codes PROVE codes'[j] \in Codewords
      <4>1. codes[j] \in Codewords
        BY <2>1
      <4>2. codes'[j] = IF j = request[h].code
                          THEN [[codes[j] EXCEPT !.open = FALSE] EXCEPT !.uses = @ + 1]
                          ELSE IF codes[j].purpose = "CONTACT"
                                 THEN [codes[j] EXCEPT !.open = FALSE] ELSE codes[j]
        BY <2>5 DEF ChangeContact, UsedUp, Invalidated
      <4>3. PICK c : c = [codes[j] EXCEPT !.open = FALSE]
        OBVIOUS
      <4>4. c \in Codewords
        BY <4>1, <4>3 DEF Codewords
      <4>5. [c EXCEPT !.uses = @ + 1] \in Codewords
        BY <4>4 DEF Codewords
      <4> QED BY <4>1, <4>2, <4>3, <4>4, <4>5
    <3> QED BY <2>5, <3>1 DEF ChangeContact
  <2>6. ASSUME NEW h \in Handlers, StoreCode(h) PROVE codes' \in Seq(Codewords)
    <3>1. [purpose |-> request[h].purpose, open |-> TRUE, attempts |-> 0, uses |-> 0]
            \in Codewords
      BY <2>6 DEF StoreCode, Typed, Well, Codewords, Purposes
    <3> QED BY <2>1, <2>6, <3>1, Appended DEF StoreCode
  <2> QED BY <2>1, <2>2, <2>3, <2>4, <2>5, <2>6, Replaced, Moves DEF CodeMoves
<1>2. sessions' \in Seq(SessionRows)
  <2>1. /\ sessions \in Seq(SessionRows)
        /\ \A i \in DOMAIN sessions : sessions[i] \in SessionRows
    BY LenProperties, ElementOfSeq DEF Typed, AccountsTypeOK
  <2>2. ASSUME NEW s PROVE RevokedBut(s) \in [DOMAIN sessions -> SessionRows]
    BY <2>1 DEF RevokedBut, SessionRows
  <2>3. ASSUME NEW s, sessions' = [sessions EXCEPT ![s].active = FALSE]
        PROVE  sessions' \in [DOMAIN sessions -> SessionRows]
    BY <2>1, <2>3 DEF SessionRows
  <2>4. ASSUME NEW h \in Handlers, ChangePassword(h)
        PROVE  sessions' \in [DOMAIN sessions -> SessionRows]
    <3>1. PICK s : s = request[h].session
      OBVIOUS
    <3>2. /\ sessions' = [RevokedBut(s) EXCEPT ![s].password = account.password + 1]
          /\ account.password + 1 \in 0..MaxPassword
      BY <2>4, <3>1 DEF ChangePassword, Typed, AccountsTypeOK
    <3>3. RevokedBut(s) \in [DOMAIN sessions -> SessionRows]
      BY <2>2
    <3> QED BY <3>2, <3>3 DEF SessionRows
  <2>5. ASSUME NEW h \in Handlers, OpenSession(h) PROVE sessions' \in Seq(SessionRows)
    <3>1. PICK row : /\ sessions' = Append(sessions, row)
                     /\ row = [active |-> TRUE, factor |-> request[h].factor,
                               challenge |-> request[h].challenge,
                               password |-> request[h].password,
                               late |-> request[h].password # account.password]
      BY <2>5 DEF OpenSession, Opened
    <3>2. request[h] \in Carried
      BY <2>5 DEF OpenSession, Typed, Well
    <3>3. row \in SessionRows
      BY <3>1, <3>2 DEF Carried, SessionRows
    <3> QED BY <2>1, <3>1, <3>3, Appended
  <2> QED BY <2>1, <2>2, <2>3, <2>4, <2>5, Replaced, Moves DEF SessionMoves
<1> QED BY <1>1, <1>2

\* A password is only replaced together with the sessions it opened.
AccountMoves ==
  /\ role' = role /\ account' \in AccountRows
  /\ \/ account'.password = account.password
     \/ /\ account'.password = account.password + 1
        /\ sessions' = RevokedBut(0) \/ \E h \in Handlers : ChangePassword(h)

LEMMA AccountMove ==
  ASSUME Typed, [AccountsNext]_accountVars
  PROVE  AccountMoves /\ period' \in 1..MaxTime
<1> USE AccountsAssumption
<1>1. account \in AccountRows /\ period \in 1..MaxTime
  BY DEF Typed, AccountsTypeOK
<1> DEFINE P == AccountMoves /\ period' \in 1..MaxTime
<1>2. UNCHANGED <<role, account, period>> => P
  BY <1>1 DEF AccountMoves
<1>3. ASSUME NEW x \in {"PENDING", "ACTIVE", "SUSPENDED"}, SetStatus(x) PROVE P
  BY <1>1, <1>3 DEF SetStatus, factorVars, AccountMoves, AccountRows
<1>4. ASSUME account.password < MaxPassword, NEW b \in BOOLEAN,
             account' = [account EXCEPT !.password = @ + 1, !.temporary = b],
             UNCHANGED <<role, period>>,
             sessions' = RevokedBut(0) \/ \E h \in Handlers : ChangePassword(h)
      PROVE  P
  <2>1. PICK n : n = account.password + 1
    OBVIOUS
  <2>2. n \in 0..MaxPassword
    <3>1. account.password \in 0..MaxPassword
      BY <1>1 DEF AccountRows
    <3> QED BY <1>4, <2>1, <3>1
  <2>3. account' = [account EXCEPT !.password = n, !.temporary = b]
    BY <1>4, <2>1
  <2>4. account' \in AccountRows /\ account'.password = account.password + 1
    BY <1>1, <2>1, <2>2, <2>3 DEF AccountRows
  <2> QED BY <1>1, <1>4, <2>4 DEF AccountMoves
<1>5. ASSUME ResetAccess PROVE P
  BY <1>4, <1>5 DEF ResetAccess, RevokedAll
<1>6. ASSUME NEW h \in Handlers, ChangePassword(h) \/ ResetPassword(h) PROVE P
  <2>1. /\ UNCHANGED <<role, period>> /\ account.password < MaxPassword
        /\ account' = [account EXCEPT !.password = @ + 1, !.temporary = FALSE]
        /\ ResetPassword(h) => sessions' = RevokedBut(0)
    BY <1>6 DEF ChangePassword, ResetPassword, SessionsAfterReset, RevokedAll, factorVars
  <2> QED BY <1>4, <1>6, <2>1
<1>7. ASSUME NEW h \in Handlers, VerifyAddress(h) PROVE P
  BY <1>1, <1>7 DEF VerifyAddress, factorVars, AccountMoves, AccountRows
<1>8. ASSUME NEW h \in Handlers, ChangeContact(h) PROVE P
  BY <1>1, <1>8 DEF ChangeContact, factorVars, AccountMoves, AccountRows
<1>9. ASSUME PeriodPasses PROVE P
  BY <1>1, <1>9 DEF PeriodPasses, AccountMoves
<1>10. ASSUME NEW h \in Handlers, SignIn(h) PROVE UNCHANGED <<role, account, period>>
  BY <1>10 DEF SignIn, BeginSignIn, OpenSession, BeginChallenge, IssueChallenge, SubmitFactor,
               WrongFactor, Enroll, VerifyTotp, VerifyRecovery, RejectFactor, factorVars
<1>11. ASSUME NEW h \in Handlers, GiveUp(h) \/ \E s : BeginChangePassword(h, s)
       PROVE  UNCHANGED <<role, account, period>>
  BY <1>11 DEF GiveUp, BeginChangePassword, factorVars
<1>12. ASSUME NEW s, \/ RevokeSession(s) \/ RevokeOthers(s) \/ CodeExpires(s)
                     \/ ChallengeExpires(s) \/ \E other : RevokeOwned(s, other)
       PROVE  UNCHANGED <<role, account, period>>
  BY <1>12 DEF RevokeSession, RevokeOthers, CodeExpires, ChallengeExpires, RevokeOwned, factorVars
<1>13. ASSUME NEW h \in Handlers, Codes(h), ~VerifyAddress(h), ~ResetPassword(h), ~ChangeContact(h)
       PROVE  UNCHANGED <<role, account, period>>
  BY <1>13 DEF Codes, RequestPasswordReset, StoreCode, MailCode, ConfirmPasswordReset,
               RequestVerification, RequestContactChange, ConfirmVerification,
               ConfirmContactChange, CountAttempt, AskFor, Try, factorVars
<1>14. ASSUME NEW x \in {"ACTIVE", "SUSPENDED"}, UpdateCustomerStatus(x) \/ UpdateStaff(x) PROVE P
  BY <1>3, <1>14 DEF UpdateCustomerStatus, UpdateStaff
<1>15. ASSUME ReplacePermissions PROVE P
  BY <1>1, <1>3, <1>15 DEF ReplacePermissions, AccountRows
<1>16. UNCHANGED accountVars => UNCHANGED <<role, account, period>>
  BY DEF accountVars, factorVars
<1> HIDE DEF P
<1>17. ASSUME NEW h \in Handlers, SignIn(h) \/ Codes(h) PROVE P
  BY <1>2, <1>6, <1>7, <1>8, <1>10, <1>13, <1>17
<1>18. P
  BY <1>2, <1>5, <1>6, <1>9, <1>11, <1>12, <1>14, <1>15, <1>16, <1>17 DEF AccountsNext
<1> QED BY <1>18 DEF P

LEMMA TypedAlways == AccountsSpec => []Typed
<1> USE AccountsAssumption
<1>1. AccountsInit => Typed
  <2> SUFFICES ASSUME AccountsInit PROVE Typed
    OBVIOUS
  <2>1. DOMAIN request = Handlers /\ \A h \in Handlers : Well(request[h])
    BY DEF AccountsInit, RequestInit, NoRequest, Well, Guessing
  <2>2. AccountsTypeOK
    BY EmptySeq DEF AccountsInit, AccountsTypeOK, AccountRows, Credentials, Roles, Staff
  <2> QED BY <2>1, <2>2 DEF Typed
<1>2. Typed /\ [AccountsNext]_accountVars => Typed'
  <2> SUFFICES ASSUME Typed, [AccountsNext]_accountVars PROVE Typed'
    OBVIOUS
  <2>1. Growing /\ RequestMoves
    BY ChallengesGrow, RequestsMove
  <2>2. credential' \in Credentials
    BY <2>1, Accepted, Moves DEF CredentialMoves, Typed, AccountsTypeOK
  <2>3. AccountsTypeOK'
    BY <2>2, ChallengesGrow, TablesTyped, AccountMove
       DEF AccountMoves, Typed, AccountsTypeOK
  <2>4. /\ Len(challenges) \in Nat /\ DOMAIN challenges = 1..Len(challenges)
        /\ Len(challenges') \in Nat
    BY LenProperties, ChallengesGrow DEF Typed, AccountsTypeOK
  <2>5. ASSUME NEW q, Well(q) PROVE Well(q)'
    BY <2>1, <2>4, <2>5 DEF Well, Growing, Guessing, Carried
  <2>6. CASE UNCHANGED request
    BY <2>3, <2>5, <2>6 DEF Typed
  <2>7. ASSUME NEW h \in Handlers, NEW q, request' = [request EXCEPT ![h] = q], Well(q)'
        PROVE  Typed'
    <3>1. ASSUME NEW g \in Handlers PROVE Well(request[g])'
      <4>1. CASE g = h
        BY <2>7, <4>1 DEF Typed, Well
      <4>2. CASE g # h
        <5>1. PICK r : r = request[g] /\ r = request'[g]
          BY <2>7, <4>2 DEF Typed
        <5>2. Well(r)'
          BY <2>5, <5>1 DEF Typed
        <5> QED BY <5>1, <5>2 DEF Well
      <4> QED BY <4>1, <4>2
    <3> QED BY <2>3, <2>7, <3>1 DEF Typed
  <2> QED BY <2>1, <2>6, <2>7 DEF RequestMoves
<1> QED BY <1>1, <1>2, PTL DEF AccountsSpec

\* Every row and every request in flight has its type.
THEOREM TypeCorrect == AccountsSpec => []AccountsTypeOK
<1>1. Typed => AccountsTypeOK
  BY DEF Typed
<1> QED BY <1>1, TypedAlways, PTL
-----------------------------------------------------------------------------
(* Sessions and the password.                                              *)

\* ActiveSessionKnowsPassword: however sign-ins, resets and changes of the
\* password overlap, a session that outlives a password is one whose sign-in
\* was under way when it was replaced.
THEOREM SessionsKnowPassword == AccountsSpec => []ActiveSessionKnowsPassword
<1>1. AccountsInit => ActiveSessionKnowsPassword
  BY DEF AccountsInit, ActiveSessionKnowsPassword
<1>2. Typed /\ ActiveSessionKnowsPassword /\ [AccountsNext]_accountVars
        => ActiveSessionKnowsPassword'
  <2> SUFFICES ASSUME Typed, ActiveSessionKnowsPassword, [AccountsNext]_accountVars
               PROVE  ActiveSessionKnowsPassword'
    OBVIOUS
  <2>1. /\ sessions \in Seq(SessionRows) /\ Len(sessions) \in Nat
        /\ DOMAIN sessions = 1..Len(sessions)
        /\ \A i \in DOMAIN sessions : sessions[i] \in SessionRows
    BY LenProperties, ElementOfSeq DEF Typed, AccountsTypeOK
  <2>2. ASSUME NEW s, sessions' = RevokedBut(s), account'.password = account.password
        PROVE  ActiveSessionKnowsPassword'
    BY <2>1, <2>2 DEF RevokedBut, SessionRows, ActiveSessionKnowsPassword
  <2>3. ASSUME sessions' = RevokedBut(0) PROVE ActiveSessionKnowsPassword'
    <3>1. ASSUME NEW i \in DOMAIN sessions PROVE ~RevokedBut(0)[i].active
      <4>1. RevokedBut(0)[i] = [sessions[i] EXCEPT !.active = @ /\ i = 0]
        BY DEF RevokedBut
      <4>2. i # 0
        BY <2>1
      <4> QED BY <2>1, <4>1, <4>2 DEF SessionRows
    <3>2. DOMAIN sessions' = DOMAIN sessions
      BY <2>3 DEF RevokedBut
    <3> QED BY <2>3, <3>1, <3>2 DEF ActiveSessionKnowsPassword
  <2>4. ASSUME NEW h \in Handlers, ChangePassword(h) PROVE ActiveSessionKnowsPassword'
    <3>1. PICK s : s = request[h].session
      OBVIOUS
    <3>2. /\ sessions' = [RevokedBut(s) EXCEPT ![s].password = account.password + 1]
          /\ account'.password = account.password + 1
      BY <2>4, <3>1 DEF ChangePassword, Typed, AccountsTypeOK, AccountRows
    <3>3. ASSUME NEW i \in DOMAIN sessions', sessions'[i].active
          PROVE  sessions'[i].password = account'.password
      <4>1. i \in DOMAIN sessions /\ RevokedBut(s)[i] \in SessionRows
        BY <2>1, <3>2 DEF RevokedBut, SessionRows
      <4>2. i = s
        BY <2>1, <3>2, <3>3, <4>1 DEF RevokedBut, SessionRows
      <4> QED BY <3>2, <4>1, <4>2 DEF RevokedBut, SessionRows
    <3> QED BY <3>3 DEF ActiveSessionKnowsPassword
  <2>5. ASSUME NEW s, sessions' = [sessions EXCEPT ![s].active = FALSE],
               account'.password = account.password
        PROVE  ActiveSessionKnowsPassword'
    BY <2>1, <2>5 DEF SessionRows, ActiveSessionKnowsPassword
  <2>6. ASSUME NEW h \in Handlers, OpenSession(h) PROVE ActiveSessionKnowsPassword'
    <3>1. PICK row : /\ sessions' = Append(sessions, row)
                     /\ row = [active |-> TRUE, factor |-> request[h].factor,
                               challenge |-> request[h].challenge,
                               password |-> request[h].password,
                               late |-> request[h].password # account.password]
      BY <2>6 DEF OpenSession, Opened
    <3>2. account' = account /\ request[h] \in Carried
      BY <2>6 DEF OpenSession, Typed, Well
    <3>3. row \in SessionRows
      BY <3>1, <3>2 DEF Carried, SessionRows
    <3>4. row.late \/ row.password = account'.password
      BY <3>1, <3>2
    <3> QED BY <2>1, <3>1, <3>2, <3>3, <3>4, Appended DEF ActiveSessionKnowsPassword
  <2>7. CASE UNCHANGED sessions /\ account'.password = account.password
    BY <2>7 DEF ActiveSessionKnowsPassword
  <2> QED BY <2>2, <2>3, <2>4, <2>5, <2>6, <2>7, Moves, AccountMove DEF SessionMoves, AccountMoves
<1> QED BY <1>1, <1>2, TypedAlways, PTL DEF AccountsSpec
-----------------------------------------------------------------------------
(* What is good for one use.                                               *)

LEMMA CodesOnceAlways == AccountsSpec => []CodesOnce
<1>1. AccountsInit => CodesOnce
  BY DEF AccountsInit, CodesOnce
<1>2. Typed /\ CodesOnce /\ [AccountsNext]_accountVars => CodesOnce'
  <2> SUFFICES ASSUME Typed, CodesOnce, [AccountsNext]_accountVars PROVE CodesOnce'
    OBVIOUS
  <2>1. /\ codes \in Seq(Codewords)
        /\ \A i \in DOMAIN codes : codes[i] \in Codewords
    BY LenProperties, ElementOfSeq DEF Typed, AccountsTypeOK
  <2>2. ASSUME NEW p, codes' = Invalidated(p) PROVE CodesOnce'
    BY <2>1, <2>2 DEF Invalidated, Codewords, CodesOnce
  <2>3. ASSUME NEW i, codes' = UsedUp(i) PROVE CodesOnce'
    BY <2>1, <2>3 DEF UsedUp, Codewords, CodesOnce
  <2>4. ASSUME NEW h \in Handlers, CountAttempt(h) PROVE CodesOnce'
    <3>1. ASSUME NEW j \in DOMAIN codes
          PROVE  codes'[j].uses = codes[j].uses /\ codes'[j].open = codes[j].open
      <4>1. codes[j] \in Codewords
        BY <2>1
      <4>2. codes'[j] = IF j = request[h].code
                          THEN [codes[j] EXCEPT !.attempts = @ + 1] ELSE codes[j]
        BY <2>4 DEF CountAttempt
      <4> QED BY <4>1, <4>2 DEF Codewords
    <3> QED BY <2>4, <3>1 DEF CountAttempt, CodesOnce
  <2>5. ASSUME NEW h \in Handlers, ChangeContact(h), codes' # codes PROVE CodesOnce'
    <3>1. ASSUME NEW j \in DOMAIN codes
          PROVE  codes'[j].uses <= IF codes'[j].open THEN 0 ELSE 1
      <4>1. codes[j] \in Codewords /\ codes[j].uses <= IF codes[j].open THEN 0 ELSE 1
        BY <2>1 DEF CodesOnce
      <4>2. codes'[j] = IF j = request[h].code
                          THEN [[codes[j] EXCEPT !.open = FALSE] EXCEPT !.uses = @ + 1]
                          ELSE IF codes[j].purpose = "CONTACT"
                                 THEN [codes[j] EXCEPT !.open = FALSE] ELSE codes[j]
        BY <2>5 DEF ChangeContact, UsedUp, Invalidated
      <4>3. j = request[h].code => codes[j].open
        BY <2>5 DEF ChangeContact, ContactConsumable, Guessable
      <4>4. PICK c : c = [codes[j] EXCEPT !.open = FALSE]
        OBVIOUS
      <4>5. c \in Codewords /\ ~c.open /\ c.uses = codes[j].uses
        BY <4>1, <4>4 DEF Codewords
      <4>6. [c EXCEPT !.uses = @ + 1].uses = codes[j].uses + 1
        BY <4>5 DEF Codewords
      <4>7. CASE j = request[h].code
        <5>1. codes[j].uses = 0
          BY <4>1, <4>3, <4>7 DEF Codewords
        <5>2. codes'[j] = [c EXCEPT !.uses = @ + 1]
          BY <4>2, <4>4, <4>7
        <5>3. codes'[j].uses = 1 /\ ~codes'[j].open
          BY <4>5, <5>1, <5>2 DEF Codewords
        <5> QED BY <5>3
      <4>8. CASE j # request[h].code
        BY <4>1, <4>2, <4>4, <4>5, <4>8 DEF Codewords
      <4> QED BY <4>7, <4>8
    <3>2. DOMAIN codes' = DOMAIN codes
      BY <2>5 DEF ChangeContact
    <3> QED BY <3>1, <3>2 DEF CodesOnce
  <2>6. ASSUME NEW h \in Handlers, StoreCode(h) PROVE CodesOnce'
    <3>1. PICK row : /\ codes' = Append(codes, row)
                     /\ row = [purpose |-> request[h].purpose, open |-> TRUE,
                               attempts |-> 0, uses |-> 0]
      BY <2>6 DEF StoreCode
    <3>2. row \in Codewords
      BY <2>6, <3>1 DEF StoreCode, Typed, Well, Codewords, Purposes
    <3> QED BY <2>1, <3>1, <3>2, Appended DEF CodesOnce
  <2> QED BY <2>2, <2>3, <2>4, <2>5, <2>6, Moves DEF CodeMoves, CodesOnce
<1> QED BY <1>1, <1>2, TypedAlways, PTL DEF AccountsSpec

LEMMA SpentStays ==
  ASSUME Typed, Growing, [AccountsNext]_accountVars, NEW f, NEW i, Spent(f, i)
  PROVE  Spent(f, i)'
<1>1. credential.enrolled /\ credential'.enrolled /\ credential \in Credentials
  BY DEF Spent, Growing, Typed, AccountsTypeOK
<1>2. i \in DOMAIN challenges' /\ ~challenges'[i].open
  BY DEF Spent, Growing
<1>3. CASE UNCHANGED credential
  BY <1>1, <1>2, <1>3 DEF Spent
<1>4. ASSUME NEW h \in Handlers, VerifyTotp(h), credential' # credential
      PROVE  Spent(f, i)'
  <2>1. request[h].factor \in Nat /\ credential.counter < request[h].factor
    BY <1>4 DEF VerifyTotp, Consume, Typed, Well
  <2>2. credential' = [credential EXCEPT !.counter = request[h].factor]
    BY <1>4 DEF VerifyTotp, Consume
  <2> QED BY <1>1, <1>2, <2>1, <2>2 DEF Spent, Credentials
<1>5. ASSUME NEW h \in Handlers, VerifyRecovery(h), credential' # credential
      PROVE  Spent(f, i)'
  <2>1. credential' = [credential EXCEPT !.spent = @ \cup {request[h].factor}]
    BY <1>5 DEF VerifyRecovery, Consume
  <2> QED BY <1>1, <1>2, <2>1 DEF Spent, Credentials
<1> QED BY <1>1, <1>3, <1>4, <1>5, Moves DEF CredentialMoves, Enroll

\* A factor, and a challenge, accepted now have served nobody yet.
LEMMA AcceptedIsFresh ==
  ASSUME Typed, NEW q, Accepts(q), q.factor \in Factors \ {None}, NEW f, NEW i, Spent(f, i)
  PROVE  f # q.factor /\ i # q.challenge
<1>1. q.factor \in Nat \cup RecoveryCodes
  BY DEF Factors
<1>2. f = q.factor => FALSE
  BY <1>1 DEF Accepts, Spent, Typed, AccountsTypeOK, Credentials
<1>3. i = q.challenge => FALSE
  BY DEF Accepts, Spent
<1> QED BY <1>2, <1>3

LEMMA FactorsOnceAlways == AccountsSpec => []FactorsOnce
<1>1. AccountsInit => FactorsOnce
  BY DEF AccountsInit, FactorsOnce, Opening, RequestInit, NoRequest
<1>2. Typed /\ FactorsOnce /\ [AccountsNext]_accountVars => FactorsOnce'
  <2> SUFFICES ASSUME Typed, FactorsOnce, [AccountsNext]_accountVars PROVE FactorsOnce'
    OBVIOUS
  <2>1. Growing /\ RequestMoves
    BY ChallengesGrow, RequestsMove
  <2>2. /\ sessions \in Seq(SessionRows) /\ Len(sessions) \in Nat
        /\ DOMAIN sessions = 1..Len(sessions)
        /\ \A i \in DOMAIN sessions : sessions[i] \in SessionRows
    BY LenProperties, ElementOfSeq DEF Typed, AccountsTypeOK
  <2>3. ASSUME NEW f, NEW i, Spent(f, i) PROVE Spent(f, i)'
    BY <2>1, <2>3, SpentStays
  <2>4. ASSUME NEW h \in Handlers, OpenSession(h) PROVE FactorsOnce'
    <3>1. PICK row : /\ sessions' = Append(sessions, row)
                     /\ row = [active |-> TRUE, factor |-> request[h].factor,
                               challenge |-> request[h].challenge,
                               password |-> request[h].password,
                               late |-> request[h].password # account.password]
      BY <2>4 DEF OpenSession, Opened
    <3>2. h \in Opening /\ request[h] \in Carried
      BY <2>4 DEF OpenSession, Typed, Well, Opening
    <3>3. row \in SessionRows
      BY <3>1, <3>2 DEF Carried, SessionRows
    <3>4. /\ row.factor = request[h].factor /\ row.challenge = request[h].challenge
          /\ IF row.factor = None THEN row.challenge = 0 ELSE Spent(row.factor, row.challenge)
      BY <2>4, <3>1, <3>2 DEF FactorsOnce, OpenSession, Typed, Well
    <3>5. \A g \in Opening' : g \in Opening \ {h} /\ request'[g] = request[g]
      BY <2>4 DEF OpenSession, Finish, NoRequest, Opening, Typed
    <3>6. PICK n : n = Len(sessions) + 1
      OBVIOUS
    <3>7. /\ DOMAIN sessions' = DOMAIN sessions \cup {n} /\ n \notin DOMAIN sessions
          /\ \A i \in DOMAIN sessions : sessions'[i] = sessions[i]
          /\ sessions'[n] = row
      BY <2>2, <3>1, <3>3, <3>6, Appended
    <3>8. \A i \in DOMAIN sessions : Apart(sessions[i], row) /\ Apart(row, sessions[i])
      BY <3>2, <3>4 DEF FactorsOnce, Apart
    <3>9. \A g \in Opening' : Apart(row, request'[g])
      BY <3>2, <3>4, <3>5 DEF FactorsOnce, Apart
    <3>10. /\ \A i \in DOMAIN sessions' :
                IF sessions'[i].factor = None THEN sessions'[i].challenge = 0
                ELSE Spent(sessions'[i].factor, sessions'[i].challenge)
           /\ \A g \in Opening' :
                request'[g].factor # None => Spent(request'[g].factor, request'[g].challenge)
      BY <3>4, <3>5, <3>7 DEF FactorsOnce
    <3>11. /\ \A i, j \in DOMAIN sessions' : i # j => Apart(sessions'[i], sessions'[j])
           /\ \A i \in DOMAIN sessions', g \in Opening' : Apart(sessions'[i], request'[g])
           /\ \A g, k \in Opening' : g # k => Apart(request'[g], request'[k])
      BY <3>5, <3>7, <3>8, <3>9 DEF FactorsOnce
    <3> QED BY <2>3, <3>10, <3>11 DEF FactorsOnce, Apart
  <2>5. ASSUME DOMAIN sessions' = DOMAIN sessions,
               \A i \in DOMAIN sessions : /\ sessions'[i].factor = sessions[i].factor
                                         /\ sessions'[i].challenge = sessions[i].challenge
        PROVE  FactorsOnce'
    <3>1. ASSUME \A g \in Opening' : /\ request'[g].factor # None
                                     => g \in Opening /\ request'[g] = request[g]
          PROVE  FactorsOnce'
      BY <2>3, <2>5, <3>1 DEF FactorsOnce, Apart
    <3>2. CASE UNCHANGED request
      BY <3>1, <3>2 DEF Opening
    <3>3. ASSUME NEW h \in Handlers, NEW q, request' = [request EXCEPT ![h] = q],
                 Becomes(h, q)
          PROVE  FactorsOnce'
      <4>1. /\ request'[h] = q
            /\ \A g \in Handlers \ {h} : request'[g] = request[g]
        BY <3>3 DEF Typed
      <4>2. CASE q.op # "OPEN" \/ q.factor = None
        BY <3>1, <4>1, <4>2 DEF Opening
      <4>3. ASSUME request[h].op \in Guessing, q = [request[h] EXCEPT !.op = "OPEN"],
                   Accepts(q)
            PROVE  FactorsOnce'
        <5>1. PICK r : r = request[h]
          OBVIOUS
        <5>2. /\ r \in Carried /\ q.factor = r.factor /\ q.challenge = r.challenge
              /\ h \notin Opening
          BY <4>3, <5>1 DEF Typed, Well, Carried, Guessing, Opening
        <5>3. Spent(q.factor, q.challenge)'
          BY <4>3 DEF Accepts
        <5>4. ASSUME NEW f, NEW i, f # None, q.factor # None, Spent(f, i)
              PROVE  f # q.factor /\ i # q.challenge
          BY <4>3, <5>2, <5>4, AcceptedIsFresh DEF Carried
        <5>5. \A g \in Opening' : g = h \/ (g \in Opening /\ request'[g] = request[g])
          BY <4>1 DEF Opening
        <5>6. \A i \in DOMAIN sessions : Apart(sessions[i], q)
          BY <5>4 DEF FactorsOnce, Apart
        <5>7. \A g \in Opening : Apart(request[g], q) /\ Apart(q, request[g])
          BY <5>4 DEF FactorsOnce, Apart
        <5>8. ASSUME NEW g \in Opening', request'[g].factor # None
              PROVE  Spent(request[g].factor, request[g].challenge)'
          <6>1. PICK f, i : f = request'[g].factor /\ i = request'[g].challenge
            OBVIOUS
          <6>2. CASE g = h
            BY <4>1, <5>3, <6>1, <6>2 DEF Spent
          <6>3. CASE g # h
            <7>1. Spent(f, i)
              BY <5>5, <5>8, <6>1, <6>3 DEF FactorsOnce
            <7>2. Spent(f, i)'
              BY <2>3, <7>1
            <7> QED BY <6>1, <7>2 DEF Spent
          <6> QED BY <6>2, <6>3
        <5>9. \A g, k \in Opening' : g # k => Apart(request'[g], request'[k])
          BY <4>1, <5>5, <5>7 DEF FactorsOnce
        <5>10. \A i \in DOMAIN sessions', g \in Opening' : Apart(sessions'[i], request'[g])
          BY <2>5, <4>1, <5>5, <5>6 DEF FactorsOnce, Apart
        <5>11. ASSUME NEW i \in DOMAIN sessions', sessions'[i].factor # None
               PROVE  Spent(sessions[i].factor, sessions[i].challenge)'
          <6>1. PICK f, c : f = sessions[i].factor /\ c = sessions[i].challenge
            OBVIOUS
          <6>2. Spent(f, c)'
            BY <2>3, <2>5, <5>11, <6>1 DEF FactorsOnce
          <6> QED BY <2>5, <6>1, <6>2 DEF Spent
        <5>12. \A i \in DOMAIN sessions' : sessions'[i].factor = None => sessions'[i].challenge = 0
          BY <2>5 DEF FactorsOnce
        <5>13. \A i, j \in DOMAIN sessions' : i # j => Apart(sessions'[i], sessions'[j])
          BY <2>5 DEF FactorsOnce, Apart
        <5>14. (\A i \in DOMAIN sessions :
                  IF sessions[i].factor = None THEN sessions[i].challenge = 0
                  ELSE Spent(sessions[i].factor, sessions[i].challenge))'
          BY <5>11, <5>12
        <5>15. (\A g \in Opening : request[g].factor # None
                  => Spent(request[g].factor, request[g].challenge))'
          BY <5>8
        <5>16. /\ (\A i, j \in DOMAIN sessions : i # j => Apart(sessions[i], sessions[j]))'
               /\ (\A i \in DOMAIN sessions, g \in Opening : Apart(sessions[i], request[g]))'
               /\ (\A g, k \in Opening : g # k => Apart(request[g], request[k]))'
          BY <5>9, <5>10, <5>13 DEF Apart
        <5> QED BY <5>14, <5>15, <5>16 DEF FactorsOnce
      <4>4. request[h].op \in Guessing => [request[h] EXCEPT !.op = "REJECT"].op = "REJECT"
        BY DEF Typed, Well, Carried
      <4>5. \/ q.op # "OPEN" \/ q.factor = None
            \/ /\ request[h].op \in Guessing /\ q = [request[h] EXCEPT !.op = "OPEN"]
               /\ Accepts(q)
        <5>1. NoRequest.op # "OPEN"
          BY DEF NoRequest
        <5>2. "OPEN" \notin Guessing /\ "COUNT" # "OPEN" /\ "MAIL" # "OPEN" /\ "REJECT" # "OPEN"
          BY DEF Guessing
        <5> HIDE DEF NoRequest
        <5> QED BY <3>3, <4>4, <5>1, <5>2 DEF Becomes
      <4> QED BY <4>2, <4>3, <4>5
    <3> QED BY <2>1, <3>2, <3>3 DEF RequestMoves
  <2>6. ASSUME NEW s, sessions' = RevokedBut(s) \/ sessions' = [sessions EXCEPT ![s].active = FALSE]
        PROVE  FactorsOnce'
    BY <2>2, <2>5, <2>6 DEF RevokedBut, SessionRows
  <2>7. ASSUME NEW h \in Handlers, ChangePassword(h) PROVE FactorsOnce'
    <3>1. PICK s, n : sessions' = [RevokedBut(s) EXCEPT ![s].password = n]
      BY <2>7 DEF ChangePassword
    <3>2. ASSUME NEW i \in DOMAIN sessions
          PROVE  /\ sessions'[i].factor = sessions[i].factor
                 /\ sessions'[i].challenge = sessions[i].challenge
      <4>1. RevokedBut(s)[i] = [sessions[i] EXCEPT !.active = @ /\ i = s]
        BY DEF RevokedBut
      <4>2. sessions'[i] = IF i = s THEN [RevokedBut(s)[i] EXCEPT !.password = n]
                           ELSE RevokedBut(s)[i]
        BY <3>1 DEF RevokedBut
      <4> QED BY <2>2, <4>1, <4>2 DEF SessionRows
    <3> QED BY <2>5, <3>1, <3>2 DEF RevokedBut
  <2>8. CASE UNCHANGED sessions
    BY <2>5, <2>8
  <2> QED BY <2>4, <2>6, <2>7, <2>8, Moves DEF SessionMoves
<1> QED BY <1>1, <1>2, TypedAlways, PTL DEF AccountsSpec

\* UsedOnce: however requests that carry the same code, factor or challenge
\* overlap, it is good for one of them.
THEOREM GoodForOneUse == AccountsSpec => []UsedOnce
<1>1. Typed /\ CodesOnce /\ FactorsOnce => UsedOnce
  <2> SUFFICES ASSUME Typed, CodesOnce, FactorsOnce PROVE UsedOnce
    OBVIOUS
  <2>1. \A i \in DOMAIN codes : codes[i] \in Codewords
    BY LenProperties, ElementOfSeq DEF Typed, AccountsTypeOK
  <2>2. \A i \in DOMAIN codes : codes[i].uses <= 1
    BY <2>1 DEF Codewords, CodesOnce
  <2>3. ASSUME NEW i \in DOMAIN sessions, NEW j \in DOMAIN sessions,
               i # j, sessions[i].factor # None
        PROVE  /\ sessions[i].factor # sessions[j].factor
               /\ sessions[i].challenge # sessions[j].challenge
    <3>1. DOMAIN challenges = 1..Len(challenges)
      BY LenProperties DEF Typed, AccountsTypeOK
    <3>2. sessions[i].challenge # 0
      BY <2>3, <3>1 DEF FactorsOnce, Spent
    <3> QED BY <2>3, <3>2 DEF FactorsOnce, Apart
  <2> QED BY <2>2, <2>3 DEF UsedOnce
<1> QED BY <1>1, TypedAlways, CodesOnceAlways, FactorsOnceAlways, PTL
-----------------------------------------------------------------------------
(* The limit on wrong codes.                                               *)

\* How the bound is kept, of one row: it is new, or nobody more guesses, or
\* another may because the limit is not reached, or one guess was counted.
LEMMA WithinStays ==
  ASSUME NEW n \in Nat, NEW m \in Nat, NEW G \in SUBSET Handlers, NEW H \in SUBSET Handlers,
         \/ m = 0
         \/ m = n /\ H \subseteq G /\ Within(n, G)
         \/ m = n /\ n < AttemptLimit
         \/ m = n + 1 /\ Within(n, G) /\ \E h \in G : H = G \ {h}
  PROVE  Within(m, H)
<1> USE AccountsAssumption
<1>1. /\ Cardinality(Handlers) \in Nat
      /\ IsFiniteSet(G) /\ Cardinality(G) \in Nat /\ Cardinality(G) <= Cardinality(Handlers)
      /\ IsFiniteSet(H) /\ Cardinality(H) \in Nat /\ Cardinality(H) <= Cardinality(Handlers)
  BY FS_Subset, FS_CardinalityType
<1>2. CASE m = 0 \/ (m = n /\ n < AttemptLimit)
  BY <1>1, <1>2 DEF Within
<1>3. CASE m = n /\ H \subseteq G /\ Within(n, G)
  <2>1. Cardinality(H) <= Cardinality(G)
    BY <1>1, <1>3, FS_Subset
  <2> QED BY <1>1, <1>3, <2>1 DEF Within
<1>4. ASSUME m = n + 1, Within(n, G), NEW h \in G, H = G \ {h} PROVE Within(m, H)
  <2>1. Cardinality(H) = Cardinality(G) - 1
    BY <1>1, <1>4, FS_RemoveElement
  <2> QED BY <1>1, <1>4, <2>1 DEF Within
<1> QED BY <1>2, <1>3, <1>4

\* The attempts of a row only change when one is counted.
LEMMA CodeAttempts ==
  ASSUME Typed, [AccountsNext]_accountVars, NEW i \in DOMAIN codes'
  PROVE  \/ codes'[i].attempts = 0
         \/ i \in DOMAIN codes /\ codes'[i].attempts = codes[i].attempts
         \/ /\ i \in DOMAIN codes /\ codes'[i].attempts = codes[i].attempts + 1
            /\ \E h \in Handlers : CountAttempt(h) /\ request[h].code = i
<1>1. codes \in Seq(Codewords) /\ \A j \in DOMAIN codes : codes[j] \in Codewords
  BY LenProperties, ElementOfSeq DEF Typed, AccountsTypeOK
<1> DEFINE Same == i \in DOMAIN codes /\ codes'[i].attempts = codes[i].attempts
<1>2. ASSUME NEW p, codes' = Invalidated(p) PROVE Same
  BY <1>1, <1>2 DEF Invalidated, Codewords
<1>3. ASSUME NEW j, codes' = UsedUp(j) PROVE Same
  BY <1>1, <1>3 DEF UsedUp, Codewords
<1>4. ASSUME NEW h \in Handlers, CountAttempt(h)
      PROVE  Same \/ (request[h].code = i /\ codes'[i].attempts = codes[i].attempts + 1)
  <2>1. i \in DOMAIN codes
    BY <1>4 DEF CountAttempt
  <2>2. codes[i] \in Codewords
    BY <1>1, <2>1
  <2>3. codes'[i] = IF i = request[h].code
                      THEN [codes[i] EXCEPT !.attempts = @ + 1] ELSE codes[i]
    BY <1>4, <2>1 DEF CountAttempt
  <2> QED BY <2>1, <2>2, <2>3 DEF Codewords
<1>5. ASSUME NEW h \in Handlers, ChangeContact(h) PROVE Same
  <2>1. CASE UNCHANGED codes
    BY <2>1
  <2>2. CASE codes' # codes
    <3>1. i \in DOMAIN codes
      BY <1>5, <2>2 DEF ChangeContact
    <3>2. PICK c : c = [codes[i] EXCEPT !.open = FALSE]
      OBVIOUS
    <3>3. codes'[i] = IF i = request[h].code THEN [c EXCEPT !.uses = @ + 1]
                      ELSE IF codes[i].purpose = "CONTACT" THEN c ELSE codes[i]
      BY <1>5, <2>2, <3>1, <3>2 DEF ChangeContact, UsedUp, Invalidated
    <3>4. c \in Codewords /\ c.attempts = codes[i].attempts
      BY <1>1, <3>1, <3>2 DEF Codewords
    <3>5. [c EXCEPT !.uses = @ + 1].attempts = c.attempts
      BY <3>4 DEF Codewords
    <3> QED BY <3>1, <3>3, <3>4, <3>5
  <2> QED BY <2>1, <2>2
<1>6. ASSUME NEW h \in Handlers, StoreCode(h) PROVE Same \/ codes'[i].attempts = 0
  <2>1. PICK row : /\ codes' = Append(codes, row)
                   /\ row = [purpose |-> request[h].purpose, open |-> TRUE,
                             attempts |-> 0, uses |-> 0]
    BY <1>6 DEF StoreCode
  <2>2. row \in Codewords
    BY <1>6, <2>1 DEF StoreCode, Typed, Well, Codewords, Purposes
  <2> QED BY <1>1, <2>1, <2>2, Appended
<1>7. CASE UNCHANGED codes
  BY <1>7
<1> HIDE DEF Same
<1>8. \/ Same \/ codes'[i].attempts = 0
      \/ \E h \in Handlers : /\ CountAttempt(h) /\ request[h].code = i
                             /\ codes'[i].attempts = codes[i].attempts + 1
  BY <1>2, <1>3, <1>4, <1>5, <1>6, <1>7, Moves DEF CodeMoves, Same
<1>9. ASSUME NEW h \in Handlers, CountAttempt(h) PROVE DOMAIN codes' = DOMAIN codes
  BY <1>9 DEF CountAttempt
<1> QED BY <1>8, <1>9 DEF Same

LEMMA ChallengeAttempts ==
  ASSUME Typed, [AccountsNext]_accountVars, NEW i \in DOMAIN challenges'
  PROVE  \/ challenges'[i].attempts = 0
         \/ i \in DOMAIN challenges /\ challenges'[i].attempts = challenges[i].attempts
         \/ /\ i \in DOMAIN challenges /\ challenges'[i].attempts = challenges[i].attempts + 1
            /\ \E h \in Handlers : RejectFactor(h) /\ request[h].challenge = i
<1>1. /\ challenges \in Seq(Challenges)
      /\ \A j \in DOMAIN challenges : challenges[j] \in Challenges
  BY LenProperties, ElementOfSeq DEF Typed, AccountsTypeOK
<1> DEFINE Same == i \in DOMAIN challenges /\ challenges'[i].attempts = challenges[i].attempts
<1>2. ASSUME challenges' = ChallengesDropped PROVE Same
  BY <1>1, <1>2 DEF ChallengesDropped, Challenges
<1>3. ASSUME NEW j, challenges' = [challenges EXCEPT ![j].open = FALSE] PROVE Same
  BY <1>1, <1>3 DEF Challenges
<1>4. ASSUME NEW h \in Handlers, RejectFactor(h)
      PROVE  Same \/ (/\ request[h].challenge = i
                      /\ challenges'[i].attempts = challenges[i].attempts + 1)
  <2>1. i \in DOMAIN challenges
    BY <1>4 DEF RejectFactor
  <2>2. challenges[i] \in Challenges
    BY <1>1, <2>1
  <2>3. challenges'[i] = IF i = request[h].challenge
                           THEN [challenges[i] EXCEPT !.attempts = @ + 1] ELSE challenges[i]
    BY <1>4, <2>1 DEF RejectFactor
  <2> QED BY <2>1, <2>2, <2>3 DEF Challenges
<1>5. ASSUME NEW h \in Handlers, IssueChallenge(h) PROVE Same \/ challenges'[i].attempts = 0
  <2>1. PICK row : /\ challenges' = Append(challenges, row)
                   /\ row = [kind |-> request[h].kind, open |-> TRUE, attempts |-> 0,
                             password |-> request[h].password]
    BY <1>5 DEF IssueChallenge
  <2>2. row \in Challenges
    BY <1>5, <2>1 DEF IssueChallenge, Challenges, Typed, Well
  <2> QED BY <1>1, <2>1, <2>2, Appended
<1>6. CASE UNCHANGED challenges
  BY <1>6
<1> HIDE DEF Same
<1>7. \/ Same \/ challenges'[i].attempts = 0
      \/ \E h \in Handlers : /\ RejectFactor(h) /\ request[h].challenge = i
                             /\ challenges'[i].attempts = challenges[i].attempts + 1
  BY <1>2, <1>3, <1>4, <1>5, <1>6, Moves DEF ChallengeMoves, Same
<1>8. ASSUME NEW h \in Handlers, RejectFactor(h) PROVE DOMAIN challenges' = DOMAIN challenges
  BY <1>8 DEF RejectFactor
<1> QED BY <1>7, <1>8 DEF Same

\* Whoever joins those who guess found the limit not reached.
LEMMA GuessesJoin ==
  ASSUME Typed, [AccountsNext]_accountVars, NEW i
  PROVE  /\ \/ CodeGuesses(i)' \subseteq CodeGuesses(i)
            \/ Guessable(codes[i]) /\ UNCHANGED codes
         /\ \/ ChallengeGuesses(i)' \subseteq ChallengeGuesses(i)
            \/ Guessable(challenges[i]) /\ UNCHANGED challenges
<1>1. CASE UNCHANGED request
  BY <1>1 DEF CodeGuesses, ChallengeGuesses
<1>2. ASSUME NEW h \in Handlers, NEW q, request' = [request EXCEPT ![h] = q], Becomes(h, q)
      PROVE  /\ \/ CodeGuesses(i)' \subseteq CodeGuesses(i)
                \/ Guessable(codes[i]) /\ UNCHANGED codes
             /\ \/ ChallengeGuesses(i)' \subseteq ChallengeGuesses(i)
                \/ Guessable(challenges[i]) /\ UNCHANGED challenges
  <2>1. request'[h] = q /\ \A g \in Handlers \ {h} : request'[g] = request[g]
    BY <1>2 DEF Typed
  <2>2. request[h].op \in Guessing =>
          /\ [request[h] EXCEPT !.op = "REJECT"].op = "REJECT"
          /\ [request[h] EXCEPT !.op = "OPEN"].op = "OPEN"
          /\ [request[h] EXCEPT !.op = "REJECT"].challenge = request[h].challenge
    BY DEF Typed, Well, Carried
  <2>3. /\ NoRequest.op = "NONE" /\ "NONE" \notin Guessing /\ "COUNT" \notin Guessing
        /\ "OPEN" \notin Guessing /\ "MAIL" \notin Guessing
    BY DEF NoRequest, Guessing
  <2>4. /\ q.op = "COUNT" => Guessable(codes[q.code]) /\ UNCHANGED codes
        /\ q.op \in Guessing =>
             \/ request[h].op \in Guessing /\ q.challenge = request[h].challenge
             \/ Guessable(challenges[q.challenge]) /\ UNCHANGED challenges
    <3>1. CASE q = NoRequest
      BY <2>3, <3>1
    <3>2. CASE request[h].op \in Guessing /\ q = [request[h] EXCEPT !.op = "REJECT"]
      BY <2>2, <2>3, <3>2
    <3>3. CASE request[h].op \in Guessing /\ q = [request[h] EXCEPT !.op = "OPEN"]
      BY <2>2, <2>3, <3>3
    <3>4. CASE ~ (q = NoRequest) /\ ~ (request[h].op \in Guessing)
      BY <1>2, <2>3, <3>4 DEF Becomes
    <3> QED BY <1>2, <2>3, <3>1, <3>2, <3>3, <3>4 DEF Becomes
  <2>5. (q.op = "COUNT" /\ q.code = i) \/ CodeGuesses(i)' \subseteq CodeGuesses(i)
    BY <2>1 DEF CodeGuesses
  <2>6. \/ q.op \in Guessing /\ q.challenge = i /\ h \notin ChallengeGuesses(i)
        \/ ChallengeGuesses(i)' \subseteq ChallengeGuesses(i)
    BY <2>1 DEF ChallengeGuesses
  <2>7. ~ (/\ request[h].op \in Guessing /\ q.challenge = request[h].challenge
           /\ q.challenge = i /\ h \notin ChallengeGuesses(i))
    BY DEF ChallengeGuesses
  <2> QED BY <2>5, <2>6, <2>4, <2>7
<1> QED BY <1>1, <1>2, ChallengesGrow, RequestsMove DEF RequestMoves

LEMMA LimitedAlways == AccountsSpec => []Limited
<1> USE AccountsAssumption
<1>1. AccountsInit => Limited
  BY DEF AccountsInit, Limited
<1>2. Typed /\ Limited /\ [AccountsNext]_accountVars => Limited'
  <2> SUFFICES ASSUME Typed, Limited, [AccountsNext]_accountVars PROVE Limited'
    OBVIOUS
  <2>1. ASSUME NEW i
        PROVE  /\ CodeGuesses(i) \subseteq Handlers /\ CodeGuesses(i)' \subseteq Handlers
               /\ ChallengeGuesses(i) \subseteq Handlers
               /\ ChallengeGuesses(i)' \subseteq Handlers
    BY DEF CodeGuesses, ChallengeGuesses
  <2>2. /\ \A i \in DOMAIN codes : codes[i] \in Codewords
        /\ \A i \in DOMAIN codes' : codes'[i] \in Codewords
        /\ \A i \in DOMAIN challenges : challenges[i] \in Challenges
        /\ \A i \in DOMAIN challenges' : challenges'[i] \in Challenges
    BY TablesTyped, ChallengesGrow, LenProperties, ElementOfSeq DEF Typed, AccountsTypeOK
  <2>3. ASSUME NEW i \in DOMAIN codes' PROVE Within(codes'[i].attempts, CodeGuesses(i)')
    <3>1. PICK m, H : m = codes'[i].attempts /\ H = CodeGuesses(i)'
      OBVIOUS
    <3>2. PICK n, G : n = codes[i].attempts /\ G = CodeGuesses(i)
      OBVIOUS
    <3>3. m \in Nat /\ G \in SUBSET Handlers /\ H \in SUBSET Handlers
      BY <2>1, <2>2, <3>1, <3>2 DEF Codewords
    <3>4. CASE m = 0
      BY <3>1, <3>3, <3>4, WithinStays
    <3>5. ASSUME i \in DOMAIN codes, m = n PROVE Within(m, H)
      <4>1. n \in Nat /\ Within(n, G)
        BY <2>2, <3>2, <3>5 DEF Codewords, Limited
      <4>2. H \subseteq G \/ n < AttemptLimit
        BY <3>1, <3>2, GuessesJoin DEF Guessable
      <4> QED BY <3>3, <3>5, <4>1, <4>2, WithinStays
    <3>6. ASSUME i \in DOMAIN codes, m = n + 1, NEW h \in Handlers, CountAttempt(h),
                 request[h].code = i
          PROVE  Within(m, H)
      <4>1. n \in Nat /\ Within(n, G)
        BY <2>2, <3>2, <3>6 DEF Codewords, Limited
      <4>2. h \in G /\ H = G \ {h}
        BY <3>1, <3>2, <3>6 DEF CountAttempt, Finish, NoRequest, CodeGuesses, Typed
      <4> QED BY <3>3, <3>6, <4>1, <4>2, WithinStays
    <3> QED BY <3>1, <3>2, <3>4, <3>5, <3>6, CodeAttempts
  <2>4. ASSUME NEW i \in DOMAIN challenges'
        PROVE  Within(challenges'[i].attempts, ChallengeGuesses(i)')
    <3>1. PICK m, H : m = challenges'[i].attempts /\ H = ChallengeGuesses(i)'
      OBVIOUS
    <3>2. PICK n, G : n = challenges[i].attempts /\ G = ChallengeGuesses(i)
      OBVIOUS
    <3>3. m \in Nat /\ G \in SUBSET Handlers /\ H \in SUBSET Handlers
      BY <2>1, <2>2, <3>1, <3>2 DEF Challenges
    <3>4. CASE m = 0
      BY <3>1, <3>3, <3>4, WithinStays
    <3>5. ASSUME i \in DOMAIN challenges, m = n PROVE Within(m, H)
      <4>1. n \in Nat /\ Within(n, G)
        BY <2>2, <3>2, <3>5 DEF Challenges, Limited
      <4>2. H \subseteq G \/ n < AttemptLimit
        BY <3>1, <3>2, GuessesJoin DEF Guessable
      <4> QED BY <3>3, <3>5, <4>1, <4>2, WithinStays
    <3>6. ASSUME i \in DOMAIN challenges, m = n + 1, NEW h \in Handlers, RejectFactor(h),
                 request[h].challenge = i
          PROVE  Within(m, H)
      <4>1. n \in Nat /\ Within(n, G)
        BY <2>2, <3>2, <3>6 DEF Challenges, Limited
      <4>2. h \in G /\ H = G \ {h}
        BY <3>1, <3>2, <3>6
           DEF RejectFactor, Finish, NoRequest, ChallengeGuesses, Guessing, Typed
      <4> QED BY <3>3, <3>6, <4>1, <4>2, WithinStays
    <3> QED BY <3>1, <3>2, <3>4, <3>5, <3>6, ChallengeAttempts
  <2> QED BY <2>3, <2>4 DEF Limited, Within
<1> QED BY <1>1, <1>2, TypedAlways, PTL DEF AccountsSpec

\* AttemptsBounded: whatever requests overlap, no more wrong answers are
\* counted than the limit and one for each other request in flight.
THEOREM WrongAnswersBounded == AccountsSpec => []AttemptsBounded
<1> USE AccountsAssumption
<1>1. Typed /\ Limited => AttemptsBounded
  <2> SUFFICES ASSUME Typed, Limited PROVE AttemptsBounded
    OBVIOUS
  <2>1. /\ \A i \in DOMAIN codes : codes[i] \in Codewords
        /\ \A i \in DOMAIN challenges : challenges[i] \in Challenges
    BY LenProperties, ElementOfSeq DEF Typed, AccountsTypeOK
  <2>2. ASSUME NEW n \in Nat, NEW G \in SUBSET Handlers, Within(n, G)
        PROVE  n <= AttemptLimit + Cardinality(Handlers) - 1
    <3>1. Cardinality(G) \in Nat /\ Cardinality(Handlers) \in Nat
      BY FS_Subset, FS_CardinalityType
    <3> QED BY <2>2, <3>1 DEF Within
  <2>3. \A i : CodeGuesses(i) \in SUBSET Handlers /\ ChallengeGuesses(i) \in SUBSET Handlers
    BY DEF CodeGuesses, ChallengeGuesses
  <2> QED BY <2>1, <2>2, <2>3 DEF Limited, AttemptsBounded, Codewords, Challenges
<1> QED BY <1>1, TypedAlways, LimitedAlways, PTL
=============================================================================
