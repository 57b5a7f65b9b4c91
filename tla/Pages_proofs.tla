---------------------------- MODULE Pages_proofs ----------------------------
(***************************************************************************)
(* Proofs about the pages that customers and employees work with:          *)
(* SignInPage, RequestPages, RequestForm and StaffOnboarding, for any      *)
(* number of customers, requests, drafts and calls in flight.              *)
(***************************************************************************)
EXTENDS SignInPage, RequestPages, RequestForm, StaffOnboarding, Reports,
        FiniteSetTheorems, TLAPS
-----------------------------------------------------------------------------
(* Signing in.                                                             *)

SignInCalls ==
  [op : {"SESSION", "CODE"}, sender : People \cup {None}]
    \cup [op : {"FOUND", "SIGNED_IN"}, user : Users]
    \cup [op : {"login", "register"}, person : People]
    \cup [op : {"LOGOUT", "MAILED"}]
    \cup [op : {"CONFIRM"}, sender : People \cup {None}, kept : Users]
    \cup [op : {"CONFIRMED"}, kept : Users, user : Users]

\* A cookie is of somebody with an account.
HasAccount(p) == p # None => standing[p] # "NONE"

\* What is said of a customer is so.
IsTrue(user) ==
  standing[user.person] # "NONE" /\ (user.verified => standing[user.person] = "ACTIVE")

TrueCall(r) ==
  /\ r.op \in {"SESSION", "CODE", "CONFIRM"} => HasAccount(r.sender)
  /\ r.op \in {"FOUND", "SIGNED_IN", "CONFIRMED"} => IsTrue(r.user)

\* Whatever is shown, or is on its way to be, was true when it was said, and
\* stays so.
AllTrue ==
  /\ SignInPageTypeOK
  /\ request \in [Handlers -> SignInCalls \cup {NoRequest}]
  /\ HasAccount(cookie)
  /\ SignedIn => IsTrue(desk.session)
  /\ \A h \in Handlers : TrueCall(request[h])

LEMMA SignInCallCarries ==
  ASSUME AllTrue, NEW h \in Handlers
  PROVE  /\ request[h].op \in {"SESSION", "CODE", "CONFIRM"} =>
              request[h].sender \in People \cup {None} /\ HasAccount(request[h].sender)
         /\ request[h].op \in {"FOUND", "SIGNED_IN", "CONFIRMED"} =>
              request[h].user \in Users /\ IsTrue(request[h].user)
         /\ request[h].op \in {"login", "register"} => request[h].person \in People
         /\ request[h].op \in {"CONFIRM", "CONFIRMED"} => request[h].kept \in Users
BY DEF AllTrue, TrueCall, SignInCalls, NoRequest

\* Accounts are neither closed nor made unverified here.
StandingGrows ==
  \A p \in People : /\ standing[p] # "NONE" => standing'[p] # "NONE"
                    /\ standing[p] = "ACTIVE" => standing'[p] = "ACTIVE"

LEMMA TruthStays ==
  ASSUME AllTrue, StandingGrows
  PROVE  /\ \A p \in People \cup {None} : HasAccount(p) => HasAccount(p)'
         /\ \A u \in Users : IsTrue(u) => IsTrue(u)'
         /\ \A q \in SignInCalls \cup {NoRequest} : TrueCall(q) => TrueCall(q)'
<1>1. \A p \in People \cup {None} : HasAccount(p) => HasAccount(p)'
  BY DEF HasAccount, StandingGrows
<1>2. \A u \in Users : IsTrue(u) => IsTrue(u)'
  BY DEF IsTrue, StandingGrows, Users
<1>3. ASSUME NEW q \in SignInCalls \cup {NoRequest}, TrueCall(q) PROVE TrueCall(q)'
  <2>1. q.op \in {"SESSION", "CODE", "CONFIRM"} => q.sender \in People \cup {None}
    BY DEF SignInCalls, NoRequest
  <2>2. q.op \in {"FOUND", "SIGNED_IN", "CONFIRMED"} => q.user \in Users
    BY DEF SignInCalls, NoRequest
  <2> QED BY <1>1, <1>2, <1>3, <2>1, <2>2 DEF TrueCall
<1> QED BY <1>1, <1>2, <1>3

\* The calls after a step of one of them.
LEMMA CallsStayTrue ==
  ASSUME AllTrue, StandingGrows, NEW h \in Handlers,
         NEW q \in SignInCalls \cup {NoRequest}, TrueCall(q)',
         request' = [request EXCEPT ![h] = q]
  PROVE  /\ request' \in [Handlers -> SignInCalls \cup {NoRequest}]
         /\ (\A g \in Handlers : TrueCall(request[g]))'
<1>1. request \in [Handlers -> SignInCalls \cup {NoRequest}]
  BY DEF AllTrue
<1>2. ASSUME NEW g \in Handlers PROVE TrueCall(request[g])'
  <2>1. PICK x : x = request'[g] /\ (x = q \/ x = request[g])
    BY <1>1
  <2>2. TrueCall(x)'
    BY <1>1, <2>1, TruthStays DEF AllTrue
  <2> QED BY <2>1, <2>2
<1> QED BY <1>1, <1>2

\* A step that leaves the accounts alone and shows no session anew.
LEMMA SameAccounts ==
  ASSUME AllTrue, UNCHANGED <<standing, mailed, cookie>>,
         desk' \in Desks, desk'.session \in {desk.session, None},
         \/ UNCHANGED request
         \/ \E h \in Handlers : \E q \in SignInCalls \cup {NoRequest} :
              TrueCall(q) /\ request' = [request EXCEPT ![h] = q]
  PROVE  AllTrue'
<1>1. StandingGrows
  BY DEF StandingGrows
<1>2. request' \in [Handlers -> SignInCalls \cup {NoRequest}] /\ (\A g \in Handlers : TrueCall(request[g]))'
  <2>1. CASE UNCHANGED request
    <3>1. ASSUME NEW g \in Handlers PROVE TrueCall(request[g])'
      <4>1. PICK x : x = request[g] /\ TrueCall(x)
        BY DEF AllTrue
      <4>2. TrueCall(x)'
        BY <4>1, <1>1, TruthStays DEF AllTrue
      <4> QED BY <2>1, <4>1, <4>2
    <3> QED BY <2>1, <3>1 DEF AllTrue
  <2>2. ASSUME NEW h \in Handlers, NEW q \in SignInCalls \cup {NoRequest},
               TrueCall(q), request' = [request EXCEPT ![h] = q]
        PROVE  /\ request' \in [Handlers -> SignInCalls \cup {NoRequest}]
               /\ (\A g \in Handlers : TrueCall(request[g]))'
    <3>1. TrueCall(q)'
      BY <1>1, <2>2, TruthStays
    <3> QED BY <1>1, <2>2, <3>1, CallsStayTrue
  <2> QED BY <2>1, <2>2
<1>3. HasAccount(cookie)' /\ (SignedIn => IsTrue(desk.session))'
  BY DEF AllTrue, SignedIn, HasAccount, IsTrue
<1>4. SignInPageTypeOK'
  BY DEF AllTrue, SignInPageTypeOK
<1> QED BY <1>2, <1>3, <1>4 DEF AllTrue

LEMMA AllTrueAlways == SignInPageSpec => []AllTrue
<1>1. SignInPageInit => AllTrue
  <2> SUFFICES ASSUME SignInPageInit PROVE AllTrue
    OBVIOUS
  <2>1. SignInPageTypeOK
    BY DEF SignInPageInit, SignInPageTypeOK, Desks
  <2>2. request \in [Handlers -> {NoRequest}]
    BY DEF SignInPageInit, RequestInit
  <2>3. ~SignedIn /\ HasAccount(cookie)
    BY DEF SignInPageInit, SignedIn, HasAccount
  <2> QED BY <2>1, <2>2, <2>3 DEF AllTrue, TrueCall, NoRequest
<1>2. AllTrue /\ [SignInPageNext]_signInVars => AllTrue'
  <2> SUFFICES ASSUME AllTrue, [SignInPageNext]_signInVars PROVE AllTrue'
    OBVIOUS
  <2>1. desk \in Desks /\ standing \in [People -> Standings]
    BY DEF AllTrue, SignInPageTypeOK
  \* Steps of the customer on the page.
  <2>2. CASE SwitchMode \/ CancelVerification
    <3>1. desk' \in Desks /\ desk'.session = desk.session
      BY <2>1, <2>2 DEF SwitchMode, CancelVerification, Page, Desks
    <3> QED BY <2>2, <3>1, SameAccounts DEF SwitchMode, CancelVerification, Page
  <2>3. ASSUME NEW h \in Handlers,
               OpenSignIn(h) \/ SubmitSignIn(h) \/ Logout(h) \/ AskForCode(h) \/ ConfirmCode(h)
        PROVE  AllTrue'
    <3>1. cookie \in People \cup {None} /\ HasAccount(cookie)
      BY DEF AllTrue, SignInPageTypeOK
    <3>2. SignedIn => desk.session \in Users
      BY <2>1 DEF SignedIn, Desks
    <3>3. PICK q \in SignInCalls : TrueCall(q) /\ request' = [request EXCEPT ![h] = q]
      <4>1. CASE OpenSignIn(h) \/ AskForCode(h) \/ ConfirmCode(h)
        BY <3>1, <3>2, <4>1 DEF OpenSignIn, AskForCode, ConfirmCode, Ask, Begin, SignInCalls, TrueCall
      <4>2. CASE SubmitSignIn(h)
        BY <2>1, <4>2 DEF SubmitSignIn, Ask, Begin, SignInCalls, TrueCall, Desks
      <4>3. CASE Logout(h)
        BY <4>3 DEF Logout, Ask, Begin, SignInCalls, TrueCall
      <4> QED BY <2>3, <4>1, <4>2, <4>3
    <3>4. desk' \in Desks /\ desk'.session = desk.session
      BY <2>1, <2>3 DEF OpenSignIn, SubmitSignIn, Logout, AskForCode, ConfirmCode, Desks
    <3>5. UNCHANGED <<standing, mailed, cookie>>
      BY <2>3 DEF OpenSignIn, SubmitSignIn, Logout, AskForCode, ConfirmCode, Ask
    <3> QED BY <3>3, <3>4, <3>5, SameAccounts
  \* Steps of the server.
  <2>4. ASSUME NEW h \in Handlers, SessionRead(h)
        PROVE  AllTrue'
    <3>1. request[h].sender \in People /\ HasAccount(request[h].sender)
      BY <2>4, SignInCallCarries DEF SessionRead
    <3>2. PICK q : /\ q = [op |-> "FOUND", user |-> UserOf(request[h].sender)]
                   /\ request' = [request EXCEPT ![h] = q]
      BY <2>4 DEF SessionRead, Continue
    <3>3. q \in SignInCalls /\ TrueCall(q)
      BY <2>4, <3>1, <3>2 DEF SessionRead, UserOf, Users, SignInCalls, TrueCall, IsTrue, HasAccount
    <3> QED BY <2>1, <2>4, <3>2, <3>3, SameAccounts DEF SessionRead
  <2>5. ASSUME NEW h \in Handlers, SignInAccepted(h)
        PROVE  AllTrue'
    <3> DEFINE p == request[h].person
    <3>1. p \in People
      BY <2>5, SignInCallCarries DEF SignInAccepted
    <3>2. PICK q, u : /\ u = [person |-> p, verified |-> standing[p] = "ACTIVE"]
                      /\ q = [op |-> "SIGNED_IN", user |-> u]
                      /\ request' = [request EXCEPT ![h] = q]
      BY <2>5 DEF SignInAccepted, Continue
    <3>3. q \in SignInCalls
      BY <3>1, <3>2 DEF SignInCalls, Users
    <3>4. StandingGrows /\ standing' \in [People -> Standings] /\ standing'[p] # "NONE"
          /\ (standing[p] = "ACTIVE" => standing'[p] = "ACTIVE")
      BY <2>1, <2>5, <3>1 DEF SignInAccepted, StandingGrows, Standings
    <3>5. TrueCall(q)'
      <4>1. IsTrue(u)'
        BY <3>1, <3>2, <3>4 DEF IsTrue
      <4> QED BY <3>2, <4>1 DEF TrueCall
    <3>6. UNCHANGED <<mailed, cookie, desk>>
      BY <2>5 DEF SignInAccepted
    <3>7. \A x \in People : standing[x] = "PENDING_VERIFICATION" => standing'[x] = standing[x]
      BY <2>1, <2>5, <3>1 DEF SignInAccepted
    <3>8. SignInPageTypeOK'
      BY <3>4, <3>6, <3>7 DEF AllTrue, SignInPageTypeOK
    <3>9. HasAccount(cookie)'
      BY <3>4, <3>6, TruthStays DEF AllTrue, SignInPageTypeOK, HasAccount
    <3>10. (SignedIn => IsTrue(desk.session))'
      BY <2>1, <3>4, <3>6, TruthStays DEF AllTrue, Desks, SignedIn, IsTrue
    <3> QED BY <3>2, <3>3, <3>4, <3>5, <3>8, <3>9, <3>10, CallsStayTrue DEF AllTrue
  <2>6. ASSUME NEW h \in Handlers, CodeMailed(h)
        PROVE  AllTrue'
    <3> DEFINE p == request[h].sender
    <3>1. p \in People /\ standing[p] = "PENDING_VERIFICATION"
      BY <2>1, <2>6, SignInCallCarries DEF CodeMailed, HasAccount, Standings
    <3>2. PICK q : q = [op |-> "MAILED"] /\ request' = [request EXCEPT ![h] = q]
      BY <2>6 DEF CodeMailed, Continue
    <3>3. q \in SignInCalls /\ TrueCall(q)' /\ StandingGrows
      BY <2>6, <3>2 DEF CodeMailed, SignInCalls, TrueCall, StandingGrows
    <3>4. SignInPageTypeOK'
      BY <2>6, <3>1 DEF CodeMailed, AllTrue, SignInPageTypeOK
    <3>5. HasAccount(cookie)' /\ (SignedIn => IsTrue(desk.session))'
      BY <2>6 DEF CodeMailed, AllTrue, HasAccount, SignedIn, IsTrue
    <3> QED BY <3>2, <3>3, <3>4, <3>5, CallsStayTrue DEF AllTrue
  \* The code is typed here or in another tab.
  <2>7. ASSUME NEW p \in mailed, mailed' = mailed \ {p},
               standing' = [standing EXCEPT ![p] = "ACTIVE"], UNCHANGED <<cookie, desk>>
        PROVE  /\ StandingGrows /\ SignInPageTypeOK' /\ standing'[p] = "ACTIVE"
               /\ HasAccount(cookie)' /\ (SignedIn => IsTrue(desk.session))'
    <3>1. p \in People
      BY DEF AllTrue, SignInPageTypeOK
    <3>2. StandingGrows /\ standing'[p] = "ACTIVE" /\ standing' \in [People -> Standings]
      BY <2>1, <2>7, <3>1 DEF StandingGrows, Standings
    <3>3. mailed' \subseteq {x \in People : standing'[x] = "PENDING_VERIFICATION"}
      BY <2>1, <2>7 DEF AllTrue, SignInPageTypeOK
    <3>4. SignInPageTypeOK'
      BY <2>7, <3>2, <3>3 DEF AllTrue, SignInPageTypeOK
    <3>5. HasAccount(cookie)'
      BY <2>7, <3>2, TruthStays DEF AllTrue, SignInPageTypeOK, HasAccount
    <3>6. (SignedIn => IsTrue(desk.session))'
      BY <2>1, <2>7, <3>2, TruthStays DEF AllTrue, Desks, SignedIn, IsTrue
    <3> QED BY <3>2, <3>4, <3>5, <3>6
  <2>8. ASSUME NEW h \in Handlers, CodeConsumed(h)
        PROVE  AllTrue'
    <3>1. PICK p \in mailed : p = request[h].sender
      BY <2>8 DEF CodeConsumed
    <3>2. PICK q, u : /\ u = [person |-> p, verified |-> TRUE]
                      /\ q = [op |-> "CONFIRMED", kept |-> request[h].kept, user |-> u]
                      /\ request' = [request EXCEPT ![h] = q]
      BY <2>8, <3>1 DEF CodeConsumed, Continue
    <3>3. p \in People /\ request[h].kept \in Users
      BY <2>8, <3>1, SignInCallCarries DEF CodeConsumed, AllTrue, SignInPageTypeOK
    <3>4. q \in SignInCalls
      BY <3>2, <3>3 DEF SignInCalls, Users
    <3>5. /\ StandingGrows /\ SignInPageTypeOK' /\ standing'[p] = "ACTIVE"
          /\ HasAccount(cookie)' /\ (SignedIn => IsTrue(desk.session))'
      BY <2>7, <2>8, <3>1 DEF CodeConsumed
    <3>6. TrueCall(q)'
      <4>1. IsTrue(u)'
        BY <3>2, <3>5 DEF IsTrue
      <4> QED BY <3>2, <4>1 DEF TrueCall
    <3> QED BY <3>2, <3>4, <3>5, <3>6, CallsStayTrue DEF AllTrue
  <2>9. CASE VerifyElsewhere
    <3>1. UNCHANGED request
      BY <2>9 DEF VerifyElsewhere
    <3>2. /\ StandingGrows /\ SignInPageTypeOK'
          /\ HasAccount(cookie)' /\ (SignedIn => IsTrue(desk.session))'
      BY <2>7, <2>9 DEF VerifyElsewhere
    <3>3. ASSUME NEW g \in Handlers PROVE TrueCall(request[g])'
      <4>1. PICK x : x = request[g] /\ TrueCall(x)
        BY DEF AllTrue
      <4>2. TrueCall(x)'
        BY <4>1, <3>2, TruthStays DEF AllTrue
      <4> QED BY <3>1, <4>1, <4>2
    <3> QED BY <3>1, <3>2, <3>3 DEF AllTrue
  <2>10. CASE SignInElsewhere
    <3>1. UNCHANGED <<standing, mailed, desk, request>>
      BY <2>10 DEF SignInElsewhere
    <3>2. cookie' \in People \cup {None} /\ HasAccount(cookie)'
      BY <2>10, <3>1 DEF SignInElsewhere, HasAccount
    <3>3. SignInPageTypeOK' /\ (SignedIn => IsTrue(desk.session))'
      BY <3>1, <3>2 DEF AllTrue, SignInPageTypeOK, SignedIn, IsTrue
    <3>4. (\A g \in Handlers : TrueCall(request[g]))'
      BY <3>1 DEF AllTrue, TrueCall, HasAccount, IsTrue
    <3> QED BY <3>1, <3>2, <3>3, <3>4 DEF AllTrue
  \* Answers.
  <2>11. ASSUME NEW h \in Handlers, NEW u \in Users, IsTrue(u),
                request' = [request EXCEPT ![h] = NoRequest],
                desk' \in Desks, desk'.session = u, cookie' \in {cookie, u.person},
                UNCHANGED <<standing, mailed>>
         PROVE  AllTrue'
    <3>1. StandingGrows /\ TrueCall(NoRequest)'
      BY <2>11 DEF StandingGrows, TrueCall, NoRequest
    <3>2. HasAccount(cookie)' /\ cookie' \in People \cup {None}
      BY <2>11 DEF AllTrue, SignInPageTypeOK, HasAccount, IsTrue, Users
    <3>3. SignInPageTypeOK'
      BY <2>11, <3>2 DEF AllTrue, SignInPageTypeOK
    <3>4. (SignedIn => IsTrue(desk.session))'
      BY <2>11 DEF IsTrue
    <3> QED BY <2>11, <3>1, <3>2, <3>3, <3>4, CallsStayTrue DEF AllTrue
  <2>12. ASSUME NEW h \in Handlers,
                SessionShown(h) \/ SignInAnswered(h) \/ VerificationShown(h)
         PROVE  AllTrue'
    <3>1. PICK u \in Users : u = request[h].user /\ IsTrue(u)
      BY <2>12, SignInCallCarries DEF SessionShown, SignInAnswered, VerificationShown
    <3>2. desk' \in Desks /\ desk'.session = u
      BY <2>1, <2>12, <3>1
      DEF SessionShown, SignInAnswered, VerificationShown, SessionAfter, Page, Desks
    <3>3. /\ request' = [request EXCEPT ![h] = NoRequest] /\ UNCHANGED <<standing, mailed>>
          /\ cookie' \in {cookie, u.person}
      BY <2>12, <3>1 DEF SessionShown, SignInAnswered, VerificationShown, Page, Finish
    <3> QED BY <2>11, <3>1, <3>2, <3>3
  <2>13. ASSUME NEW h \in Handlers, LogoutAnswered(h)
         PROVE  AllTrue'
    <3>1. StandingGrows /\ TrueCall(NoRequest)'
      BY <2>13 DEF LogoutAnswered, StandingGrows, TrueCall, NoRequest
    <3>2. desk' \in Desks /\ desk'.session = None
      BY <2>1, <2>13 DEF LogoutAnswered, Desks
    <3>3. SignInPageTypeOK' /\ HasAccount(cookie)' /\ (SignedIn => IsTrue(desk.session))'
      BY <2>13, <3>2 DEF LogoutAnswered, AllTrue, SignInPageTypeOK, HasAccount, SignedIn
    <3>4. request' = [request EXCEPT ![h] = NoRequest]
      BY <2>13 DEF LogoutAnswered, Finish
    <3> QED BY <3>1, <3>3, <3>4, CallsStayTrue DEF AllTrue
  <2>14. ASSUME NEW h \in Handlers, FieldShown(h) \/ SignInCallFails(h)
         PROVE  AllTrue'
    <3>1. desk' \in Desks /\ desk'.session = desk.session
      BY <2>1, <2>14 DEF FieldShown, SignInCallFails, Page, Desks
    <3>2. TrueCall(NoRequest)
      BY DEF TrueCall, NoRequest
    <3>3. /\ request' = [request EXCEPT ![h] = NoRequest]
          /\ UNCHANGED <<standing, mailed, cookie>>
      BY <2>14 DEF FieldShown, SignInCallFails, Page, Finish
    <3> QED BY <3>1, <3>2, <3>3, SameAccounts
  <2>15. CASE UNCHANGED signInVars
    BY <2>1, <2>15, SameAccounts DEF signInVars
  <2> QED
    BY <2>2, <2>3, <2>4, <2>5, <2>6, <2>8, <2>9, <2>10, <2>12, <2>13, <2>14, <2>15
    DEF SignInPageNext
<1> QED BY <1>1, <1>2, PTL DEF SignInPageSpec

(***************************************************************************)
(* What the page keeps has its form, and codes are mailed only to          *)
(* customers whose address is not verified yet (sendVerification).         *)
(***************************************************************************)
THEOREM SignInPageTypeCorrect == SignInPageSpec => []SignInPageTypeOK
BY AllTrueAlways, PTL DEF AllTrue

(***************************************************************************)
(* Whom the page calls verified is, whatever answers it takes late and     *)
(* whoever signs in, or verifies, in another tab: every user it is told of *)
(* is of the cookie the call was sent with.                                *)
(***************************************************************************)
THEOREM VerifiedAreVerified == SignInPageSpec => []VerifiedIsTrue
<1>1. AllTrue => VerifiedIsTrue
  BY DEF AllTrue, IsTrue, VerifiedIsTrue
<1> QED BY <1>1, AllTrueAlways, PTL
-----------------------------------------------------------------------------
(* The pages that show requests.                                           *)

RequestCalls ==
  [op : {"OPEN"} \cup DOMAIN Moves, id : Shown]
    \cup [op : {"SHOW"}, id : Shown, status : PageStatuses]
    \cup [op : {"DONE"}, command : DOMAIN Moves, id : Shown, status : PageStatuses]

RequestPagesTyped ==
  /\ RequestPagesTypeOK
  /\ request \in [Handlers -> RequestCalls \cup {NoRequest}]

LEMMA CommandNames ==
  /\ DOMAIN Moves = {"CLAIM", "DECIDE", "OFFER", "CONFIRM", "OPERATE", "REPLY", "ANSWER"}
  /\ {"PENDING_REVIEW", "MORE_INFORMATION_REQUIRED", "PRE_APPROVED"} \subseteq PageStatuses
<1>1. DOMAIN Moves = {"CLAIM", "DECIDE", "OFFER", "CONFIRM", "OPERATE", "REPLY", "ANSWER"}
  BY DEF Moves
<1>2. /\ <<"PENDING_REVIEW", "UNDER_REVIEW">> \in Moves["CLAIM"]
      /\ <<"MORE_INFORMATION_REQUIRED", "UNDER_REVIEW">> \in Moves["REPLY"]
      /\ <<"PRE_APPROVED", "CONFIRMED">> \in Moves["CONFIRM"]
  BY DEF Moves
<1> QED BY <1>1, <1>2 DEF PageStatuses

\* A command leads from a status of the page to another.
LEMMA MovesAreStatuses ==
  ASSUME NEW op \in DOMAIN Moves, NEW m \in Moves[op]
  PROVE  m[1] \in PageStatuses /\ m[2] \in PageStatuses
BY DEF PageStatuses

LEMMA RequestCallCarries ==
  ASSUME RequestPagesTyped, NEW h \in Handlers
  PROVE  /\ request[h].op \in {"OPEN", "SHOW", "DONE"} \cup DOMAIN Moves => request[h].id \in Shown
         /\ request[h].op \in {"SHOW", "DONE"} => request[h].status \in PageStatuses
BY CommandNames DEF RequestPagesTyped, RequestCalls, NoRequest

\* Every command is sent for the request in the panel.
Sends(h) ==
  \/ ClaimReview(h) \/ SubmitDecision(h) \/ SubmitAlternativeOffer(h) \/ ConfirmFinalBooking(h)
  \/ SubmitBookingOperation(h) \/ SendReply(h) \/ RespondToAlternative(h)

LEMMA SendsCommand ==
  ASSUME NEW h \in Handlers, Sends(h)
  PROVE  \E op \in DOMAIN Moves : Send(h, op)
BY CommandNames
DEF Sends, ClaimReview, SubmitDecision, SubmitAlternativeOffer, ConfirmFinalBooking,
    SubmitBookingOperation, SendReply, RespondToAlternative

LEMMA RequestPagesTypedAlways == RequestPagesSpec => []RequestPagesTyped
<1> USE RequestPagesAssumption
<1>1. RequestPagesInit => RequestPagesTyped
  <2> SUFFICES ASSUME RequestPagesInit PROVE RequestPagesTyped
    OBVIOUS
  <2>1. actual \in [Shown -> PageStatuses]
    BY CommandNames DEF RequestPagesInit
  <2>2. past \in [Shown -> SUBSET PageStatuses]
    BY <2>1 DEF RequestPagesInit
  <2>3. request \in [Handlers -> RequestCalls \cup {NoRequest}]
    BY DEF RequestPagesInit, RequestInit
  <2>4. moves \in 0..MaxMoves /\ panel \in Panels
    BY DEF RequestPagesInit, Nothing, Panels
  <2> QED
    BY <2>1, <2>2, <2>3, <2>4 DEF RequestPagesInit, RequestPagesTyped, RequestPagesTypeOK
<1>2. RequestPagesTyped /\ [RequestPagesNext]_requestPageVars => RequestPagesTyped'
  <2> SUFFICES ASSUME RequestPagesTyped, [RequestPagesNext]_requestPageVars
               PROVE  RequestPagesTyped'
    OBVIOUS
  <2> USE DEF RequestPagesTyped, RequestPagesTypeOK, serverVars, pageVars
  <2>1. ASSUME NEW r \in Shown, NEW s \in PageStatuses, MoveTo(r, s)
        PROVE  /\ actual' \in [Shown -> PageStatuses] /\ past' \in [Shown -> SUBSET PageStatuses]
               /\ moves' \in 0..MaxMoves
    BY <2>1 DEF MoveTo
  <2>2. ASSUME NEW r \in Shown, MovesElsewhere(r)
        PROVE  RequestPagesTyped'
    <3>1. PICK op \in DOMAIN Moves : \E m \in Moves[op] : MoveTo(r, m[2])
      BY <2>2 DEF MovesElsewhere
    <3>0. PICK m \in Moves[op] : MoveTo(r, m[2])
      BY <3>1
    <3>2. m[2] \in PageStatuses
      BY MovesAreStatuses
    <3> QED BY <2>1, <2>2, <3>0, <3>2 DEF MovesElsewhere
  <2>3. CASE ListArrives
    BY <2>3 DEF ListArrives
  <2>4. ASSUME NEW h \in Handlers, NEW r \in Shown, OpenRequest(h, r)
        PROVE  RequestPagesTyped'
    <3>1. [op |-> "OPEN", id |-> r] \in RequestCalls /\ Nothing \in Panels
      BY DEF RequestCalls, Nothing, Panels
    <3> QED BY <2>4, <3>1 DEF OpenRequest, Begin
  <2>5. ASSUME NEW h \in Handlers, RequestRead(h)
        PROVE  RequestPagesTyped'
    <3>1. PICK q \in RequestCalls : request' = [request EXCEPT ![h] = q]
      BY <2>5, RequestCallCarries DEF RequestRead, Continue, RequestCalls
    <3> QED BY <2>5, <3>1 DEF RequestRead
  <2>6. ASSUME NEW h \in Handlers, RequestArrives(h)
        PROVE  RequestPagesTyped'
    <3>1. panel' \in Panels
      BY <2>6, RequestCallCarries DEF RequestArrives, Panels
    <3> QED BY <2>6, <3>1 DEF RequestArrives, Finish
  <2>7. ASSUME NEW h \in Handlers, Sends(h)
        PROVE  RequestPagesTyped'
    <3>1. PICK op \in DOMAIN Moves : Send(h, op)
      BY <2>7, SendsCommand
    <3>2. [op |-> op, id |-> panel.id] \in RequestCalls
      BY <3>1 DEF Send, Offered, RequestCalls, Panels
    <3> QED BY <3>1, <3>2 DEF Send, Begin
  <2>8. ASSUME NEW h \in Handlers, CarryOut(h)
        PROVE  RequestPagesTyped'
    <3> DEFINE r == request[h].id
               op == request[h].op
    <3>1. r \in Shown /\ op \in DOMAIN Moves
      BY <2>8, RequestCallCarries DEF CarryOut
    <3>2. PICK m \in Moves[op] :
            MoveTo(r, m[2]) /\ Continue(h, [op |-> "DONE", command |-> op, id |-> r, status |-> m[2]])
      BY <2>8 DEF CarryOut
    <3>3. m[2] \in PageStatuses
      BY <3>1, MovesAreStatuses
    <3>4. [op |-> "DONE", command |-> op, id |-> r, status |-> m[2]] \in RequestCalls
      BY <3>1, <3>3 DEF RequestCalls
    <3>5. request' \in [Handlers -> RequestCalls \cup {NoRequest}]
      BY <3>2, <3>4 DEF Continue
    <3> QED BY <2>1, <2>8, <3>1, <3>2, <3>3, <3>5 DEF CarryOut
  <2>9. ASSUME NEW h \in Handlers, CallFails(h)
        PROVE  RequestPagesTyped'
    <3>1. Nothing \in Panels
      BY DEF Nothing, Panels
    <3> QED BY <2>9, <3>1 DEF CallFails, Finish
  <2>10. ASSUME NEW h \in Handlers, CommandAnswered(h)
         PROVE  RequestPagesTyped'
    <3>1. request[h].id \in Shown /\ request[h].status \in PageStatuses
      BY <2>10, RequestCallCarries DEF CommandAnswered
    <3>2. list' \in [Shown -> PageStatuses \cup {None}]
      BY <2>10, <3>1 DEF CommandAnswered
    <3>3. panel' \in Panels
      <4>1. CASE request[h].command = "CLAIM"
        BY <2>10, <3>1, <4>1 DEF CommandAnswered, Panels
      <4>2. CASE request[h].command # "CLAIM"
        BY <2>10, <3>1, <4>2 DEF CommandAnswered, Panels
      <4> QED BY <4>1, <4>2
    <3> QED BY <2>10, <3>2, <3>3 DEF CommandAnswered, Finish
  <2>11. CASE UNCHANGED requestPageVars
    BY <2>11 DEF requestPageVars
  <2> QED
    BY <2>2, <2>3, <2>4, <2>5, <2>6, <2>7, <2>8, <2>9, <2>10, <2>11
    DEF RequestPagesNext, Sends
<1> QED BY <1>1, <1>2, PTL DEF RequestPagesSpec

(***************************************************************************)
(* List and panel hold statuses of requests the page may list.             *)
(***************************************************************************)
THEOREM RequestPagesTypeCorrect == RequestPagesSpec => []RequestPagesTypeOK
BY RequestPagesTypedAlways, PTL DEF RequestPagesTyped
-----------------------------------------------------------------------------
\* The statuses a request has, and those an answer and the list have of it, are
\* among those it had.
HadBefore ==
  /\ \A r \in Shown : actual[r] \in past[r]
  /\ \A h \in Handlers : request[h].op = "DONE" => request[h].status \in past[request[h].id]
  /\ ListWasTrue

LEMMA HadBeforeAlways == RequestPagesSpec => []HadBefore
<1>1. RequestPagesInit => HadBefore
  BY DEF RequestPagesInit, RequestInit, NoRequest, HadBefore, ListWasTrue
<1>2. RequestPagesTyped /\ HadBefore /\ [RequestPagesNext]_requestPageVars => HadBefore'
  <2> SUFFICES ASSUME RequestPagesTyped, HadBefore, [RequestPagesNext]_requestPageVars
               PROVE  HadBefore'
    OBVIOUS
  <2>1. /\ actual \in [Shown -> PageStatuses] /\ past \in [Shown -> SUBSET PageStatuses]
        /\ list \in [Shown -> PageStatuses \cup {None}] /\ DOMAIN request = Handlers
    BY DEF RequestPagesTyped, RequestPagesTypeOK
  <2> USE DEF serverVars, pageVars
  \* A status is added when it is taken on, and none is forgotten.
  <2>2. ASSUME NEW r \in Shown, NEW s \in PageStatuses, MoveTo(r, s)
        PROVE  /\ \A x \in Shown : actual'[x] \in past'[x] /\ past[x] \subseteq past'[x]
               /\ s \in past'[r]
    BY <2>1, <2>2 DEF MoveTo, HadBefore
  <2>3. ASSUME NEW r \in Shown, MovesElsewhere(r)
        PROVE  HadBefore'
    <3>1. PICK op \in DOMAIN Moves : \E m \in Moves[op] : MoveTo(r, m[2])
      BY <2>3 DEF MovesElsewhere
    <3>2. \A x \in Shown : actual'[x] \in past'[x] /\ past[x] \subseteq past'[x]
      BY <2>2, <3>1, MovesAreStatuses
    <3>3. UNCHANGED <<list, request>>
      BY <2>3 DEF MovesElsewhere
    <3> QED
      BY <3>2, <3>3, RequestCallCarries DEF HadBefore, ListWasTrue
  <2>4. ASSUME NEW h \in Handlers, CarryOut(h)
        PROVE  HadBefore'
    <3> DEFINE r == request[h].id
               op == request[h].op
    <3>1. r \in Shown /\ op \in DOMAIN Moves
      BY <2>4, RequestCallCarries DEF CarryOut
    <3>2. PICK m \in Moves[op] :
            /\ MoveTo(r, m[2])
            /\ request' = [request EXCEPT ![h] =
                             [op |-> "DONE", command |-> op, id |-> r, status |-> m[2]]]
      BY <2>4 DEF CarryOut, Continue
    <3>3. /\ \A x \in Shown : actual'[x] \in past'[x] /\ past[x] \subseteq past'[x]
          /\ m[2] \in past'[r]
      BY <2>2, <3>1, <3>2, MovesAreStatuses
    <3>4. list' = list
      BY <2>4 DEF CarryOut
    <3>5. ASSUME NEW g \in Handlers, request'[g].op = "DONE"
          PROVE  request'[g].status \in past'[request'[g].id]
      BY <2>1, <3>2, <3>3, <3>5, RequestCallCarries DEF HadBefore
    <3> QED BY <3>3, <3>4, <3>5 DEF HadBefore, ListWasTrue
  <2>5. CASE ListArrives
    BY <2>5 DEF ListArrives, HadBefore, ListWasTrue
  <2>6. ASSUME NEW h \in Handlers, CommandAnswered(h)
        PROVE  HadBefore'
    <3>1. \A r \in Shown : list'[r] # None =>
             list'[r] = list[r] \/ (r = request[h].id /\ list'[r] = request[h].status)
      BY <2>1, <2>6 DEF CommandAnswered, EntryOf
    <3>2. request[h].status \in past[request[h].id] /\ past' = past /\ actual' = actual
      BY <2>6 DEF CommandAnswered, HadBefore
    <3>3. request' = [request EXCEPT ![h] = NoRequest]
      BY <2>6 DEF CommandAnswered, Finish
    <3> QED BY <2>1, <3>1, <3>2, <3>3 DEF HadBefore, ListWasTrue, NoRequest
  <2>7. ASSUME UNCHANGED <<actual, past, list>>,
               \/ UNCHANGED request
               \/ \E h \in Handlers : \E q : request' = [request EXCEPT ![h] = q] /\ q.op # "DONE"
        PROVE  HadBefore'
    BY <2>1, <2>7 DEF HadBefore, ListWasTrue
  <2>8. ASSUME NEW h \in Handlers,
               \/ RequestRead(h) \/ RequestArrives(h) \/ CallFails(h) \/ Sends(h)
               \/ \E r \in Shown : OpenRequest(h, r)
        PROVE  /\ UNCHANGED <<actual, past, list>>
               /\ \E q : request' = [request EXCEPT ![h] = q] /\ q.op # "DONE"
    <3>1. CASE Sends(h)
      <4>1. PICK op \in DOMAIN Moves : Send(h, op)
        BY <3>1, SendsCommand
      <4>2. PICK q : q = [op |-> op, id |-> panel.id]
        OBVIOUS
      <4>3. q.op # "DONE"
        BY <4>2, CommandNames
      <4> QED BY <4>1, <4>2, <4>3 DEF Send, Begin
    <3>2. ASSUME NEW r \in Shown, OpenRequest(h, r)
          PROVE  /\ UNCHANGED <<actual, past, list>>
                 /\ \E q : request' = [request EXCEPT ![h] = q] /\ q.op # "DONE"
      <4>1. PICK q : q = [op |-> "OPEN", id |-> r]
        OBVIOUS
      <4>2. request' = [request EXCEPT ![h] = q] /\ q.op # "DONE"
        BY <3>2, <4>1 DEF OpenRequest, Begin
      <4>3. UNCHANGED <<actual, past, list>>
        BY <3>2 DEF OpenRequest
      <4> QED BY <4>2, <4>3
    <3>3. CASE RequestRead(h) \/ RequestArrives(h) \/ CallFails(h)
      BY <3>3 DEF RequestRead, RequestArrives, CallFails, Continue, Finish, NoRequest
    <3> QED BY <2>8, <3>1, <3>2, <3>3
  <2> QED
    BY <2>3, <2>4, <2>5, <2>6, <2>7, <2>8 DEF RequestPagesNext, Sends, requestPageVars
<1> QED BY <1>1, <1>2, RequestPagesTypedAlways, PTL DEF RequestPagesSpec

(***************************************************************************)
(* However many answers come after the panel has moved on, what the list   *)
(* says of a request the server has said of it: every answer goes to the   *)
(* entry it was asked for.                                                 *)
(***************************************************************************)
THEOREM ListWasAlwaysTrue == RequestPagesSpec => []ListWasTrue
BY HadBeforeAlways, PTL DEF HadBefore
-----------------------------------------------------------------------------
(* The form of a request.                                                  *)

FormCalls ==
  [op : {"SAVE", "DETAILS", "CONSENTS", "UPLOAD", "REMOVE", "SUBMIT"}, draft : Saveable]

FormTyped ==
  /\ RequestFormTypeOK
  /\ request \in [Handlers -> FormCalls \cup {NoRequest}]
  /\ \A a \in awaited : a.what = "RESUME" => a.draft \in Saveable

\* The reads that are started when "set" is set.
Started(f, set) ==
  {[what |-> w, draft |-> f.draft] : w \in {v \in Wanted(f) : DependsOn[v] \cap set # {}}}

LEMMA ReadKinds ==
  /\ DOMAIN DependsOn = {"RESUME", "POLICIES", "CHECKLIST", "REVIEW"}
  /\ "draft" \in DependsOn["REVIEW"]
BY DEF DependsOn

LEMMA StartedReads ==
  ASSUME NEW f \in Forms, NEW set
  PROVE  /\ Started(f, set) \subseteq [what : DOMAIN DependsOn, draft : Drafts]
         /\ \A a \in Started(f, set) : a.what # "RESUME" /\ a.draft = f.draft
<1>1. Wanted(f) \subseteq {"POLICIES", "CHECKLIST", "REVIEW"}
  BY DEF Wanted
<1>2. f.draft \in Drafts
  BY DEF Forms
<1> QED BY <1>1, <1>2, ReadKinds DEF Started

\* What a step shows, and which reads go on beside those it starts.
Shows(f, set) ==
  form' = f /\ \A a \in awaited' : a \in Kept(set) \/ a \in Started(f, set)

LEMMA ShowShows == ASSUME NEW f, NEW set, Show(f, set) PROVE Shows(f, set)
BY DEF Show, Shows, Started

LEMMA ShowTyped ==
  ASSUME FormTyped, NEW f \in Forms, NEW set, Shows(f, set)
  PROVE  /\ form' \in Forms /\ awaited' \subseteq [what : DOMAIN DependsOn, draft : Drafts]
         /\ \A a \in awaited' : a.what = "RESUME" => a.draft \in Saveable
<1>1. Kept(set) \subseteq [what : DOMAIN DependsOn, draft : Drafts]
  BY DEF FormTyped, RequestFormTypeOK, Kept
<1>2. \A a \in Kept(set) : a.what = "RESUME" => a.draft \in Saveable
  BY DEF FormTyped, Kept
<1> QED BY <1>1, <1>2, StartedReads DEF Shows

\* The steps of the form: a call is sent, or fails; an answer is taken; the page
\* changes what it shows; a read fails.
Posts ==
  \E h \in Handlers, q \in FormCalls :
    /\ request[h] = NoRequest /\ request' = [request EXCEPT ![h] = q]
    /\ q.op = "SAVE" => form.draft = None /\ \A g \in Handlers : request[g].op # "SAVE"
    /\ UNCHANGED <<chosen, form, awaited>>

Fails ==
  /\ UNCHANGED <<chosen, form>>
  /\ \/ \E h \in Handlers : request' = [request EXCEPT ![h] = NoRequest] /\ UNCHANGED awaited
     \/ UNCHANGED request /\ awaited' \subseteq awaited

\* Only the answer to a save brings another draft, and then the reads of the
\* draft before are cancelled.
Answers ==
  \E h \in Handlers, f \in Forms : \E set :
    /\ request' = [request EXCEPT ![h] = NoRequest]
    /\ Shows(f, set) /\ f.review = form.review
    /\ \/ f.draft = form.draft
       \/ request[h].op = "SAVE" /\ "draft" \in set
    /\ chosen' = chosen

Edits ==
  \E f \in Forms : \E set :
    /\ UNCHANGED request
    /\ Shows(f, set) /\ chosen' \in Choices
    /\ \/ f.draft = form.draft /\ f.review \in {form.review, None}
       \/ f.draft = form.draft /\ \E a \in awaited : a.what = "REVIEW" /\ f.review = a.draft
       \/ f.draft = None /\ f.review = None /\ "draft" \in set
       \/ \E a \in awaited : a.what = "RESUME"

LEMMA FormPosts ==
  ASSUME FormTyped, NEW h \in Handlers,
         \/ SaveSelections(h) \/ SaveDetails(h) \/ SavePolicyConsents(h) \/ SubmitRequest(h)
         \/ \E op \in {"UPLOAD", "REMOVE"} : ChangeDocument(h, op)
  PROVE  Posts
<1>1. form \in Forms /\ chosen \in Choices
  BY DEF FormTyped, RequestFormTypeOK
<1>2. ASSUME NEW op \in {"DETAILS", "CONSENTS", "UPLOAD", "REMOVE", "SUBMIT"},
             form.draft # None, Post(h, op, form.draft)
      PROVE  Posts
  <2>1. PICK q : q = [op |-> op, draft |-> form.draft]
    OBVIOUS
  <2>2. q \in FormCalls /\ q.op # "SAVE"
    BY <1>1, <1>2, <2>1 DEF FormCalls, Forms, Drafts
  <2>3. request[h] = NoRequest /\ request' = [request EXCEPT ![h] = q]
    BY <1>2, <2>1 DEF Post, Begin
  <2> QED BY <1>2, <2>2, <2>3 DEF Posts, Post
<1>3. CASE SaveSelections(h)
  <2>1. PICK q : q = [op |-> "SAVE", draft |-> chosen]
    OBVIOUS
  <2>2. q \in FormCalls
    BY <1>1, <1>3, <2>1 DEF SaveSelections, FormCalls, Saveable
  <2>3. request[h] = NoRequest /\ request' = [request EXCEPT ![h] = q]
    BY <1>3, <2>1 DEF SaveSelections, Post, Begin
  <2> QED BY <1>3, <2>2, <2>3 DEF Posts, SaveSelections, OneAtATime, Post
<1> QED
  BY <1>2, <1>3 DEF SaveDetails, SavePolicyConsents, SubmitRequest, ChangeDocument

LEMMA FormAnswers ==
  ASSUME FormTyped, NEW h \in Handlers, PostAnswered(h)
  PROVE  Answers
<1> DEFINE r == request[h]
<1>1. form \in Forms /\ r \in FormCalls
  BY DEF FormTyped, RequestFormTypeOK, PostAnswered
<1>2. r.draft \in Drafts
  BY <1>1 DEF FormCalls, Drafts
<1>3. request' = [request EXCEPT ![h] = NoRequest] /\ chosen' = chosen
  BY DEF PostAnswered, Finish
<1>4. ASSUME NEW f \in Forms, NEW set, Show(f, set), f.review = form.review, f.draft = form.draft
      PROVE  Answers
  BY <1>3, <1>4, ShowShows DEF Answers
<1>5. CASE r.op = "SAVE"
  <2>1. PICK f : f = [form EXCEPT !.draft = r.draft]
    OBVIOUS
  <2>2. Show(f, {"draft"})
    BY <1>5, <2>1 DEF PostAnswered
  <2>3. f \in Forms /\ f.review = form.review
    BY <1>1, <1>2, <2>1 DEF Forms
  <2> QED BY <1>3, <1>5, <2>2, <2>3, ShowShows DEF Answers
<1>6. CASE r.op = "DETAILS"
  <2>1. PICK f : f = [form EXCEPT !.details = TRUE]
    OBVIOUS
  <2> QED BY <1>1, <1>4, <1>6, <2>1 DEF PostAnswered, Forms
<1>7. CASE r.op = "CONSENTS"
  <2>1. PICK f : f = [form EXCEPT !.consents = TRUE]
    OBVIOUS
  <2> QED BY <1>1, <1>4, <1>7, <2>1 DEF PostAnswered, Forms
<1>8. CASE r.op \in {"UPLOAD", "REMOVE"}
  <2>1. PICK f : f = [form EXCEPT !.checklist = r.draft]
    OBVIOUS
  <2> QED BY <1>1, <1>2, <1>4, <1>8, <2>1 DEF PostAnswered, Forms
<1>9. CASE r.op = "SUBMIT"
  <2>1. PICK f : f = [form EXCEPT !.submitted = r.draft]
    OBVIOUS
  <2> QED BY <1>1, <1>2, <1>4, <1>9, <2>1 DEF PostAnswered, Forms
<1> QED BY <1>1, <1>5, <1>6, <1>7, <1>8, <1>9 DEF FormCalls

LEMMA FormEdits ==
  ASSUME FormTyped,
         ReviewSelections \/ EditDetails \/ ChangeConsents \/ \E c \in Choices : ChooseAnother(c)
  PROVE  Edits
<1>1. form \in Forms /\ chosen \in Choices
  BY DEF FormTyped, RequestFormTypeOK
<1>2. ASSUME NEW f \in Forms, NEW set, Show(f, set), UNCHANGED request, chosen' \in Choices,
             \/ f.draft = form.draft /\ f.review \in {form.review, None}
             \/ f.draft = None /\ f.review = None /\ "draft" \in set
      PROVE  Edits
  BY <1>2, ShowShows DEF Edits
<1>3. CASE ReviewSelections
  <2>1. PICK f : f = [form EXCEPT !.summary = TRUE]
    OBVIOUS
  <2> QED BY <1>1, <1>2, <1>3, <2>1 DEF ReviewSelections, Forms
<1>4. CASE EditDetails
  <2>1. PICK f : f = [Blank EXCEPT !.summary = TRUE, !.draft = form.draft]
    OBVIOUS
  <2> QED BY <1>1, <1>2, <1>4, <2>1 DEF EditDetails, Forms, Blank, Drafts
<1>5. CASE ChangeConsents
  <2>1. PICK f : f = [form EXCEPT !.consents = FALSE, !.checklist = None, !.review = None,
                                  !.submitted = None]
    OBVIOUS
  <2> QED BY <1>1, <1>2, <1>5, <2>1 DEF ChangeConsents, Forms, Drafts
<1>6. ASSUME NEW c \in Choices, ChooseAnother(c) PROVE Edits
  <2>1. Blank \in Forms /\ Blank.draft = None /\ Blank.review = None /\ "draft" \in EverySet
    BY DEF Blank, Forms, Drafts, EverySet
  <2> QED BY <1>2, <1>6, <2>1 DEF ChooseAnother
<1> QED BY <1>3, <1>4, <1>5, <1>6

LEMMA FormReads ==
  ASSUME FormTyped, NEW a \in awaited, ReadArrives(a)
  PROVE  Edits
<1>1. form \in Forms /\ chosen \in Choices /\ a.draft \in Drafts
  BY DEF FormTyped, RequestFormTypeOK
<1>2. UNCHANGED request
  BY DEF ReadArrives
\* The reads beside "a" are kept or started as by Show.
<1>3. ASSUME NEW f \in Forms, NEW set, form' = f,
             awaited' = (Kept(set) \ {a}) \cup Started(f, set)
      PROVE  Shows(f, set)
  BY <1>3 DEF Shows
<1>4. CASE a.what = "RESUME"
  <2>1. PICK d, c \in BOOLEAN :
          LET f == [form EXCEPT !.summary = TRUE, !.draft = a.draft,
                                !.details = @ \/ d, !.consents = @ \/ c]
              set == {"draft", "details", "consents"}
          IN  form' = f /\ awaited' = (Kept(set) \ {a}) \cup Started(f, set)
    BY <1>4 DEF ReadArrives, Started
  <2>2. PICK f : f = [form EXCEPT !.summary = TRUE, !.draft = a.draft,
                                  !.details = @ \/ d, !.consents = @ \/ c]
    OBVIOUS
  <2>3. f \in Forms
    BY <1>1, <2>2 DEF Forms
  <2>4. Shows(f, {"draft", "details", "consents"})
    BY <1>3, <2>1, <2>2, <2>3
  <2>5. chosen' \in Choices
    BY <1>4 DEF ReadArrives, FormTyped, Saveable
  <2> QED BY <1>2, <1>4, <2>3, <2>4, <2>5 DEF Edits
<1>5. CASE a.what = "POLICIES"
  <2>1. PICK f, set :
          /\ form' = f /\ awaited' = (Kept(set) \ {a}) \cup Started(f, set)
          /\ \/ f = [form EXCEPT !.bundle = TRUE]
             \/ f = [form EXCEPT !.bundle = TRUE, !.consents = FALSE, !.checklist = None]
    BY <1>5 DEF ReadArrives, Started
  <2>2. f \in Forms /\ f.draft = form.draft /\ f.review = form.review
    BY <1>1, <2>1 DEF Forms, Drafts
  <2>3. Shows(f, set) /\ chosen' \in Choices
    BY <1>1, <1>3, <1>5, <2>1, <2>2 DEF ReadArrives
  <2> QED BY <1>2, <2>2, <2>3 DEF Edits
<1>6. CASE a.what = "CHECKLIST"
  <2>1. PICK f : f = [form EXCEPT !.checklist = a.draft]
    OBVIOUS
  <2>2. form' = f /\ awaited' = (Kept({"checklist"}) \ {a}) \cup Started(f, {"checklist"})
    BY <1>6, <2>1 DEF ReadArrives, Started
  <2>3. f \in Forms /\ f.draft = form.draft /\ f.review = form.review
    BY <1>1, <2>1 DEF Forms
  <2>4. Shows(f, {"checklist"}) /\ chosen' \in Choices
    BY <1>1, <1>3, <1>6, <2>2, <2>3 DEF ReadArrives
  <2> QED BY <1>2, <2>3, <2>4 DEF Edits
<1>7. CASE a.what = "REVIEW"
  <2>1. PICK f : f = [form EXCEPT !.review = a.draft]
    OBVIOUS
  <2>2. form' = f /\ awaited' = (Kept({}) \ {a}) \cup Started(f, {})
    BY <1>7, <2>1 DEF ReadArrives, Started
  <2>3. f \in Forms /\ f.draft = form.draft /\ f.review = a.draft
    BY <1>1, <2>1 DEF Forms
  <2>4. Shows(f, {}) /\ chosen' \in Choices
    BY <1>1, <1>3, <1>7, <2>2, <2>3 DEF ReadArrives
  <2> QED BY <1>2, <1>7, <2>3, <2>4 DEF Edits
<1> QED BY <1>4, <1>5, <1>6, <1>7 DEF ReadArrives

LEMMA FormSteps ==
  ASSUME FormTyped, RequestFormNext
  PROVE  requested' = requested /\ (Posts \/ Fails \/ Answers \/ Edits)
<1>1. requested' = requested
  BY DEF RequestFormNext, ChooseAnother, ReviewSelections, EditDetails, ChangeConsents,
         SaveSelections, SaveDetails, SavePolicyConsents, SubmitRequest, ChangeDocument, Post,
         PostAnswered, PostRefused, ReadArrives, ReadFails
<1>2. ASSUME NEW h \in Handlers, PostRefused(h) PROVE Fails
  BY <1>2 DEF PostRefused, Finish, Fails
<1>3. ASSUME NEW a \in awaited, ReadFails(a) PROVE Fails
  BY <1>3 DEF ReadFails, Fails
<1> QED
  BY <1>1, <1>2, <1>3, FormPosts, FormAnswers, FormEdits, FormReads DEF RequestFormNext

LEMMA FormTypedAlways == RequestFormSpec => []FormTyped
<1> USE RequestFormAssumption
<1>1. RequestFormInit => FormTyped
  <2> SUFFICES ASSUME RequestFormInit PROVE FormTyped
    OBVIOUS
  <2>1. form \in Forms
    BY DEF RequestFormInit, Blank, Forms, Drafts
  <2>2. /\ awaited \subseteq [what : DOMAIN DependsOn, draft : Drafts]
        /\ \A a \in awaited : a.what = "RESUME" => a.draft \in Saveable
    BY ReadKinds DEF RequestFormInit, Drafts
  <2> QED
    BY <2>1, <2>2 DEF RequestFormInit, RequestInit, FormTyped, RequestFormTypeOK, Drafts
<1>2. FormTyped /\ [RequestFormNext]_requestFormVars => FormTyped'
  <2> SUFFICES ASSUME FormTyped, [RequestFormNext]_requestFormVars PROVE FormTyped'
    OBVIOUS
  <2> USE DEF FormTyped, RequestFormTypeOK
  <2>1. ASSUME RequestFormNext PROVE requested' = requested
    BY <2>1, FormSteps
  <2>2. ASSUME RequestFormNext, Posts PROVE FormTyped'
    BY <2>1, <2>2 DEF Posts
  <2>3. ASSUME RequestFormNext, Fails PROVE FormTyped'
    BY <2>1, <2>3 DEF Fails
  <2>4. ASSUME RequestFormNext, Answers PROVE FormTyped'
    BY <2>1, <2>4, ShowTyped DEF Answers
  <2>5. ASSUME RequestFormNext, Edits PROVE FormTyped'
    BY <2>1, <2>5, ShowTyped DEF Edits
  <2>6. CASE UNCHANGED requestFormVars
    BY <2>6 DEF requestFormVars
  <2> QED BY <2>2, <2>3, <2>4, <2>5, <2>6, FormSteps
<1> QED BY <1>1, <1>2, PTL DEF RequestFormSpec

(***************************************************************************)
(* The form and the reads under way are of drafts that may be saved.       *)
(***************************************************************************)
THEOREM RequestFormTypeCorrect == RequestFormSpec => []RequestFormTypeOK
BY FormTypedAlways, PTL DEF FormTyped
-----------------------------------------------------------------------------
\* On a page that resumes no draft: a review under way is of the draft shown; a
\* save is under way only while there is none, and alone.
Reviewed ==
  requested = None =>
    /\ \A a \in awaited : a.what # "RESUME" /\ (a.what = "REVIEW" => a.draft = form.draft)
    /\ \A h \in Handlers : request[h].op = "SAVE" => form.draft = None
    /\ \A g, h \in Handlers : request[g].op = "SAVE" /\ request[h].op = "SAVE" => g = h
    /\ form.review \in {None, form.draft}

\* Reads of the draft shown stay, or the draft is another and they are cancelled.
LEMMA ShowsReviewed ==
  ASSUME FormTyped, Reviewed, requested = None, NEW f \in Forms, NEW set, Shows(f, set),
         f.draft = form.draft \/ "draft" \in set
  PROVE  \A a \in awaited' : a.what # "RESUME" /\ (a.what = "REVIEW" => a.draft = form'.draft)
<1>1. \A a \in Kept(set) : a.what # "RESUME" /\ (a.what = "REVIEW" => a.draft = f.draft)
  <2>1. "draft" \in set => \A a \in Kept(set) : a.what # "REVIEW"
    BY ReadKinds DEF Kept
  <2> QED BY <2>1 DEF Kept, Reviewed
<1> QED BY <1>1, StartedReads DEF Shows

LEMMA ReviewedAlways == RequestFormSpec => []Reviewed
<1> USE RequestFormAssumption
<1>1. RequestFormInit => Reviewed
  BY DEF RequestFormInit, RequestInit, NoRequest, Blank, Reviewed
<1>2. FormTyped /\ Reviewed /\ [RequestFormNext]_requestFormVars => Reviewed'
  <2> SUFFICES ASSUME FormTyped, Reviewed, [RequestFormNext]_requestFormVars, requested' = None
               PROVE  Reviewed'
    BY DEF Reviewed
  <2>1. requested = None
    BY FormSteps DEF requestFormVars
  <2>2. /\ DOMAIN request = Handlers /\ form \in Forms
        /\ \A a \in awaited : a.what # "RESUME" /\ (a.what = "REVIEW" => a.draft = form.draft)
        /\ \A h \in Handlers : request[h].op = "SAVE" => form.draft = None
        /\ \A g, h \in Handlers : request[g].op = "SAVE" /\ request[h].op = "SAVE" => g = h
        /\ form.review \in {None, form.draft}
    BY <2>1 DEF FormTyped, RequestFormTypeOK, Reviewed
  <2>3. CASE Posts
    BY <2>2, <2>3 DEF Posts, Reviewed
  <2>4. CASE Fails
    BY <2>2, <2>4 DEF Fails, Reviewed, NoRequest
  \* The answer to the save is the only one that brings a draft, to a page that
  \* had none, and no review either.
  <2>5. CASE Answers
    <3>1. PICK h \in Handlers, f \in Forms : \E set :
            /\ request' = [request EXCEPT ![h] = NoRequest]
            /\ Shows(f, set) /\ f.review = form.review
            /\ \/ f.draft = form.draft
               \/ request[h].op = "SAVE" /\ "draft" \in set
      BY <2>5 DEF Answers
    <3>2. form' = f
      BY <3>1 DEF Shows
    <3>3. \A a \in awaited' :
             a.what # "RESUME" /\ (a.what = "REVIEW" => a.draft = form'.draft)
      BY <2>1, <3>1, ShowsReviewed
    <3>4. CASE f.draft = form.draft
      BY <2>2, <3>1, <3>2, <3>3, <3>4 DEF Reviewed, NoRequest
    <3>5. CASE request[h].op = "SAVE"
      <4>1. \A g \in Handlers : request'[g].op # "SAVE"
        BY <2>2, <3>1, <3>5 DEF NoRequest
      <4>2. f.review = None
        BY <2>2, <3>1, <3>5
      <4> QED BY <3>2, <3>3, <4>1, <4>2 DEF Reviewed
    <3> QED BY <3>1, <3>4, <3>5
  <2>6. CASE Edits
    <3>1. PICK f \in Forms : \E set :
            /\ UNCHANGED request /\ Shows(f, set)
            /\ \/ f.draft = form.draft /\ f.review \in {None, form.draft}
               \/ f.draft = None /\ f.review = None /\ "draft" \in set
      BY <2>2, <2>6 DEF Edits
    <3>2. form' = f
      BY <3>1 DEF Shows
    <3>3. \A a \in awaited' :
             a.what # "RESUME" /\ (a.what = "REVIEW" => a.draft = form'.draft)
      BY <2>1, <3>1, ShowsReviewed
    <3> QED BY <2>2, <3>1, <3>2, <3>3 DEF Reviewed
  <2>7. CASE UNCHANGED requestFormVars
    BY <2>2, <2>7 DEF requestFormVars, Reviewed
  <2> QED BY <2>3, <2>4, <2>5, <2>6, <2>7, FormSteps
<1> QED BY <1>1, <1>2, FormTypedAlways, PTL DEF RequestFormSpec

(***************************************************************************)
(* On a page that was not opened to resume a draft, the review from which  *)
(* the request is sent is that of the draft the button submits: a change   *)
(* of the selection cancels the reads of the draft before it, and no save  *)
(* can bring a draft while there is one.                                   *)
(***************************************************************************)
THEOREM ReviewIsOfThisDraft == RequestFormSpec => []ReviewOfThisDraft
<1>1. Reviewed => ReviewOfThisDraft
  BY DEF Reviewed, ReviewOfThisDraft
<1> QED BY <1>1, ReviewedAlways, PTL
-----------------------------------------------------------------------------
(* The way of an employee into the workspace.                              *)

OnboardingCalls ==
  [op : {"LOAD"}, challenge : {"?", "HELD", "NONE"}, action : Actions \cup {"?", "NONE"}]
    \cup [op : {"CONFIRM", "EMAIL", "CODE", "VERIFIED", "MAILED", "PASSWORD", "CHANGED"}]
    \cup [op : {"ISSUE"}, enrolling : BOOLEAN, user : Employees]
    \cup [op : {"ISSUED"}, enrolling : BOOLEAN, action : Actions]

OnboardingTyped ==
  /\ StaffOnboardingTypeOK
  /\ request \in [Handlers -> OnboardingCalls \cup {NoRequest}]


LEMMA ActionIsAction == \A e \in Employees : SecurityAction(e) \in Actions
BY DEF SecurityAction, Actions, Employees

LEMMA StageIsStage == \A a \in Actions : StageOf(a) \in Stages
BY DEF StageOf, Actions, Stages

LEMMA OnboardingCallCarries ==
  ASSUME OnboardingTyped, NEW h \in Handlers
  PROVE  /\ request[h].op = "LOAD" =>
              /\ request[h] \in [op : {"LOAD"}, challenge : {"?", "HELD", "NONE"},
                                 action : Actions \cup {"?", "NONE"}]
         /\ request[h].op = "ISSUE" =>
              request[h].enrolling \in BOOLEAN /\ request[h].user \in Employees
         /\ request[h].op = "ISSUED" =>
              request[h].enrolling \in BOOLEAN /\ request[h].action \in Actions
BY DEF OnboardingTyped, OnboardingCalls, NoRequest

\* What the page shows once it is loaded.
LEMMA LoadedShows ==
  ASSUME OnboardingTyped, NEW h \in Handlers, PageLoaded(h)
  PROVE  /\ screen' \in Screens
         /\ \/ screen'.stage \in {"mfa", "expired"}
            \/ request[h].action \in Actions /\ screen'.stage = StageOf(request[h].action)
<1>1. request[h].action \in Actions \cup {"NONE"} /\ request[h].challenge \in {"HELD", "NONE"}
  BY OnboardingCallCarries DEF PageLoaded
<1>2. screen \in Screens
  BY DEF OnboardingTyped, StaffOnboardingTypeOK
<1>3. CASE request[h].challenge = "HELD"
  <2>1. screen' = [screen EXCEPT !.stage = "mfa", !.held = TRUE]
    BY <1>3 DEF PageLoaded
  <2> QED BY <1>2, <2>1 DEF Screens, Stages
<1>4. CASE request[h].challenge = "NONE" /\ request[h].action = "NONE"
  <2>1. screen' = [screen EXCEPT !.stage = "expired"]
    BY <1>4 DEF PageLoaded
  <2> QED BY <1>2, <2>1 DEF Screens, Stages
<1>5. CASE request[h].challenge = "NONE" /\ request[h].action # "NONE"
  <2>1. PICK a \in Actions : a = request[h].action
    BY <1>1, <1>5
  <2>2. screen' = [screen EXCEPT !.stage = StageOf(a), !.action = a]
    BY <1>5, <2>1 DEF PageLoaded
  <2>3. screen' \in Screens /\ screen'.stage = StageOf(a)
    BY <1>2, <2>1, <2>2, StageIsStage DEF Screens
  <2> QED BY <2>1, <2>3
<1> QED BY <1>1, <1>3, <1>4, <1>5

LEMMA OnboardingTypedAlways == StaffOnboardingSpec => []OnboardingTyped
<1>1. StaffOnboardingInit => OnboardingTyped
  <2> SUFFICES ASSUME StaffOnboardingInit PROVE OnboardingTyped
    OBVIOUS
  <2>1. employee \in Employees
    <3>1. PICK r \in {"SALES", "ADMIN"} :
            employee = [role |-> r, enrolled |-> FALSE, verified |-> r = "SALES",
                        temporary |-> TRUE]
      BY DEF StaffOnboardingInit
    <3>2. PICK v \in BOOLEAN : v = (r = "SALES")
      OBVIOUS
    <3> QED BY <3>1, <3>2 DEF Employees
  <2>4. browser \in Browsers /\ lapsed \in BOOLEAN
    BY DEF StaffOnboardingInit, Browsers
  <2>2. screen \in Screens
    BY DEF StaffOnboardingInit, Entering, Screens, Stages, Actions
  <2>3. request \in [Handlers -> {NoRequest}]
    BY DEF StaffOnboardingInit, RequestInit
  <2> QED BY <2>1, <2>2, <2>3, <2>4 DEF OnboardingTyped, StaffOnboardingTypeOK
<1>2. OnboardingTyped /\ [StaffOnboardingNext]_onboardingVars => OnboardingTyped'
  <2> SUFFICES ASSUME OnboardingTyped, [StaffOnboardingNext]_onboardingVars
               PROVE  OnboardingTyped'
    OBVIOUS
  <2>1. /\ employee \in Employees /\ browser \in Browsers /\ lapsed \in BOOLEAN
        /\ screen \in Screens
    BY DEF OnboardingTyped, StaffOnboardingTypeOK
  <2>2. ASSUME NEW h \in Handlers, NEW q \in OnboardingCalls \cup {NoRequest},
               request' = [request EXCEPT ![h] = q]
        PROVE  request' \in [Handlers -> OnboardingCalls \cup {NoRequest}]
    BY <2>2 DEF OnboardingTyped
  <2>3. CASE SignInAsStaff \/ OpenAgain
    <3>1. screen' = Entering("loading") /\ UNCHANGED <<employee, request>>
      BY <2>3 DEF SignInAsStaff, OpenAgain
    <3>2. screen' \in Screens
      BY <3>1 DEF Entering, Screens, Stages, Actions
    <3>3. browser' \in Browsers /\ lapsed' \in BOOLEAN
      <4>1. CASE SignInAsStaff
        BY <4>1 DEF SignInAsStaff, Browsers
      <4>2. CASE OpenAgain
        BY <2>1, <4>2 DEF OpenAgain
      <4> QED BY <2>3, <4>1, <4>2
    <3> QED BY <2>1, <3>1, <3>2, <3>3 DEF OnboardingTyped, StaffOnboardingTypeOK
  <2>4. CASE ContinueAfterRecovery \/ CountdownEnds \/ AnotherEmail
    <3>1. screen.action \in Actions
      BY <2>1 DEF Screens
    <3>2. StageOf(screen.action) \in Stages /\ "expired" \in Stages
      BY <3>1, StageIsStage DEF Stages
    <3>3. screen' \in Screens
      BY <2>1, <2>4, <3>2 DEF ContinueAfterRecovery, CountdownEnds, AnotherEmail, To, Screens
    <3>4. UNCHANGED <<employee, browser, lapsed, request>>
      BY <2>4 DEF ContinueAfterRecovery, CountdownEnds, AnotherEmail
    <3> QED BY <2>1, <3>3, <3>4 DEF OnboardingTyped, StaffOnboardingTypeOK
  <2>5. CASE ChallengeLapses \/ AccessReset \/ PasswordResetByEmail
    <3>1. employee' \in Employees
      BY <2>1, <2>5 DEF ChallengeLapses, AccessReset, PasswordResetByEmail, Employees
    <3>2. browser' \in Browsers
      BY <2>1, <2>5 DEF ChallengeLapses, AccessReset, PasswordResetByEmail, Browsers
    <3>3. lapsed' \in BOOLEAN /\ UNCHANGED <<screen, request>>
      BY <2>1, <2>5 DEF ChallengeLapses, AccessReset, PasswordResetByEmail
    <3> QED BY <3>1, <3>2, <3>3 DEF OnboardingTyped, StaffOnboardingTypeOK
  <2>6. ASSUME NEW h \in Handlers,
               LoadPage(h) \/ ConfirmFactor(h) \/ SubmitPrimaryEmail(h) \/ SubmitPassword(h)
        PROVE  OnboardingTyped'
    <3>1. PICK q \in OnboardingCalls : request' = [request EXCEPT ![h] = q]
      BY <2>6 DEF LoadPage, ConfirmFactor, SubmitPrimaryEmail, SubmitPassword, Begin, OnboardingCalls
    <3>2. UNCHANGED <<employee, browser, lapsed, screen>>
      BY <2>6 DEF LoadPage, ConfirmFactor, SubmitPrimaryEmail, SubmitPassword
    <3> QED BY <2>1, <2>2, <3>1, <3>2 DEF OnboardingTyped, StaffOnboardingTypeOK
  <2>7. ASSUME NEW h \in Handlers, ReadChallenge(h) \/ ReadSession(h)
        PROVE  OnboardingTyped'
    <3>1. request[h] \in [op : {"LOAD"}, challenge : {"?", "HELD", "NONE"},
                         action : Actions \cup {"?", "NONE"}]
      BY <2>7, OnboardingCallCarries DEF ReadChallenge, ReadSession
    <3>2. SecurityAction(employee) \in Actions
      BY <2>1, ActionIsAction
    <3>3. PICK q : /\ q \in [op : {"LOAD"}, challenge : {"?", "HELD", "NONE"},
                             action : Actions \cup {"?", "NONE"}]
                   /\ request' = [request EXCEPT ![h] = q]
      BY <2>7, <3>1, <3>2 DEF ReadChallenge, ReadSession, Continue
    <3>4. q \in OnboardingCalls
      BY <3>3 DEF OnboardingCalls
    <3>5. UNCHANGED <<employee, browser, lapsed, screen>>
      BY <2>7 DEF ReadChallenge, ReadSession
    <3> QED BY <2>1, <2>2, <3>3, <3>4, <3>5 DEF OnboardingTyped, StaffOnboardingTypeOK
  <2>8. ASSUME NEW h \in Handlers, FactorAccepted(h)
        PROVE  OnboardingTyped'
    <3>1. employee' \in Employees /\ employee' = [employee EXCEPT !.enrolled = TRUE]
      BY <2>1, <2>8 DEF FactorAccepted, Employees
    <3>2. PICK q : /\ q = [op |-> "ISSUE", enrolling |-> ~employee.enrolled, user |-> employee']
                   /\ request' = [request EXCEPT ![h] = q]
      BY <2>8 DEF FactorAccepted, Continue
    <3>3. q \in OnboardingCalls
      BY <2>1, <3>1, <3>2 DEF OnboardingCalls, Employees
    <3>4. browser' \in Browsers /\ UNCHANGED <<lapsed, screen>>
      BY <2>1, <2>8 DEF FactorAccepted, Browsers
    <3> QED BY <2>1, <2>2, <3>1, <3>2, <3>3, <3>4 DEF OnboardingTyped, StaffOnboardingTypeOK
  <2>9. ASSUME NEW h \in Handlers, SessionIssued(h)
        PROVE  OnboardingTyped'
    <3>1. request[h].enrolling \in BOOLEAN /\ request[h].user \in Employees
      BY <2>9, OnboardingCallCarries DEF SessionIssued
    <3>2. SecurityAction(request[h].user) \in Actions
      BY <3>1, ActionIsAction
    <3>3. PICK q : /\ q = [op |-> "ISSUED", enrolling |-> request[h].enrolling,
                          action |-> SecurityAction(request[h].user)]
                   /\ request' = [request EXCEPT ![h] = q]
      BY <2>9 DEF SessionIssued, Continue
    <3>4. q \in OnboardingCalls
      BY <3>1, <3>2, <3>3 DEF OnboardingCalls
    <3>5. browser' \in Browsers /\ UNCHANGED <<employee, lapsed, screen>>
      BY <2>1, <2>9 DEF SessionIssued, Browsers
    <3> QED BY <2>1, <2>2, <3>3, <3>4, <3>5 DEF OnboardingTyped, StaffOnboardingTypeOK
  <2>10. ASSUME NEW h \in Handlers, EmailAccepted(h) \/ PasswordAccepted(h)
         PROVE  OnboardingTyped'
    <3>1. employee' \in Employees
      BY <2>1, <2>10 DEF EmailAccepted, PasswordAccepted, Employees
    <3>2. PICK q \in OnboardingCalls : request' = [request EXCEPT ![h] = q]
      BY <2>10 DEF EmailAccepted, PasswordAccepted, Continue, OnboardingCalls
    <3>3. UNCHANGED <<browser, lapsed, screen>>
      BY <2>10 DEF EmailAccepted, PasswordAccepted
    <3> QED BY <2>1, <2>2, <3>1, <3>2, <3>3 DEF OnboardingTyped, StaffOnboardingTypeOK
  <2>11. ASSUME NEW h \in Handlers,
                \/ PageLoaded(h) \/ FactorAnswered(h) \/ EmailAnswered(h) \/ PasswordAnswered(h)
                \/ OnboardingCallFails(h)
         PROVE  OnboardingTyped'
    <3>1. request' = [request EXCEPT ![h] = NoRequest] /\ UNCHANGED <<employee, lapsed>>
      BY <2>11 DEF PageLoaded, FactorAnswered, EmailAnswered, PasswordAnswered,
                   OnboardingCallFails, Finish
    <3>2. browser' \in Browsers
      BY <2>1, <2>11 DEF PageLoaded, FactorAnswered, EmailAnswered, PasswordAnswered,
                         OnboardingCallFails, Browsers
    <3>3. screen' \in Screens
      <4>1. CASE FactorAnswered(h)
        <5>1. request[h].enrolling \in BOOLEAN /\ request[h].action \in Actions
          BY <4>1, OnboardingCallCarries DEF FactorAnswered
        <5>2. PICK st \in Stages :
                screen' = [screen EXCEPT !.action = request[h].action, !.stage = st]
          BY <4>1, <5>1, StageIsStage DEF FactorAnswered, Stages
        <5> QED BY <2>1, <5>1, <5>2 DEF Screens
      <4>2. CASE EmailAnswered(h) \/ PasswordAnswered(h) \/ OnboardingCallFails(h)
        BY <2>1, <4>2
        DEF EmailAnswered, PasswordAnswered, OnboardingCallFails, To, Screens, Stages, Actions
      <4> QED BY <2>11, <4>1, <4>2, LoadedShows
    <3> QED BY <2>1, <2>2, <3>1, <3>2, <3>3 DEF OnboardingTyped, StaffOnboardingTypeOK
  <2>12. CASE UNCHANGED onboardingVars
    BY <2>12 DEF onboardingVars, OnboardingTyped, StaffOnboardingTypeOK
  <2> QED BY <2>3, <2>4, <2>5, <2>6, <2>7, <2>8, <2>9, <2>10, <2>11, <2>12
          DEF StaffOnboardingNext
<1> QED BY <1>1, <1>2, PTL DEF StaffOnboardingSpec

(***************************************************************************)
(* The account, the cookies, the page and what is in flight keep their     *)
(* types.                                                                  *)
(***************************************************************************)
THEOREM StaffOnboardingTypeCorrect == StaffOnboardingSpec => []StaffOnboardingTypeOK
<1>1. OnboardingTyped => StaffOnboardingTypeOK
  BY DEF OnboardingTyped
<1> QED BY <1>1, OnboardingTypedAlways, PTL\* The session is of the account as it stood.
Holds == browser.session /\ ~browser.late

\* The stage a call was sent from.
SentFrom(op) ==
  CASE op = "LOAD" -> "loading"
    [] op \in {"CONFIRM", "ISSUE", "ISSUED"} -> "mfa"
    [] op \in {"EMAIL", "CODE", "VERIFIED", "MAILED"} -> "email"
    [] op \in {"PASSWORD", "CHANGED"} -> "password"

\* What a call in flight knows of the account.
CallKnows(q) ==
  /\ q.op = "VERIFIED" => employee.verified
  /\ Holds =>
       /\ q.op = "LOAD" /\ q.action # "?" => q.action = SecurityAction(employee)
       /\ q.op = "ISSUED" => q.action = SecurityAction(employee)
       /\ q.op = "PASSWORD" => employee.verified
       /\ q.op = "CHANGED" => SecurityAction(employee) = None

\* What the page shows of it.
PageKnows ==
  Holds =>
    /\ screen.stage = "complete" => SecurityAction(employee) = None
    /\ screen.stage = "password" => employee.verified
    /\ screen.stage = "recovery" => SecurityAction(employee) = screen.action

\* One call at a time, from the stage it was sent from: only the countdown
\* leaves that one before it is answered.
OneCall ==
  \A h \in Handlers :
    request[h] # NoRequest =>
      /\ screen.stage \in {SentFrom(request[h].op), "expired"}
      /\ \A g \in Handlers \ {h} : request[g] = NoRequest

Informed ==
  /\ OneCall
  /\ \A h \in Handlers : CallKnows(request[h])
  /\ PageKnows

\* The calls after a step of one of them.
LEMMA CallGoesOn ==
  ASSUME OnboardingTyped, OneCall, NEW h \in Handlers, NEW q, CallKnows(q)',
         Quiet \/ request[h] # NoRequest, request' = [request EXCEPT ![h] = q],
         q # NoRequest => screen'.stage \in {SentFrom(q.op), "expired"}
  PROVE  OneCall' /\ (\A g \in Handlers : CallKnows(request[g]))'
<1>1. request' = [g \in Handlers |-> IF g = h THEN q ELSE NoRequest]
  BY DEF OnboardingTyped, OneCall, Quiet
<1>2. OneCall'
  BY <1>1 DEF OneCall
<1>3. CallKnows(NoRequest)'
  BY DEF CallKnows, NoRequest
<1>4. ASSUME NEW g \in Handlers PROVE CallKnows(request[g])'
  <2>1. PICK x : x = request'[g] /\ (x = q \/ x = NoRequest)
    BY <1>1
  <2>2. CallKnows(x)'
    BY <1>3, <2>1
  <2> QED BY <2>1, <2>2
<1> QED BY <1>2, <1>4

LEMMA ActionsDiffer ==
  /\ \A e \in Employees : /\ SecurityAction(e) = None =>
                               e.enrolled /\ e.verified /\ ~e.temporary
                          /\ SecurityAction(e) = "CHANGE_TEMPORARY_PASSWORD" => e.verified
                          /\ e.enrolled /\ e.verified /\ ~e.temporary =>
                               SecurityAction(e) = None
                          /\ SecurityAction(e) \notin {"NONE", "?"}
  /\ \A a \in Actions : /\ StageOf(a) = "complete" => a = None
                        /\ StageOf(a) = "password" => a = "CHANGE_TEMPORARY_PASSWORD"
                        /\ StageOf(a) # "recovery"
<1>1. ASSUME NEW e \in Employees
      PROVE  /\ SecurityAction(e) = None => e.enrolled /\ e.verified /\ ~e.temporary
             /\ SecurityAction(e) = "CHANGE_TEMPORARY_PASSWORD" => e.verified
             /\ e.enrolled /\ e.verified /\ ~e.temporary => SecurityAction(e) = None
             /\ SecurityAction(e) \notin {"NONE", "?"}
  BY StaffOnboardingAssumption DEF SecurityAction, Employees
<1>2. ASSUME NEW a \in Actions
      PROVE  /\ StageOf(a) = "complete" => a = None
             /\ StageOf(a) = "password" => a = "CHANGE_TEMPORARY_PASSWORD"
             /\ StageOf(a) # "recovery"
  BY StaffOnboardingAssumption DEF StageOf, Actions
<1> QED BY <1>1, <1>2

LEMMA InformedAlways == StaffOnboardingSpec => []Informed
<1>1. StaffOnboardingInit => Informed
  <2> SUFFICES ASSUME StaffOnboardingInit PROVE Informed
    OBVIOUS
  <2>1. \A h \in Handlers : request[h] = NoRequest
    BY DEF StaffOnboardingInit, RequestInit
  <2>2. ~Holds
    BY DEF StaffOnboardingInit, Holds
  <2> QED BY <2>1, <2>2 DEF Informed, OneCall, CallKnows, PageKnows, NoRequest
<1>2. OnboardingTyped /\ Informed /\ [StaffOnboardingNext]_onboardingVars => Informed'
  <2> SUFFICES ASSUME OnboardingTyped, Informed, [StaffOnboardingNext]_onboardingVars
               PROVE  Informed'
    OBVIOUS
  <2>1. /\ OneCall /\ PageKnows /\ \A h \in Handlers : CallKnows(request[h])
        /\ employee \in Employees /\ browser \in Browsers /\ screen \in Screens
    BY DEF Informed, OnboardingTyped, StaffOnboardingTypeOK
  \* No call runs, and the page loads anew.
  <2>2. CASE SignInAsStaff \/ OpenAgain
    <3>1. screen'.stage = "loading" /\ UNCHANGED request /\ Quiet
      BY <2>2 DEF SignInAsStaff, OpenAgain, Entering
    <3> QED BY <3>1 DEF Informed, OneCall, Quiet, CallKnows, PageKnows, NoRequest
  <2>3. CASE ContinueAfterRecovery
    <3>1. PICK a \in Actions : a = screen.action
      BY <2>1 DEF Screens
    <3>2. screen'.stage = StageOf(a) /\ UNCHANGED <<employee, browser, request>>
      BY <2>1, <2>3, <3>1 DEF ContinueAfterRecovery, To, Screens
    <3>3. Quiet
      BY <2>1, <2>3 DEF ContinueAfterRecovery, OneCall, Quiet, SentFrom, OnboardingTyped, OnboardingCalls
    <3>4. PageKnows'
      BY <2>1, <2>3, <3>1, <3>2, ActionsDiffer DEF ContinueAfterRecovery, PageKnows, Holds
    <3> QED BY <3>2, <3>3, <3>4 DEF Informed, OneCall, Quiet, CallKnows, NoRequest
  <2>4. CASE CountdownEnds \/ AnotherEmail
    <3>1. screen'.stage \in {screen.stage, "expired"} /\ screen'.action = screen.action
      BY <2>1, <2>4 DEF CountdownEnds, AnotherEmail, To, Screens
    <3>2. UNCHANGED <<employee, browser, request>>
      BY <2>4 DEF CountdownEnds, AnotherEmail
    <3>3. OneCall'
      BY <2>1, <3>1, <3>2 DEF OneCall
    <3> QED BY <2>1, <3>1, <3>2, <3>3 DEF Informed, CallKnows, PageKnows, Holds
  \* A challenge lapses, or the access is reset and the session is gone.
  <2>5. CASE ChallengeLapses \/ AccessReset \/ PasswordResetByEmail
    <3>1. UNCHANGED <<screen, request>> /\ employee'.verified = employee.verified
      BY <2>1, <2>5 DEF ChallengeLapses, AccessReset, PasswordResetByEmail, Employees
    <3>2. Holds' => Holds /\ UNCHANGED employee
      BY <2>1, <2>5 DEF ChallengeLapses, AccessReset, PasswordResetByEmail, Holds, Browsers
    <3>3. OneCall'
      BY <2>1, <3>1 DEF OneCall
    <3> QED BY <2>1, <3>1, <3>2, <3>3 DEF Informed, CallKnows, PageKnows
  \* The steps of a call: the invariant of the page and what the call knows.
  <2>6. ASSUME NEW h \in Handlers, NEW q, PageKnows', CallKnows(q)',
               Quiet \/ request[h] # NoRequest, request' = [request EXCEPT ![h] = q],
               q # NoRequest => screen'.stage \in {SentFrom(q.op), "expired"}
        PROVE  Informed'
    BY <2>1, <2>6, CallGoesOn DEF Informed
  <2>7. ASSUME NEW h \in Handlers,
               LoadPage(h) \/ ConfirmFactor(h) \/ SubmitPrimaryEmail(h) \/ SubmitPassword(h)
        PROVE  Informed'
    <3>1. PICK q : /\ request' = [request EXCEPT ![h] = q]
                   /\ screen.stage = SentFrom(q.op) /\ q.op \notin {"VERIFIED", "ISSUED", "CHANGED"}
                   /\ q.op = "LOAD" => q.action = "?"
                   /\ q.op = "PASSWORD" => screen.stage = "password"
      <4>1. CASE LoadPage(h)
        <5>1. PICK q : /\ q = [op |-> "LOAD", challenge |-> "?", action |-> "?"]
                       /\ request' = [request EXCEPT ![h] = q] /\ screen.stage = "loading"
          BY <4>1 DEF LoadPage, Begin
        <5>2. q.op = "LOAD" /\ q.action = "?"
          BY <5>1
        <5> QED BY <5>1, <5>2 DEF SentFrom
      <4>2. CASE ConfirmFactor(h) \/ SubmitPrimaryEmail(h) \/ SubmitPassword(h)
        <5>1. PICK op \in {"CONFIRM", "EMAIL", "CODE", "PASSWORD"} :
                screen.stage = SentFrom(op) /\ request' = [request EXCEPT ![h] = [op |-> op]]
          BY <4>2 DEF ConfirmFactor, SubmitPrimaryEmail, SubmitPassword, Begin, SentFrom
        <5>2. PICK q : q = [op |-> op]
          OBVIOUS
        <5>3. q.op = op
          BY <5>2
        <5> QED BY <5>1, <5>2, <5>3 DEF SentFrom
      <4> QED BY <2>7, <4>1, <4>2
    <3>2. UNCHANGED <<employee, browser, screen>> /\ Quiet
      BY <2>7 DEF LoadPage, ConfirmFactor, SubmitPrimaryEmail, SubmitPassword
    <3>3. PageKnows' /\ CallKnows(q)'
      BY <2>1, <3>1, <3>2 DEF PageKnows, CallKnows, Holds
    <3> QED BY <2>6, <3>1, <3>2, <3>3
  <2>8. ASSUME NEW h \in Handlers, ReadChallenge(h) \/ ReadSession(h)
        PROVE  Informed'
    <3>1. request[h] \in [op : {"LOAD"}, challenge : {"?", "HELD", "NONE"},
                         action : Actions \cup {"?", "NONE"}]
      BY <2>8, OnboardingCallCarries DEF ReadChallenge, ReadSession
    <3>2. PICK q : /\ request' = [request EXCEPT ![h] = q] /\ q.op = "LOAD"
                   /\ \/ q.action = request[h].action
                      \/ ~browser.session
                      \/ q.action = SecurityAction(employee)
      BY <2>8, <3>1 DEF ReadChallenge, ReadSession, Continue
    <3>3. UNCHANGED <<employee, browser, screen>> /\ request[h] # NoRequest
      BY <2>8, <3>1 DEF ReadChallenge, ReadSession, NoRequest
    <3>4. screen.stage \in {SentFrom("LOAD"), "expired"}
      BY <2>1, <3>1, <3>3 DEF OneCall
    <3>5. PageKnows' /\ CallKnows(q)'
      BY <2>1, <3>1, <3>2, <3>3 DEF PageKnows, CallKnows, Holds
    <3> QED BY <2>6, <3>2, <3>3, <3>4, <3>5
  \* While the factor is checked nothing is claimed of the account.
  <2>9. ASSUME NEW h \in Handlers, FactorAccepted(h) \/ SessionIssued(h)
        PROVE  Informed'
    <3>1. request[h].op \in {"CONFIRM", "ISSUE"} /\ UNCHANGED screen
      BY <2>9 DEF FactorAccepted, SessionIssued
    <3>2. request[h] # NoRequest /\ screen.stage \in {"mfa", "expired"}
      BY <2>1, <3>1 DEF OneCall, SentFrom, NoRequest
    <3>3. PICK q : /\ request' = [request EXCEPT ![h] = q] /\ q.op \in {"ISSUE", "ISSUED"}
                   /\ q.op = "ISSUED" /\ Holds' => q.action = SecurityAction(employee')
      <4>1. CASE FactorAccepted(h)
        <5>1. PICK q : /\ q = [op |-> "ISSUE", enrolling |-> ~employee.enrolled,
                              user |-> [employee EXCEPT !.enrolled = TRUE]]
                       /\ request' = [request EXCEPT ![h] = q]
          BY <4>1 DEF FactorAccepted, Continue
        <5>2. q.op = "ISSUE"
          BY <5>1
        <5> QED BY <5>1, <5>2
      <4>2. CASE SessionIssued(h)
        <5>1. PICK u : u = request[h].user
          OBVIOUS
        <5>2. Holds' => u = employee /\ employee' = employee
          BY <2>1, <4>2, <5>1 DEF SessionIssued, Holds, Browsers
        <5>3. PICK q : /\ q = [op |-> "ISSUED", enrolling |-> request[h].enrolling,
                              action |-> SecurityAction(u)]
                       /\ request' = [request EXCEPT ![h] = q]
          BY <4>2, <5>1 DEF SessionIssued, Continue
        <5>4. q.op = "ISSUED" /\ q.action = SecurityAction(u)
          BY <5>3
        <5> QED BY <5>2, <5>3, <5>4
      <4> QED BY <2>9, <4>1, <4>2
    <3>4. PageKnows' /\ CallKnows(q)'
      BY <3>1, <3>2, <3>3 DEF PageKnows, CallKnows
    <3>5. screen'.stage \in {SentFrom(q.op), "expired"}
      BY <3>1, <3>2, <3>3 DEF SentFrom
    <3> QED BY <2>6, <3>2, <3>3, <3>4, <3>5
  <2>10. ASSUME NEW h \in Handlers, EmailAccepted(h)
         PROVE  Informed'
    <3>1. request[h].op \in {"EMAIL", "CODE"} /\ UNCHANGED <<browser, screen>>
      BY <2>10 DEF EmailAccepted
    <3>2. request[h] # NoRequest /\ screen.stage \in {"email", "expired"}
      BY <2>1, <3>1 DEF OneCall, SentFrom, NoRequest
    <3>3. PICK q : /\ request' = [request EXCEPT ![h] = q] /\ q.op \in {"VERIFIED", "MAILED"}
                   /\ q.op = "VERIFIED" => request[h].op = "EMAIL"
      <4>1. PICK op : /\ op = IF request[h].op = "EMAIL" THEN "VERIFIED" ELSE "MAILED"
                      /\ request' = [request EXCEPT ![h] = [op |-> op]]
        BY <2>10 DEF EmailAccepted, Continue
      <4>2. PICK q : q = [op |-> op]
        OBVIOUS
      <4>3. q.op = op
        BY <4>2
      <4>4. /\ q.op \in {"VERIFIED", "MAILED"}
            /\ q.op = "VERIFIED" => request[h].op = "EMAIL"
        BY <4>1, <4>3
      <4>5. request' = [request EXCEPT ![h] = q]
        BY <4>1, <4>2
      <4> QED BY <4>4, <4>5
    <3>4. request[h].op = "EMAIL" => employee'.verified
      BY <2>1, <2>10 DEF EmailAccepted, Employees
    <3>5. PageKnows' /\ CallKnows(q)'
      BY <3>1, <3>2, <3>3, <3>4 DEF PageKnows, CallKnows
    <3>6. screen'.stage \in {SentFrom(q.op), "expired"}
      BY <3>1, <3>2, <3>3 DEF SentFrom
    <3> QED BY <2>6, <3>2, <3>3, <3>5, <3>6
  <2>11. ASSUME NEW h \in Handlers, PasswordAccepted(h)
         PROVE  Informed'
    <3>1. request[h].op = "PASSWORD" /\ UNCHANGED <<browser, screen>> /\ employee.enrolled
      BY <2>11 DEF PasswordAccepted
    <3>2. request[h] # NoRequest /\ screen.stage \in {"password", "expired"}
      BY <2>1, <3>1 DEF OneCall, SentFrom, NoRequest
    <3>3. PICK q : request' = [request EXCEPT ![h] = q] /\ q.op = "CHANGED"
      <4>1. PICK q : q = [op |-> "CHANGED"] /\ request' = [request EXCEPT ![h] = q]
        BY <2>11 DEF PasswordAccepted, Continue
      <4>2. q.op = "CHANGED"
        BY <4>1
      <4> QED BY <4>1, <4>2
    <3>4. employee' = [employee EXCEPT !.temporary = FALSE] /\ employee' \in Employees
      BY <2>1, <2>11 DEF PasswordAccepted, Employees
    <3>5. employee'.enrolled /\ ~employee'.temporary /\ employee'.verified = employee.verified
      BY <2>1, <3>1, <3>4 DEF Employees
    <3>6. Holds' => Holds /\ employee.verified
      BY <2>1, <3>1 DEF CallKnows, Holds
    <3>7. Holds' => SecurityAction(employee') = None /\ employee'.verified
      BY <3>4, <3>5, <3>6, ActionsDiffer
    <3>8. PageKnows' /\ CallKnows(q)'
      BY <3>1, <3>2, <3>3, <3>7 DEF PageKnows, CallKnows
    <3>9. screen'.stage \in {SentFrom(q.op), "expired"}
      BY <3>1, <3>2, <3>3 DEF SentFrom
    <3> QED BY <2>6, <3>2, <3>3, <3>8, <3>9
  \* Answers.
  <2>12. ASSUME NEW h \in Handlers, request[h] # NoRequest, PageKnows',
                request' = [request EXCEPT ![h] = NoRequest]
         PROVE  Informed'
    <3>1. CallKnows(NoRequest)'
      BY DEF CallKnows, NoRequest
    <3> QED BY <2>6, <2>12, <3>1
  <2>13. ASSUME NEW h \in Handlers, PageLoaded(h)
         PROVE  Informed'
    <3>1. /\ request[h] # NoRequest /\ request' = [request EXCEPT ![h] = NoRequest]
          /\ UNCHANGED <<employee, browser>>
      BY <2>13 DEF PageLoaded, Finish, NoRequest
    <3>2. \/ screen'.stage \in {"mfa", "expired"}
          \/ request[h].action \in Actions /\ screen'.stage = StageOf(request[h].action)
      BY <2>13, LoadedShows
    <3>3. Holds => request[h].action = SecurityAction(employee)
      BY <2>1, <2>13 DEF PageLoaded, CallKnows
    <3>4. PageKnows'
      BY <2>1, <3>1, <3>2, <3>3, ActionsDiffer DEF PageKnows, Holds
    <3> QED BY <2>12, <3>1, <3>4
  <2>14. ASSUME NEW h \in Handlers, FactorAnswered(h)
         PROVE  Informed'
    <3>1. /\ request[h] # NoRequest /\ request' = [request EXCEPT ![h] = NoRequest]
          /\ UNCHANGED <<employee, browser>>
      BY <2>14 DEF FactorAnswered, Finish, NoRequest
    <3>2. PICK a \in Actions : a = request[h].action
      BY <2>14, OnboardingCallCarries DEF FactorAnswered
    <3>3. screen'.action = a /\ screen'.stage \in {"recovery", StageOf(a)}
      BY <2>1, <2>14, <3>2 DEF FactorAnswered, Screens
    <3>4. Holds => a = SecurityAction(employee)
      BY <2>1, <2>14, <3>2 DEF FactorAnswered, CallKnows
    <3>5. PageKnows'
      BY <2>1, <3>1, <3>3, <3>4, ActionsDiffer DEF PageKnows, Holds
    <3> QED BY <2>12, <3>1, <3>5
  <2>15. ASSUME NEW h \in Handlers, EmailAnswered(h)
         PROVE  Informed'
    <3>1. /\ request[h] # NoRequest /\ request' = [request EXCEPT ![h] = NoRequest]
          /\ UNCHANGED <<employee, browser>>
      BY <2>15 DEF EmailAnswered, Finish, NoRequest
    <3>2. \/ screen'.stage = screen.stage /\ screen'.action = screen.action
          \/ screen'.stage = "password" /\ employee.verified
      BY <2>1, <2>15 DEF EmailAnswered, CallKnows, Screens
    <3>3. PageKnows'
      BY <2>1, <3>1, <3>2 DEF PageKnows, Holds
    <3> QED BY <2>12, <3>1, <3>3
  <2>16. ASSUME NEW h \in Handlers, PasswordAnswered(h)
         PROVE  Informed'
    <3>1. /\ request[h] # NoRequest /\ request' = [request EXCEPT ![h] = NoRequest]
          /\ UNCHANGED <<employee, browser>> /\ screen'.stage = "complete"
      BY <2>1, <2>16 DEF PasswordAnswered, Finish, NoRequest, Screens
    <3>2. PageKnows'
      BY <2>1, <2>16, <3>1 DEF PasswordAnswered, CallKnows, PageKnows, Holds
    <3> QED BY <2>12, <3>1, <3>2
  <2>17. ASSUME NEW h \in Handlers, OnboardingCallFails(h)
         PROVE  Informed'
    <3>1. /\ request[h] # NoRequest /\ request' = [request EXCEPT ![h] = NoRequest]
          /\ UNCHANGED employee
      BY <2>17 DEF OnboardingCallFails, Finish
    <3>2. screen'.stage = "expired" \/ screen' = screen
      BY <2>1, <2>17 DEF OnboardingCallFails, To, Screens
    <3>3. Holds' => Holds
      BY <2>1, <2>17 DEF OnboardingCallFails, Holds, Browsers
    <3>4. PageKnows'
      BY <2>1, <3>1, <3>2, <3>3 DEF PageKnows
    <3> QED BY <2>12, <3>1, <3>4
  <2>18. CASE UNCHANGED onboardingVars
    BY <2>18 DEF onboardingVars, Informed, OneCall, CallKnows, PageKnows, Holds
  <2> QED BY <2>2, <2>3, <2>4, <2>5, <2>7, <2>8, <2>9, <2>10, <2>11, <2>13, <2>14, <2>15,
             <2>16, <2>17, <2>18 DEF StaffOnboardingNext
<1> QED BY <1>1, <1>2, OnboardingTypedAlways, PTL DEF StaffOnboardingSpec

(***************************************************************************)
(* Where the page says the account is complete and the session is of the   *)
(* account as it stood, nothing is left to do: an answer on its way tells  *)
(* what is still so, for only a call changes an account whose session      *)
(* holds, and there is one call at a time.                                 *)
(***************************************************************************)
THEOREM CompleteMeansSecured == StaffOnboardingSpec => []CompleteIsSecured
<1>1. Informed => CompleteIsSecured
  BY DEF Informed, PageKnows, Holds, CompleteIsSecured
<1> QED BY <1>1, InformedAlways, PTL
-----------------------------------------------------------------------------
(* Reports.                                                                *)

Statuses == {"DRAFT", "PENDING_REVIEW", "UNDER_REVIEW", "PRE_APPROVED", "CONFIRMED",
             "COMPLETED", "REJECTED", "EXPIRED", "NO_SHOW"}

RentalRows ==
  [status : Statuses, milestones : SUBSET {"UNDER_REVIEW", "PRE_APPROVED"},
   submitted : Nat, confirmed : Nat, completed : Nat, deposited : Nat]

\* What the times, milestones and status of a row say agrees.
RowAgrees(q) ==
  /\ q.status = "DRAFT" <=> q.submitted = 0
  /\ q.status = "DRAFT" => q.milestones = {}
  /\ q.status = "COMPLETED" <=> q.completed # 0
  /\ q.status \in {"CONFIRMED", "COMPLETED"} => q.confirmed # 0
  /\ q.status = "UNDER_REVIEW" => "UNDER_REVIEW" \in q.milestones
  /\ q.status = "PRE_APPROVED" => "PRE_APPROVED" \in q.milestones
  /\ "PRE_APPROVED" \in q.milestones => "UNDER_REVIEW" \in q.milestones
  /\ q.confirmed # 0 => "PRE_APPROVED" \in q.milestones

NotLater(q) ==
  q.submitted <= now /\ q.confirmed <= now /\ q.completed <= now /\ q.deposited <= now

RowsAgree ==
  /\ now \in 1..LastInstant
  /\ rental \in [Rentals -> RentalRows]
  /\ \A r \in Rentals : RowAgrees(rental[r]) /\ NotLater(rental[r])

\* What a request that goes on becomes.
GoesOn(r, q) ==
  /\ q \in RentalRows /\ RowAgrees(q) /\ NotLater(q)
  /\ rental' = [rental EXCEPT ![r] = q] /\ now' = now /\ report' = report
  /\ rental[r].status # "DRAFT" => q.submitted = rental[r].submitted
  /\ rental[r].status = "DRAFT" => q.submitted >= now - 1
  /\ rental[r].milestones \subseteq q.milestones

LEMMA RowGoesOn ==
  ASSUME RowsAgree, NEW r \in Rentals,
         \/ SubmitRental(r) \/ ReviewRental(r) \/ ApproveRental(r) \/ DepositTaken(r)
         \/ BookRental(r) \/ FinishRental(r) \/ RejectRental(r) \/ MissRental(r)
  PROVE  \E q : GoesOn(r, q)
<1>1. PICK row : row = rental[r]
  OBVIOUS
<1>2. row \in RentalRows /\ RowAgrees(row) /\ NotLater(row) /\ now \in Nat \ {0}
  BY <1>1 DEF RowsAgree
<1>3. CASE SubmitRental(r)
  <2>1. PICK at \in {now - 1, now} \ {0} :
          /\ row.status = "DRAFT" /\ now' = now /\ report' = report
          /\ rental' = [rental EXCEPT ![r].status = "PENDING_REVIEW", ![r]["submitted"] = at]
    BY <1>1, <1>3 DEF SubmitRental, Stamped
  <2>2. at \in Nat \ {0} /\ at <= now
    BY <1>2, <2>1
  <2>3. PICK q : q = [row EXCEPT !.status = "PENDING_REVIEW", !.submitted = at]
    OBVIOUS
  <2>4. rental' = [rental EXCEPT ![r] = q]
    BY <1>1, <1>2, <2>1, <2>3 DEF RentalRows
  <2>5. q \in RentalRows /\ RowAgrees(q) /\ NotLater(q)
    BY <1>2, <2>1, <2>2, <2>3 DEF RentalRows, Statuses, RowAgrees, NotLater
  <2>6. row.milestones \subseteq q.milestones /\ q.submitted >= now - 1
    BY <1>2, <2>1, <2>2, <2>3 DEF RentalRows
  <2> QED BY <1>1, <2>1, <2>4, <2>5, <2>6 DEF GoesOn
<1>4. CASE ReviewRental(r)
  <2>1. PICK q : q = [row EXCEPT !.status = "UNDER_REVIEW", !.milestones = @ \cup {"UNDER_REVIEW"}]
    OBVIOUS
  <2>2. /\ rental' = [rental EXCEPT ![r] = q] /\ now' = now /\ report' = report
        /\ row.status = "PENDING_REVIEW"
    BY <1>1, <1>2, <1>4, <2>1 DEF ReviewRental, Passes, RentalRows
  <2>3. q \in RentalRows /\ RowAgrees(q) /\ NotLater(q)
    BY <1>2, <2>1, <2>2 DEF RentalRows, Statuses, RowAgrees, NotLater
  <2>4. row.milestones \subseteq q.milestones /\ q.submitted = row.submitted
    BY <1>2, <2>1 DEF RentalRows
  <2> QED BY <1>1, <2>2, <2>3, <2>4 DEF GoesOn
<1>5. CASE ApproveRental(r)
  <2>1. PICK q : q = [row EXCEPT !.status = "PRE_APPROVED", !.milestones = @ \cup {"PRE_APPROVED"}]
    OBVIOUS
  <2>2. /\ rental' = [rental EXCEPT ![r] = q] /\ now' = now /\ report' = report
        /\ row.status = "UNDER_REVIEW"
    BY <1>1, <1>2, <1>5, <2>1 DEF ApproveRental, Passes, RentalRows
  <2>3. q \in RentalRows /\ RowAgrees(q) /\ NotLater(q)
    BY <1>2, <2>1, <2>2 DEF RentalRows, Statuses, RowAgrees, NotLater
  <2>4. row.milestones \subseteq q.milestones /\ q.submitted = row.submitted
    BY <1>2, <2>1 DEF RentalRows
  <2> QED BY <1>1, <2>2, <2>3, <2>4 DEF GoesOn
<1>6. CASE DepositTaken(r)
  <2>1. PICK at \in {now - 1, now} \ {0} :
          /\ row.status = "PRE_APPROVED" /\ now' = now /\ report' = report
          /\ rental' = [rental EXCEPT ![r].status = "PRE_APPROVED", ![r]["deposited"] = at]
    BY <1>1, <1>6 DEF DepositTaken, Stamped
  <2>2. at \in Nat \ {0} /\ at <= now
    BY <1>2, <2>1
  <2>3. PICK q : q = [row EXCEPT !.status = "PRE_APPROVED", !.deposited = at]
    OBVIOUS
  <2>4. rental' = [rental EXCEPT ![r] = q]
    BY <1>1, <1>2, <2>1, <2>3 DEF RentalRows
  <2>5. q \in RentalRows /\ RowAgrees(q) /\ NotLater(q)
    BY <1>2, <2>1, <2>2, <2>3 DEF RentalRows, Statuses, RowAgrees, NotLater
  <2>6. row.milestones \subseteq q.milestones /\ q.submitted = row.submitted
    BY <1>2, <2>3 DEF RentalRows
  <2> QED BY <1>1, <2>1, <2>4, <2>5, <2>6 DEF GoesOn
<1>7. CASE BookRental(r)
  <2>1. PICK at \in {now - 1, now} \ {0} :
          /\ row.status = "PRE_APPROVED" /\ now' = now /\ report' = report
          /\ rental' = [rental EXCEPT ![r].status = "CONFIRMED", ![r]["confirmed"] = at]
    BY <1>1, <1>7 DEF BookRental, Stamped
  <2>2. at \in Nat \ {0} /\ at <= now
    BY <1>2, <2>1
  <2>3. PICK q : q = [row EXCEPT !.status = "CONFIRMED", !.confirmed = at]
    OBVIOUS
  <2>4. rental' = [rental EXCEPT ![r] = q]
    BY <1>1, <1>2, <2>1, <2>3 DEF RentalRows
  <2>5. q \in RentalRows /\ RowAgrees(q) /\ NotLater(q)
    BY <1>2, <2>1, <2>2, <2>3 DEF RentalRows, Statuses, RowAgrees, NotLater
  <2>6. row.milestones \subseteq q.milestones /\ q.submitted = row.submitted
    BY <1>2, <2>3 DEF RentalRows
  <2> QED BY <1>1, <2>1, <2>4, <2>5, <2>6 DEF GoesOn
<1>8. CASE FinishRental(r)
  <2>1. PICK at \in {now - 1, now} \ {0} :
          /\ row.status = "CONFIRMED" /\ now' = now /\ report' = report
          /\ rental' = [rental EXCEPT ![r].status = "COMPLETED", ![r]["completed"] = at]
    BY <1>1, <1>8 DEF FinishRental, Stamped
  <2>2. at \in Nat \ {0} /\ at <= now
    BY <1>2, <2>1
  <2>3. PICK q : q = [row EXCEPT !.status = "COMPLETED", !.completed = at]
    OBVIOUS
  <2>4. rental' = [rental EXCEPT ![r] = q]
    BY <1>1, <1>2, <2>1, <2>3 DEF RentalRows
  <2>5. q \in RentalRows /\ RowAgrees(q) /\ NotLater(q)
    BY <1>2, <2>1, <2>2, <2>3 DEF RentalRows, Statuses, RowAgrees, NotLater
  <2>6. row.milestones \subseteq q.milestones /\ q.submitted = row.submitted
    BY <1>2, <2>3 DEF RentalRows
  <2> QED BY <1>1, <2>1, <2>4, <2>5, <2>6 DEF GoesOn
<1>9. CASE RejectRental(r) \/ MissRental(r)
  <2>1. PICK to \in {"REJECTED", "EXPIRED", "NO_SHOW"} :
          /\ row.status \in {"PENDING_REVIEW", "UNDER_REVIEW", "PRE_APPROVED", "CONFIRMED"}
          /\ rental' = [rental EXCEPT ![r].status = to] /\ now' = now /\ report' = report
    BY <1>1, <1>9 DEF RejectRental, MissRental, Goes
  <2>2. PICK q : q = [row EXCEPT !.status = to]
    OBVIOUS
  <2>3. rental' = [rental EXCEPT ![r] = q]
    BY <1>1, <1>2, <2>1, <2>2 DEF RentalRows
  <2>4. q \in RentalRows /\ RowAgrees(q) /\ NotLater(q)
    BY <1>2, <2>1, <2>2 DEF RentalRows, Statuses, RowAgrees, NotLater
  <2>5. row.milestones \subseteq q.milestones /\ q.submitted = row.submitted
    BY <1>2, <2>2 DEF RentalRows
  <2> QED BY <1>1, <2>1, <2>3, <2>4, <2>5 DEF GoesOn
<1> QED BY <1>3, <1>4, <1>5, <1>6, <1>7, <1>8, <1>9

\* What a report has been told, and what it will be.
DraftsKnown ==
  /\ report \in ReportRecords
  /\ report.asked \in 1..now /\ report.window \in Windows(report.asked)
  /\ report.drafts \subseteq report.waiting
  /\ \A r \in Rentals :
       /\ r \notin report.drafts => rental[r].submitted # 0
       /\ r \in report.drafts => (rental[r].submitted = 0 \/ rental[r].submitted >= report.asked - 1)
       /\ r \notin report.waiting => "PRE_APPROVED" \in rental[r].milestones

\* "rows" are those the window has by now.
AnswersAgree(rows) ==
  /\ report.cohort \subseteq rows /\ report.trend \subseteq rows /\ report.reviewed \subseteq rows
  /\ report.confirmed \subseteq report.cohort /\ report.completed \subseteq report.confirmed
  /\ report.completed \cap report.lost = {}
  /\ report.approved \subseteq report.reviewed
  /\ "COHORT" \in report.answered => rows \subseteq report.cohort \cup Straddling
  /\ "ACTIVITY" \in report.answered => rows \subseteq report.trend \cup Straddling
  /\ "MILESTONES" \in report.answered => rows \subseteq report.approved \cup report.waiting

ReportAgrees == ReportAsked => DraftsKnown /\ AnswersAgree(Cohort(report.window))

\* The rows of the window stay its rows; those that come were being submitted
\* when its end was read.
LEMMA CohortGrows ==
  ASSUME RowsAgree, DraftsKnown, NEW r \in Rentals, NEW q, GoesOn(r, q),
         NEW w, w = report.window
  PROVE  /\ Cohort(w) \subseteq Cohort(w)'
         /\ Cohort(w)' \subseteq Cohort(w) \cup Straddling
<1>1. /\ rental' \in [Rentals -> RentalRows] /\ rental'[r] = q /\ q \in RentalRows
      /\ \A s \in Rentals \ {r} : rental'[s] = rental[s]
  BY DEF RowsAgree, GoesOn
<1>2. /\ rental[r] \in RentalRows /\ (rental[r].status = "DRAFT" <=> rental[r].submitted = 0)
      /\ now \in Nat
  BY ReportsAssumption DEF RowsAgree, RowAgrees
<1>3. /\ report.asked \in Nat /\ report.asked <= now /\ ReportRange \in Nat \ {0}
      /\ w.end \in {report.asked, report.asked - ReportRange}
  BY <1>2, ReportsAssumption DEF DraftsKnown, Windows
<1>4. ASSUME rental[r].submitted # 0
      PROVE  q.submitted = rental[r].submitted
  BY <1>2, <1>4 DEF GoesOn
<1>5. Cohort(w) \subseteq Cohort(w)'
  <2> SUFFICES ASSUME NEW s \in Cohort(w) PROVE s \in Cohort(w)'
    OBVIOUS
  <2>1. s \in Rentals /\ In(rental[s].submitted, w) /\ rental[s].submitted # 0
    BY DEF Cohort, In
  <2>2. rental'[s].submitted = rental[s].submitted
    BY <1>1, <1>4, <2>1
  <2> QED BY <2>1, <2>2 DEF Cohort
<1>6. ASSUME NEW s \in Rentals, In(rental'[s].submitted, w), ~In(rental[s].submitted, w)
      PROVE  s \in Straddling
  <2>1. s = r /\ rental[r].status = "DRAFT" /\ rental[r].submitted = 0
    BY <1>1, <1>2, <1>4, <1>6
  <2>2. r \in report.drafts
    BY <2>1 DEF DraftsKnown
  <2>3. q.submitted >= now - 1 /\ q.submitted \in Nat /\ q.submitted < w.end
    BY <1>1, <1>6, <2>1 DEF GoesOn, RentalRows, In
  <2>4. w.end = report.asked
    BY <1>2, <1>3, <2>3
  <2> QED BY <2>1, <2>2, <2>4 DEF Straddling
<1>7. Cohort(w)' \subseteq Cohort(w) \cup Straddling
  BY <1>6 DEF Cohort
<1> QED BY <1>5, <1>7

LEMMA RequestsGoOn ==
  ASSUME RowsAgree, ReportAgrees, NEW r \in Rentals, NEW q, GoesOn(r, q)
  PROVE  RowsAgree' /\ ReportAgrees'
<1>1. /\ q \in RentalRows /\ RowAgrees(q) /\ NotLater(q)
      /\ rental' = [rental EXCEPT ![r] = q] /\ now' = now /\ report' = report
  BY DEF GoesOn
<1>2. /\ now \in 1..LastInstant /\ rental \in [Rentals -> RentalRows]
      /\ \A s \in Rentals : /\ RowAgrees(rental[s]) /\ NotLater(rental[s])
                            /\ rental[s] \in RentalRows
  BY DEF RowsAgree
<1>3. /\ rental' \in [Rentals -> RentalRows] /\ rental'[r] = q
      /\ \A s \in Rentals \ {r} : rental'[s] = rental[s]
  BY <1>1, <1>2
<1>4. RowsAgree'
  <2>1. \A s \in Rentals : RowAgrees(rental'[s])
    BY <1>1, <1>2, <1>3
  <2>2. \A s \in Rentals : NotLater(rental[s])'
    BY <1>1, <1>2, <1>3 DEF NotLater
  <2> QED BY <1>1, <1>2, <1>3, <2>1, <2>2 DEF RowsAgree
<1>5. ASSUME ReportAsked
      PROVE  DraftsKnown' /\ AnswersAgree(Cohort(report.window))'
  <2>1. DraftsKnown /\ AnswersAgree(Cohort(report.window))
    BY <1>5 DEF ReportAgrees
  <2>2. PICK w : w = report.window
    OBVIOUS
  <2>3. /\ Cohort(w) \subseteq Cohort(w)'
        /\ Cohort(w)' \subseteq Cohort(w) \cup Straddling
    BY <2>1, <2>2, CohortGrows
  <2>4. ASSUME NEW s \in Rentals
        PROVE  /\ s \notin report.drafts => rental'[s].submitted # 0
               /\ s \in report.drafts
                    => (rental'[s].submitted = 0 \/ rental'[s].submitted >= report.asked - 1)
               /\ s \notin report.waiting => "PRE_APPROVED" \in rental'[s].milestones
    <3>1. CASE s # r
      BY <1>3, <2>1, <3>1 DEF DraftsKnown
    <3>2. CASE s = r
      <4>1. /\ r \notin report.drafts => rental[r].submitted # 0
            /\ r \in report.drafts
                 => (rental[r].submitted = 0 \/ rental[r].submitted >= report.asked - 1)
            /\ r \notin report.waiting => "PRE_APPROVED" \in rental[r].milestones
            /\ report.asked \in 1..now
        BY <2>1 DEF DraftsKnown
      <4>2. rental[r].status = "DRAFT" <=> rental[r].submitted = 0
        BY <1>2 DEF RowAgrees
      <4>3. /\ rental[r].milestones \subseteq q.milestones
            /\ rental[r].status # "DRAFT" => q.submitted = rental[r].submitted
            /\ rental[r].status = "DRAFT" => q.submitted >= now - 1
        BY DEF GoesOn
      <4>4. "PRE_APPROVED" \in rental[r].milestones => rental[r].submitted # 0
        BY <1>2 DEF RowAgrees
      <4>5. q.submitted \in Nat /\ rental[r].submitted \in Nat /\ now \in Nat
        BY <1>1, <1>2, ReportsAssumption DEF RentalRows
      <4>6. rental'[s] = q
        BY <1>3, <3>2
      <4> QED BY <3>2, <4>1, <4>2, <4>3, <4>4, <4>5, <4>6
    <3> QED BY <3>1, <3>2
  <2>5. DraftsKnown'
    BY <1>1, <2>1, <2>4 DEF DraftsKnown
  <2>6. Straddling \subseteq report.waiting
    BY <2>1 DEF Straddling, DraftsKnown
  <2>7. AnswersAgree(Cohort(w))
    BY <2>1, <2>2
  <2>8. AnswersAgree(Cohort(w))'
    BY <1>1, <2>3, <2>6, <2>7 DEF AnswersAgree, Straddling
  <2>9. report'.window = w
    BY <1>1, <2>2
  <2>10. Cohort(report.window)' = Cohort(w)'
    BY <2>9 DEF Cohort
  <2>11. AnswersAgree(Cohort(report.window))'
    BY <2>8, <2>10 DEF AnswersAgree
  <2> QED BY <2>5, <2>11
<1>6. ReportAgrees'
  <2>1. ReportAsked' <=> ReportAsked
    BY <1>1 DEF ReportAsked
  <2> QED BY <1>5, <2>1 DEF ReportAgrees
<1> QED BY <1>4, <1>6

LEMMA ReportAskedAgrees ==
  ASSUME RowsAgree, NEW w \in Windows(now), AskReport(w)
  PROVE  DraftsKnown' /\ AnswersAgree(Cohort(report.window))'
<1>1. /\ now' = now /\ rental' = rental /\ now \in Nat /\ now >= 1
      /\ \A r \in Rentals : RowAgrees(rental[r]) /\ rental[r] \in RentalRows
  BY ReportsAssumption DEF RowsAgree, AskReport
<1>2. PICK D, W : D = InStatus(Rentals, {"DRAFT"}) /\ W = Rentals \ Passed(Rentals, "PRE_APPROVED")
  OBVIOUS
<1>3. report' = [asked |-> now, window |-> w, answered |-> {}, drafts |-> D, waiting |-> W,
                cohort |-> {}, confirmed |-> {}, completed |-> {}, lost |-> {},
                trend |-> {}, reviewed |-> {}, approved |-> {}]
  BY <1>2 DEF AskReport
<1>4. /\ D \subseteq Rentals /\ W \subseteq Rentals /\ D \subseteq W
  BY <1>1, <1>2 DEF InStatus, Passed, RowAgrees
<1>5. w \in [start : Int, end : Int]
  BY <1>1, ReportsAssumption DEF Windows
<1>6. report' \in ReportRecords
  BY <1>1, <1>3, <1>4, <1>5 DEF ReportRecords
<1>7. \A r \in Rentals :
        /\ r \notin D => rental[r].submitted # 0
        /\ r \in D => rental[r].submitted = 0
        /\ r \notin W => "PRE_APPROVED" \in rental[r].milestones
  BY <1>1, <1>2 DEF InStatus, Passed, RowAgrees
<1>8. DraftsKnown'
  <2>1. /\ report'.asked = now /\ report'.window = w /\ report'.drafts = D
        /\ report'.waiting = W
    BY <1>3
  <2>2. (report.window \in Windows(report.asked))'
    BY <1>1, <2>1 DEF Windows
  <2> QED BY <1>1, <1>4, <1>6, <1>7, <2>1, <2>2 DEF DraftsKnown
<1>9. AnswersAgree(Cohort(report.window))'
  BY <1>3 DEF AnswersAgree
<1> QED BY <1>8, <1>9

LEMMA QueryAnswered ==
  ASSUME RowsAgree, DraftsKnown, AnswersAgree(Cohort(report.window)),
         CohortAnswered \/ ActivityAnswered \/ MilestonesAnswered
  PROVE  DraftsKnown' /\ AnswersAgree(Cohort(report.window))'
<1>1. PICK w, rows : w = report.window /\ rows = Cohort(w)
  OBVIOUS
<1>2. /\ rows \subseteq Rentals /\ report \in ReportRecords
      /\ \A r \in Rentals : RowAgrees(rental[r])
  BY <1>1 DEF Cohort, DraftsKnown, RowsAgree
<1>3. now' = now /\ rental' = rental
  BY DEF CohortAnswered, ActivityAnswered, MilestonesAnswered
<1>4. \A r \in rows \ report.waiting : "PRE_APPROVED" \in rental[r].milestones
  BY <1>2 DEF DraftsKnown
<1>5. AnswersAgree(rows)
  BY <1>1
<1>6. /\ report' \in ReportRecords
      /\ report'.asked = report.asked /\ report'.window = w
      /\ report'.drafts = report.drafts /\ report'.waiting = report.waiting
      /\ AnswersAgree(rows)'
  <2>1. CASE CohortAnswered
    <3>1. PICK C, D, L : C = Having(rows, "confirmed") /\ D = Having(rows, "completed")
            /\ L = InStatus(rows, {"REJECTED", "EXPIRED", "CANCELLED", "NO_SHOW"})
      OBVIOUS
    <3>2. report' = [report EXCEPT !.answered = @ \cup {"COHORT"}, !.cohort = rows,
                       !.confirmed = C, !.completed = D, !.lost = L]
      BY <1>1, <2>1, <3>1 DEF CohortAnswered
    <3>3. /\ C \subseteq rows /\ D \subseteq C /\ D \cap L = {} /\ L \subseteq rows
      BY <1>2, <3>1 DEF Having, InStatus, RowAgrees
    <3>4. report' \in ReportRecords
      BY <1>2, <3>2, <3>3 DEF ReportRecords, Queries
    <3>5. /\ report'.asked = report.asked /\ report'.window = report.window
          /\ report'.drafts = report.drafts /\ report'.waiting = report.waiting
          /\ report'.answered = report.answered \cup {"COHORT"} /\ report'.cohort = rows
          /\ report'.confirmed = C /\ report'.completed = D /\ report'.lost = L
          /\ report'.trend = report.trend /\ report'.reviewed = report.reviewed
          /\ report'.approved = report.approved
      BY <1>2, <3>2 DEF ReportRecords
    <3>6. AnswersAgree(rows)'
      BY <1>5, <3>3, <3>5 DEF AnswersAgree, Straddling
    <3> QED BY <1>1, <3>4, <3>5, <3>6
  <2>2. CASE ActivityAnswered
    <3>1. Dated(Activity(w), "submitted", w) = rows
      BY <1>1 DEF Dated, Counted, Activity, Cohort
    <3>2. report' = [report EXCEPT !.answered = @ \cup {"ACTIVITY"}, !.trend = rows]
      BY <1>1, <2>2, <3>1 DEF ActivityAnswered
    <3>3. report' \in ReportRecords
      BY <1>2, <3>2 DEF ReportRecords, Queries
    <3>4. /\ report'.asked = report.asked /\ report'.window = report.window
          /\ report'.drafts = report.drafts /\ report'.waiting = report.waiting
          /\ report'.answered = report.answered \cup {"ACTIVITY"} /\ report'.trend = rows
          /\ report'.cohort = report.cohort /\ report'.reviewed = report.reviewed
          /\ report'.confirmed = report.confirmed /\ report'.completed = report.completed
          /\ report'.lost = report.lost /\ report'.approved = report.approved
      BY <1>2, <3>2 DEF ReportRecords
    <3>5. AnswersAgree(rows)'
      BY <1>5, <3>4 DEF AnswersAgree, Straddling
    <3> QED BY <1>1, <3>3, <3>4, <3>5
  <2>3. CASE MilestonesAnswered
    <3>1. PICK U, P : U = Passed(rows, "UNDER_REVIEW") /\ P = Passed(rows, "PRE_APPROVED")
      OBVIOUS
    <3>2. report' = [report EXCEPT !.answered = @ \cup {"MILESTONES"},
                       !.reviewed = U, !.approved = P]
      BY <1>1, <2>3, <3>1 DEF MilestonesAnswered
    <3>3. /\ U \subseteq rows /\ P \subseteq U /\ rows \subseteq P \cup report.waiting
      BY <1>2, <1>4, <3>1 DEF Passed, RowAgrees
    <3>4. report' \in ReportRecords
      BY <1>2, <3>2, <3>3 DEF ReportRecords, Queries
    <3>5. /\ report'.asked = report.asked /\ report'.window = report.window
          /\ report'.drafts = report.drafts /\ report'.waiting = report.waiting
          /\ report'.answered = report.answered \cup {"MILESTONES"}
          /\ report'.reviewed = U /\ report'.approved = P
          /\ report'.cohort = report.cohort /\ report'.trend = report.trend
          /\ report'.confirmed = report.confirmed /\ report'.completed = report.completed
          /\ report'.lost = report.lost
      BY <1>2, <3>2 DEF ReportRecords
    <3>6. AnswersAgree(rows)'
      BY <1>5, <3>3, <3>5 DEF AnswersAgree, Straddling
    <3> QED BY <1>1, <3>4, <3>5, <3>6
  <2> QED BY <2>1, <2>2, <2>3
<1>7. DraftsKnown'
  BY <1>1, <1>3, <1>6 DEF DraftsKnown, Windows
<1>8. Cohort(report.window)' = rows
  BY <1>1, <1>3, <1>6 DEF Cohort
<1>9. AnswersAgree(Cohort(report.window))'
  BY <1>6, <1>8 DEF AnswersAgree
<1> QED BY <1>7, <1>9

LEMMA ReportsAgreeAlways == ReportsSpec => [](RowsAgree /\ ReportAgrees)
<1>0. LastInstant \in Nat \ {0}
  BY ReportsAssumption
<1>1. ReportsInit => RowsAgree /\ ReportAgrees
  <2> SUFFICES ASSUME ReportsInit PROVE RowsAgree /\ ReportAgrees
    OBVIOUS
  <2>1. PICK q : q = [status |-> "DRAFT", milestones |-> {},
                     submitted |-> 0, confirmed |-> 0, completed |-> 0, deposited |-> 0]
    OBVIOUS
  <2>2. rental = [r \in Rentals |-> q] /\ now \in 1..LastInstant /\ now = 1
    BY <1>0, <2>1 DEF ReportsInit
  <2>3. q \in RentalRows /\ RowAgrees(q) /\ NotLater(q)
    BY <2>1, <2>2 DEF RentalRows, Statuses, RowAgrees, NotLater
  <2>4. RowsAgree
    BY <2>2, <2>3 DEF RowsAgree
  <2>5. ~ReportAsked
    BY DEF ReportsInit, NoReport, ReportAsked
  <2> QED BY <2>4, <2>5 DEF ReportAgrees
<1>2. RowsAgree /\ ReportAgrees /\ [ReportsNext]_reportVars => (RowsAgree /\ ReportAgrees)'
  <2> SUFFICES ASSUME RowsAgree, ReportAgrees, [ReportsNext]_reportVars
               PROVE  RowsAgree' /\ ReportAgrees'
    OBVIOUS
  <2>1. CASE ReportDayPasses
    <3>1. /\ now \in Nat /\ now' \in 1..LastInstant /\ now <= now' /\ now' \in Nat
          /\ rental' = rental /\ report' = report
      BY <1>0, <2>1 DEF ReportDayPasses, RowsAgree
    <3>2. \A r \in Rentals : NotLater(rental[r])'
      BY <3>1 DEF NotLater, RentalRows, RowsAgree
    <3>3. RowsAgree'
      BY <3>1, <3>2 DEF RowsAgree
    <3>4. ASSUME ReportAsked
          PROVE  DraftsKnown' /\ AnswersAgree(Cohort(report.window))'
      <4>1. DraftsKnown /\ AnswersAgree(Cohort(report.window))
        BY <3>4 DEF ReportAgrees
      <4>2. DraftsKnown'
        BY <3>1, <4>1 DEF DraftsKnown, Windows
      <4>3. Cohort(report.window)' = Cohort(report.window)
        BY <3>1 DEF Cohort
      <4> QED BY <3>1, <4>1, <4>2, <4>3 DEF AnswersAgree, Straddling
    <3>5. ReportAgrees'
      BY <3>1, <3>4 DEF ReportAgrees, ReportAsked
    <3> QED BY <3>3, <3>5
  <2>2. ASSUME NEW r \in Rentals,
               \/ SubmitRental(r) \/ ReviewRental(r) \/ ApproveRental(r) \/ DepositTaken(r)
               \/ BookRental(r) \/ FinishRental(r) \/ RejectRental(r) \/ MissRental(r)
        PROVE  RowsAgree' /\ ReportAgrees'
    <3>1. PICK q : GoesOn(r, q)
      BY <2>2, RowGoesOn
    <3> QED BY <3>1, RequestsGoOn
  <2>3. ASSUME NEW w \in Windows(now), AskReport(w)
        PROVE  RowsAgree' /\ ReportAgrees'
    <3>1. now' = now /\ rental' = rental
      BY <2>3 DEF AskReport
    <3>2. RowsAgree'
      BY <3>1 DEF RowsAgree, NotLater
    <3>3. ReportAgrees'
      BY <2>3, ReportAskedAgrees DEF ReportAgrees
    <3> QED BY <3>2, <3>3
  <2>4. CASE CohortAnswered \/ ActivityAnswered \/ MilestonesAnswered
    <3>1. now' = now /\ rental' = rental /\ ReportAsked
      BY <2>4 DEF CohortAnswered, ActivityAnswered, MilestonesAnswered, Unanswered
    <3>2. RowsAgree'
      BY <3>1 DEF RowsAgree, NotLater
    <3>3. DraftsKnown /\ AnswersAgree(Cohort(report.window))
      BY <3>1 DEF ReportAgrees
    <3>4. ReportAgrees'
      BY <2>4, <3>3, QueryAnswered DEF ReportAgrees
    <3> QED BY <3>2, <3>4
  <2>5. CASE UNCHANGED reportVars
    <3>1. now' = now /\ rental' = rental /\ report' = report
      BY <2>5 DEF reportVars
    <3>2. RowsAgree'
      BY <3>1 DEF RowsAgree, NotLater
    <3>3. DraftsKnown' <=> DraftsKnown
      BY <3>1 DEF DraftsKnown, Windows
    <3>4. AnswersAgree(Cohort(report.window))' <=> AnswersAgree(Cohort(report.window))
      BY <3>1 DEF AnswersAgree, Cohort, Straddling
    <3>5. ReportAgrees'
      BY <3>1, <3>3, <3>4 DEF ReportAgrees, ReportAsked
    <3> QED BY <3>2, <3>5
  <2> QED BY <2>1, <2>2, <2>3, <2>4, <2>5 DEF ReportsNext
<1> QED BY <1>1, <1>2, PTL DEF ReportsSpec

(***************************************************************************)
(* What is counted has times that have passed, a request has been          *)
(* submitted exactly if it is no draft, and a report in the reading is of  *)
(* a window that ended when it was asked for, or one window before.        *)
(***************************************************************************)
THEOREM ReportsTypeCorrect == ReportsSpec => []ReportsTypeOK
<1>1. ASSUME RowsAgree, ReportAgrees PROVE ReportsTypeOK
  <2>1. \A r \in Rentals : \A f \in Times : rental[r][f] \in 0..now
    BY <1>1, ReportsAssumption DEF RowsAgree, NotLater, RentalRows, Times
  <2>2. /\ now \in 1..LastInstant
        /\ \A r \in Rentals : rental[r].status = "DRAFT" <=> rental[r].submitted = 0
    BY <1>1 DEF RowsAgree, RowAgrees
  <2>3. ReportAsked =>
          /\ report \in ReportRecords
          /\ report.asked <= now /\ report.window \in Windows(report.asked)
    BY <1>1, <2>2, ReportsAssumption DEF ReportAgrees, DraftsKnown
  <2> QED BY <2>1, <2>2, <2>3 DEF ReportsTypeOK
<1> QED BY <1>1, ReportsAgreeAlways, PTL

LEMMA AnswersFit ==
  ASSUME ReportAgrees, ReportAsked
  PROVE  FunnelNarrows /\ TrendIsOfCohort
BY DEF ReportAgrees, AnswersAgree, FunnelNarrows, TrendIsOfCohort
-----------------------------------------------------------------------------
(* Sums as numbers of pairs: the parts of a set of rows add up to it.      *)

LEMMA UnitIs ==
  ASSUME NEW points, NEW x
  PROVE  x \in Units(points)
           <=> \E p \in DOMAIN points : \E i \in 1..points[p] : x = <<p, i>>
BY DEF Units

LEMMA PartsAddUp ==
  ASSUME NEW rows, IsFiniteSet(rows), NEW P, NEW key \in [rows -> P]
  PROVE  Total([p \in P |-> Cardinality({r \in rows : key[r] = p})]) = Cardinality(rows)
<1> DEFINE Part(p) == {r \in rows : key[r] = p}
           points == [p \in P |-> Cardinality(Part(p))]
           nth == [p \in P |-> CHOOSE f : f \in Bijection(1..points[p], Part(p))]
           row == [x \in Units(points) |-> nth[x[1]][x[2]]]
<1>1. ASSUME NEW p \in P
      PROVE  points[p] \in Nat /\ nth[p] \in Bijection(1..points[p], Part(p))
  <2>1. IsFiniteSet(Part(p))
    <3>1. Part(p) \in SUBSET rows
      OBVIOUS
    <3> QED BY <3>1, FS_Subset
  <2>2. points[p] \in Nat /\ ExistsBijection(1..points[p], Part(p))
    BY <2>1, FS_CardinalityType
  <2>3. \E f : f \in Bijection(1..points[p], Part(p))
    BY <2>2 DEF ExistsBijection
  <2> QED BY <2>2, <2>3
<1> HIDE DEF points, nth
<1>2. DOMAIN points = P
  BY DEF points
<1>3. ASSUME NEW x \in Units(points)
      PROVE  /\ x = <<x[1], x[2]>> /\ x[1] \in P /\ x[2] \in 1..points[x[1]]
             /\ row[x] \in Part(x[1])
  <2>1. PICK p \in P : \E i \in 1..points[p] : x = <<p, i>>
    BY <1>2, UnitIs
  <2>2. PICK i \in 1..points[p] : x = <<p, i>>
    BY <2>1
  <2>3. nth[p][i] \in Part(p)
    BY <1>1, <2>2 DEF Bijection, Injection, IsInjective
  <2>4. x[1] = p /\ x[2] = i
    BY <2>2
  <2>5. row[x] = nth[p][i]
    BY <2>4
  <2> QED BY <2>2, <2>3, <2>4, <2>5
<1>4. row \in [Units(points) -> rows]
  BY <1>3
<1>5. ASSUME NEW x \in Units(points), NEW y \in Units(points), row[x] = row[y]
      PROVE  x = y
  <2>1. x[1] = y[1]
    BY <1>3, <1>5
  <2>2. PICK p : p = x[1]
    OBVIOUS
  <2>6. PICK i, j : i = x[2] /\ j = y[2]
    OBVIOUS
  <2>7. x = <<p, i>> /\ y = <<p, j>> /\ p \in P /\ i \in 1..points[p] /\ j \in 1..points[p]
    BY <1>3, <2>1, <2>2, <2>6
  <2>3. row[x] = nth[p][i] /\ row[y] = nth[p][j]
    BY <2>2, <2>6, <2>1
  <2>4. \A a, b \in 1..points[p] : nth[p][a] = nth[p][b] => a = b
    BY <1>1, <2>7 DEF Bijection, Injection, IsInjective
  <2>5. i = j
    BY <1>5, <2>3, <2>4, <2>7
  <2> QED BY <2>5, <2>7
<1>6. ASSUME NEW r \in rows
      PROVE  \E x \in Units(points) : row[x] = r
  <2>1. PICK p \in P : p = key[r] /\ r \in Part(p)
    OBVIOUS
  <2>2. PICK i \in 1..points[p] : nth[p][i] = r
    BY <1>1, <2>1 DEF Bijection, Surjection
  <2>3. <<p, i>> \in Units(points)
    BY <1>2, <2>2, UnitIs
  <2>4. row[<<p, i>>] = r
    BY <2>2, <2>3
  <2> QED BY <2>3, <2>4
<1>7. row \in Injection(Units(points), rows) /\ row \in Surjection(Units(points), rows)
  BY <1>4, <1>5, <1>6 DEF Injection, Surjection, IsInjective
<1> HIDE DEF row
<1>8. Cardinality(Units(points)) = Cardinality(rows)
  BY <1>7, FS_Injection
<1> QED BY <1>8 DEF Total, Units, points

LEMMA MaxOfTwo ==
  ASSUME NEW a \in Int, NEW b \in Int
  PROVE  /\ Sets!Max({a, b}) \in {a, b}
         /\ Sets!Max({a, b}) >= a /\ Sets!Max({a, b}) >= b
<1>1. \E x \in {a, b} : \A y \in {a, b} : x >= y
  OBVIOUS
<1>2. PICK m : m = Sets!Max({a, b})
  OBVIOUS
<1>3. m \in {a, b} /\ \A y \in {a, b} : m >= y
  BY <1>1, <1>2 DEF Sets!Max
<1> QED BY <1>2, <1>3

LEMMA MinOfTwo ==
  ASSUME NEW a \in Int, NEW b \in Int
  PROVE  /\ Sets!Min({a, b}) \in {a, b}
         /\ Sets!Min({a, b}) <= a /\ Sets!Min({a, b}) <= b
<1>1. \E x \in {a, b} : \A y \in {a, b} : x <= y
  OBVIOUS
<1>2. PICK m : m = Sets!Min({a, b})
  OBVIOUS
<1>3. m \in {a, b} /\ \A y \in {a, b} : m <= y
  BY <1>1, <1>2 DEF Sets!Min
<1> QED BY <1>2, <1>3

\* A quotient is compared by the product.
LEMMA DivIsBetween ==
  ASSUME NEW a \in Int, NEW L \in Nat \ {0}, NEW d \in Int
  PROVE  /\ a \div L \in Int
         /\ a >= d * L <=> a \div L >= d
<1>1. PICK q, s : q = a \div L /\ s = a % L
  OBVIOUS
<1>2. q \in Int /\ s \in 0..(L - 1) /\ a = L * q + s
  BY <1>1
<1>3. ASSUME q >= d PROVE a >= d * L
  <2>1. PICK e \in Nat : q = d + e
    BY <1>2, <1>3
  <2>2. a = L * d + L * e + s /\ L * e \in Nat /\ L * d \in Int /\ L * d = d * L
    BY <1>2, <2>1
  <2> QED BY <1>2, <2>2
<1>4. ASSUME q < d PROVE a < d * L
  <2>1. PICK e \in Nat : d = q + 1 + e
    BY <1>2, <1>4
  <2>2. /\ d * L = L * q + L + L * e /\ L * e \in Nat /\ L * q \in Int
    BY <1>2, <2>1
  <2> QED BY <1>2, <2>2
<1> QED BY <1>1, <1>2, <1>3, <1>4

\* Where a time falls in its window is a point of the trend.
LEMMA BucketIsPoint ==
  ASSUME NEW at \in Int, NEW w, w.start \in Int, w.end \in Int, In(at, w)
  PROVE  Bucket(at, w) \in Points(w)
<1>0. BucketSize \in Nat \ {0}
  BY ReportsAssumption
<1>1. PICK n : n = w.end - w.start + BucketSize - 1
  OBVIOUS
<1>2. n \in Int /\ n >= BucketSize
  BY <1>0, <1>1 DEF In
<1>3. PICK k : k = n \div BucketSize - 1
  OBVIOUS
<1>4. n \div BucketSize \in Int /\ n \div BucketSize >= 1
  BY <1>0, <1>2, DivIsBetween
<1>5. k \in Nat /\ Points(w) = 0..k
  BY <1>1, <1>3, <1>4 DEF Points
<1>6. PICK last : last = Sets!Max(Points(w))
  OBVIOUS
<1>7. \E x \in 0..k : \A y \in 0..k : x >= y
  BY <1>5
<1>8. last \in 0..k /\ \A y \in 0..k : last >= y
  BY <1>5, <1>6, <1>7 DEF Sets!Max
<1>9. PICK b : b = (at - w.start) \div BucketSize
  OBVIOUS
<1>10. b \in Int
  BY <1>0, <1>9, DivIsBetween
<1>11. PICK c : c = Sets!Max({0, b})
  OBVIOUS
<1>12. c \in Nat
  <2>1. PICK zero \in Int : zero = 0
    OBVIOUS
  <2>2. Sets!Max({zero, b}) \in {zero, b} /\ Sets!Max({zero, b}) >= zero
    BY <1>10, MaxOfTwo
  <2>3. c \in {zero, b} /\ c >= zero
    BY <1>11, <2>1, <2>2
  <2> QED BY <1>10, <2>1, <2>3
<1>13. PICK e : e = Sets!Min({last, c})
  OBVIOUS
<1>14. e \in {last, c} /\ e <= last
  BY <1>8, <1>12, <1>13, MinOfTwo
<1>15. e \in 0..k
  BY <1>5, <1>8, <1>12, <1>14
<1>16. Bucket(at, w) = e
  BY <1>6, <1>9, <1>11, <1>13 DEF Bucket
<1> QED BY <1>5, <1>15, <1>16

LEMMA TimesAreTimes ==
  ASSUME RowsAgree, NEW r \in Rentals, NEW f \in Times
  PROVE  rental[r][f] \in Nat /\ rental[r][f] <= now
BY DEF RowsAgree, NotLater, RentalRows, Times

LEMMA TrendCounts ==
  ASSUME RowsAgree, NEW rows \in SUBSET Rentals, NEW field \in Times,
         NEW w, w.start \in Int, w.end \in Int
  PROVE  Total(Trend(rows, field, w)) = Cardinality({r \in rows : In(rental[r][field], w)})
<1> DEFINE counted == {r \in rows : In(rental[r][field], w)}
           key == [r \in counted |-> Bucket(rental[r][field], w)]
<1>1. IsFiniteSet(counted)
  <2>1. counted \in SUBSET Rentals /\ IsFiniteSet(Rentals)
    BY ReportsAssumption
  <2> QED BY <2>1, FS_Subset
<1>2. key \in [counted -> Points(w)]
  <2>1. ASSUME NEW r \in counted PROVE Bucket(rental[r][field], w) \in Points(w)
    <3>1. rental[r][field] \in Int
      BY TimesAreTimes
    <3> QED BY <3>1, BucketIsPoint
  <2> QED BY <2>1
<1>3. ASSUME NEW p \in Points(w)
      PROVE  {r \in Dated(rows, field, w) : Bucket(rental[r][field], w) = p}
               = {r \in counted : key[r] = p}
  BY DEF Dated, Counted
<1>4. Trend(rows, field, w) = [p \in Points(w) |-> Cardinality({r \in counted : key[r] = p})]
  BY <1>3 DEF Trend
<1> HIDE DEF counted, key
<1>5. Total(Trend(rows, field, w)) = Cardinality(counted)
  BY <1>1, <1>2, <1>4, PartsAddUp
<1> QED BY <1>5 DEF counted

LEMMA WindowsAreWindows ==
  ASSUME NEW end \in Int, NEW w \in Windows(end)
  PROVE  w.start \in Int /\ w.end \in Int /\ w.end = w.start + ReportRange
BY ReportsAssumption DEF Windows

LEMMA TrendsCount ==
  ASSUME RowsAgree, NEW end \in Int, NEW w \in Windows(end)
  PROVE  TrendsAddUp(w)
<1>1. w.start \in Int /\ w.end \in Int
  BY WindowsAreWindows
<1>2. /\ Activity(w) \in SUBSET Rentals /\ Deposits(w) \in SUBSET Rentals
      /\ {"submitted", "completed", "deposited"} \subseteq Times
  BY DEF Activity, Deposits, Times
<1>3. \A f \in {"submitted", "completed"} :
        Total(Trend(Activity(w), f, w)) = Cardinality({r \in Activity(w) : In(rental[r][f], w)})
  BY <1>1, <1>2, TrendCounts
<1>4. Total(Trend(Deposits(w), "deposited", w)) = Cardinality(Deposits(w))
  <2>1. {r \in Deposits(w) : In(rental[r]["deposited"], w)} = Deposits(w)
    BY DEF Deposits
  <2>2. Total(Trend(Deposits(w), "deposited", w))
          = Cardinality({r \in Deposits(w) : In(rental[r]["deposited"], w)})
    BY <1>1, <1>2, TrendCounts
  <2> QED BY <2>1, <2>2
<1> QED BY <1>3, <1>4 DEF TrendsAddUp

LEMMA OverviewCounts ==
  ASSUME RowsAgree, NEW field \in Times, NEW asked \in Nat
  PROVE  OverviewAddsUp(field, asked)
<1>0. /\ DayLength \in Nat \ {0} /\ TrendDays \in Nat \ {0}
  BY ReportsAssumption
<1>1. PICK today : today = DayOf(asked)
  OBVIOUS
<1>2. today \in Int
  BY <1>0, <1>1, DivIsBetween DEF DayOf
<1>3. PICK first : first = today - TrendDays + 1
  OBVIOUS
<1>4. first \in Int
  BY <1>0, <1>2, <1>3
<1> DEFINE counted == {r \in Rentals :
                        /\ rental[r][field] # 0
                        /\ first * DayLength <= rental[r][field]
                        /\ rental[r][field] < (today + 1) * DayLength}
           key == [r \in counted |-> DayOf(rental[r][field])]
<1>5. IsFiniteSet(counted)
  <2>1. counted \in SUBSET Rentals /\ IsFiniteSet(Rentals)
    BY ReportsAssumption
  <2> QED BY <2>1, FS_Subset
<1>6. ASSUME NEW r \in Rentals
      PROVE  /\ DayOf(rental[r][field]) \in Int
             /\ first * DayLength <= rental[r][field] <=> first <= DayOf(rental[r][field])
             /\ rental[r][field] < (today + 1) * DayLength <=> DayOf(rental[r][field]) <= today
  <2>1. PICK at \in Nat : at = rental[r][field]
    BY TimesAreTimes
  <2>2. at \div DayLength \in Int /\ (at >= first * DayLength <=> at \div DayLength >= first)
    BY <1>0, <1>4, <2>1, DivIsBetween
  <2>3. at >= (today + 1) * DayLength <=> at \div DayLength >= today + 1
    BY <1>0, <1>2, <2>1, DivIsBetween
  <2>4. PICK low, high \in Int : low = first * DayLength /\ high = (today + 1) * DayLength
    BY <1>0, <1>2, <1>4
  <2>5. /\ low <= at <=> first <= at \div DayLength
        /\ at < high <=> at \div DayLength <= today
    BY <1>2, <1>4, <2>1, <2>2, <2>3, <2>4
  <2> QED BY <2>1, <2>2, <2>4, <2>5 DEF DayOf
<1>7. key \in [counted -> first..today]
  BY <1>2, <1>4, <1>6
<1>8. ASSUME NEW d \in first..today
      PROVE  {r \in Rentals : rental[r][field] # 0 /\ DayOf(rental[r][field]) = d}
               = {r \in counted : key[r] = d}
  <2>1. d \in Int /\ first <= d /\ d <= today
    BY <1>2, <1>4
  <2>2. \A r \in Rentals :
          DayOf(rental[r][field]) = d
            => /\ first * DayLength <= rental[r][field]
               /\ rental[r][field] < (today + 1) * DayLength
    BY <1>6, <2>1
  <2> QED BY <2>2
<1>9. OverviewTrend(field, asked) = [d \in first..today |-> Cardinality({r \in counted : key[r] = d})]
  BY <1>1, <1>3, <1>8 DEF OverviewTrend, OverviewDays
<1> HIDE DEF key, counted
<1>10. Total(OverviewTrend(field, asked)) = Cardinality(counted)
  <2>1. PICK days : days = first..today
    OBVIOUS
  <2>2. key \in [counted -> days]
    BY <1>7, <2>1
  <2>3. OverviewTrend(field, asked) = [d \in days |-> Cardinality({r \in counted : key[r] = d})]
    BY <1>9, <2>1
  <2> QED BY <1>5, <2>2, <2>3, PartsAddUp
<1> QED BY <1>1, <1>3, <1>10 DEF OverviewAddsUp, counted

LEMMA TodayIsOneDay == TodayIsWhole
<1> SUFFICES ASSUME NEW n \in CalendarHours, NEW h \in CalendarHours
             PROVE  h \in CairoDay(n) <=> CairoDate(h) = CairoDate(n)
  BY DEF TodayIsWhole
<1> QED BY DEF CalendarHours, CairoDay, CairoDate, CairoLocalMidnight, CairoOffset

(***************************************************************************)
(* The figures of a report agree, whatever requests do while it is read,   *)
(* in whatever order its queries are answered and however windows, points  *)
(* and days are cut: a trend adds up to the figure of its own query        *)
(* (buildReportTrend), cohort, trend and funnel agree but for what was not *)
(* committed when the report was asked for, the days of the overview are   *)
(* those of its requests, and today is the hours of one date, also when    *)
(* the clocks are shifted (cairoDayBounds).                                *)
(***************************************************************************)
THEOREM ReportsAddUp == ReportsSpec => []ReportAddsUp
<1>1. ASSUME RowsAgree, ReportAgrees PROVE ReportAddsUp
  <2>1. now \in Nat
    BY <1>1, ReportsAssumption DEF RowsAgree
  <2>2. ASSUME NEW asked \in 1..now
        PROVE  /\ \A w \in Windows(asked) : TrendsAddUp(w)
               /\ \A f \in {"submitted", "completed"} : OverviewAddsUp(f, asked)
    <3>1. asked \in Nat /\ asked \in Int
      BY <2>1
    <3>2. \A w \in Windows(asked) : TrendsAddUp(w)
      BY <1>1, <3>1, TrendsCount
    <3>3. \A f \in {"submitted", "completed"} : OverviewAddsUp(f, asked)
      BY <1>1, <3>1, OverviewCounts DEF Times
    <3> QED BY <3>2, <3>3
  <2>3. ReportAsked => FunnelNarrows /\ TrendIsOfCohort
    BY <1>1, AnswersFit
  <2> QED BY <2>2, <2>3, TodayIsOneDay DEF ReportAddsUp
<1> QED BY <1>1, ReportsAgreeAlways, PTL
=============================================================================
