------------------------ MODULE BrowserSession_proofs ------------------------
(***************************************************************************)
(* Proofs about the dashboard's session handling over the identity service, *)
(* for any number of browsers, tabs and requests: the composition keeps the *)
(* invariant of the service, and a browser whose calls share one refresh is *)
(* never taken for a thief.                                                *)
(***************************************************************************)
EXTENDS BrowserSession, Sessions_proofs

-----------------------------------------------------------------------------
(* With any number of tabs: every step is one of the identity service's, or *)
(* none of them, and cookies hold tokens of rows.                           *)

\* What an assignment to one promise changes.
LEMMA AwaitsFacts ==
  ASSUME BrowserTypeOK, NEW t \in Tabs, NEW k \in Kinds, NEW x \in Calls \cup {NoCall},
         awaits' = [awaits EXCEPT ![t][k] = x]
  PROVE  /\ awaits' \in [Tabs -> [Kinds -> Calls \cup {NoCall}]]
         /\ awaits'[t][k] = x
         /\ \A s \in Tabs, j \in Kinds :
              s # t \/ j # k => awaits'[s][j] = awaits[s][j]
  BY DEF BrowserTypeOK

\* A tab's promise is settled. The request returned is the one it awaited.
Settles(t, k) ==
  /\ Settle(t, k)
  /\ awaits[t][k] # NoCall
  /\ UNCHANGED rowVars
  /\ \/ UNCHANGED call
     \/ call' = [call EXCEPT ![awaits[t][k]] = Idle]

\* What it makes of the browser's cookie.
Forgets(t) == SetCookie(t, NoToken)

Receives(t, k) ==
  /\ call[awaits[t][k]].at = "issued"
  /\ call' = [call EXCEPT ![awaits[t][k]] = Idle]
  /\ SetCookie(t, call[awaits[t][k]].made)

LEMMA AnsweredSettles ==
  ASSUME NEW t, NEW k, NEW at, Answered(t, k, at)
  PROVE  Settles(t, k) /\ call[awaits[t][k]].at = at
                       /\ call' = [call EXCEPT ![awaits[t][k]] = Idle]
  BY DEF Answered, Settles, Return

LEMMA LostSettles ==
  ASSUME NEW t, NEW k, Lost(t, k)
  PROVE  Settles(t, k)
  BY DEF Lost, Settles, sessionVars

LEMMA SettleShape ==
  ASSUME NEW t \in Tabs,
         LoginAnswered(t) \/ LogoutAnswered(t) \/ RefreshIssued(t) \/ RefreshFailed(t)
  PROVE  \E k \in Kinds :
           /\ Settles(t, k)
           /\ (UNCHANGED cookie /\ k # "refresh") \/ Forgets(t) \/ Receives(t, k)
<1>. USE AnsweredSettles, LostSettles DEF Kinds
<1>1. CASE LoginAnswered(t)
  <2>1. CASE Answered(t, "login", "issued") /\ SetCookie(t, call[awaits[t]["login"]].made)
    BY <2>1 DEF Receives
  <2>. QED  BY <1>1, <2>1 DEF LoginAnswered
<1>2. CASE LogoutAnswered(t)
  BY <1>2 DEF LogoutAnswered, Forgets
<1>3. CASE RefreshIssued(t)
  BY <1>3 DEF RefreshIssued, Receives
<1>4. CASE RefreshFailed(t)
  BY <1>4 DEF RefreshFailed, Forgets
<1>. QED  BY <1>1, <1>2, <1>3, <1>4

\* A tab sends a request.
Sends(t, k, q) ==
  /\ Await(t, k, q)
  /\ UNCHANGED <<rowVars, cookie>>
  /\ call[q] = Idle
  /\ \E r : /\ call' = [call EXCEPT ![q] = r]
            /\ r.op = k
            /\ k = "login" => r.at = "check"
            /\ k = "logout" => r.at = "done"
            /\ k = "refresh" => /\ r.at = "find" /\ r.token = cookie[BrowserOf[t]]
                                /\ cookie[BrowserOf[t]] # NoToken

LEMMA SendShape ==
  ASSUME NEW t \in Tabs, NEW q \in Calls,
         \/ \E u \in Users : ClickLogin(t, q, u)
         \/ Unauthorized(t, q)
         \/ ClickLogout(t, q)
  PROVE  \E k \in Kinds : Sends(t, k, q)
<1>. USE DEF Sends, Kinds, Begin, Idle
<1>1. ASSUME NEW u \in Users, ClickLogin(t, q, u)  PROVE Sends(t, "login", q)
  BY <1>1 DEF ClickLogin, BeginLogin
<1>2. ASSUME Unauthorized(t, q)  PROVE Sends(t, "refresh", q)
  <2>. DEFINE r == [Idle EXCEPT !.op = "refresh", !.at = "find", !.user = NoUser,
                                !.token = cookie[BrowserOf[t]]]
  <2>1. r.op = "refresh" /\ r.at = "find" /\ r.token = cookie[BrowserOf[t]]
    OBVIOUS
  <2>2. call' = [call EXCEPT ![q] = r]
    BY <1>2 DEF Unauthorized, BeginRefresh
  <2>. HIDE DEF r
  <2>. QED  BY <1>2, <2>1, <2>2 DEF Unauthorized, BeginRefresh
<1>3. ClickLogout(t, q) => Sends(t, "logout", q)
  BY DEF ClickLogout, BeginLogout
<1>. QED  BY <1>1, <1>2, <1>3 DEF Kinds

\* For the identity service a browser is a client like any other.
LEMMA BrowserStepServed ==
  ASSUME BrowserTypeOK, BrowserNext
  PROVE  [SessionsNext]_sessionVars
<1>1. ASSUME NEW t \in Tabs, NEW q \in Calls, Unauthorized(t, q)
      PROVE  \E n \in Issued : BeginRefresh(q, n)
  BY <1>1, BrowserAssumption DEF Unauthorized, BrowserTypeOK
<1>2. ASSUME NEW t \in Tabs, NEW q \in Calls, ClickLogout(t, q)
      PROVE  BeginLogout(q, NoToken)
  BY <1>2 DEF ClickLogout
<1>3. ASSUME NEW t \in Tabs, NEW q \in Calls, NEW u \in Users, ClickLogin(t, q, u)
      PROVE  BeginLogin(q, u)
  BY <1>3 DEF ClickLogin
<1>4. ASSUME NEW q \in Calls, ServeCall(q) \/ ReturnUnread(q)
      PROVE  Serve(q) \/ Return(q)
  BY <1>4 DEF ServeCall, ReturnUnread
<1>5. ASSUME NEW t \in Tabs, NEW k \in Kinds, NEW at, Answered(t, k, at)
      PROVE  \E q \in Calls : Return(q)
  BY <1>5 DEF Answered, BrowserTypeOK
<1>6. ASSUME NEW t \in Tabs,
             LoginAnswered(t) \/ LogoutAnswered(t) \/ RefreshIssued(t)
             \/ RefreshFailed(t) \/ FetchMeFailed(t)
      PROVE  UNCHANGED sessionVars \/ \E q \in Calls : Return(q)
  <2>1. \/ \E k \in Kinds, at \in Answers : Answered(t, k, at)
        \/ \E k \in Kinds : Lost(t, k)
        \/ FetchMeFailed(t)
    BY <1>6 DEF LoginAnswered, LogoutAnswered, RefreshIssued, RefreshFailed, Kinds, Answers
  <2>. QED  BY <1>5, <2>1 DEF Lost, FetchMeFailed
<1>. QED  BY <1>1, <1>2, <1>3, <1>4, <1>6 DEF BrowserNext, SessionsNext

\* Tokens once issued stay issued, and an answer carries one that is.
LEMMA IssuedKept ==
  ASSUME SessionsInv, [SessionsNext]_sessionVars
  PROVE  Issued \subseteq Issued'
<1>. USE DEF SessionsInv, SessionsTypeOK, Issued
<1>1. ASSUME NEW q \in Calls, Serve(q)
      PROVE  \A n \in SessionIds : session'[n] = "none" => session[n] = "none"
  <2>1. CASE CreateSession(q)
    BY <2>1 DEF CreateSession
  <2>2. CASE ~CreateSession(q)
    BY <1>1, <2>2
    DEF Serve, LookupEmail, InsertUser, CheckCredentials, FindSession, RevokeAllForUser,
        FindUser, Revoke, Fail, rowVars
  <2>. QED  BY <2>1, <2>2
<1>2. ASSUME NEW n \in SessionIds, Expire(n)
      PROVE  \A m \in SessionIds : session'[m] = "none" => session[m] = "none"
  BY <1>2 DEF Expire
<1>. QED  BY <1>1, <1>2 DEF SessionsNext, sessionVars, rowVars, Return, Disable,
              Begin, BeginRegister, BeginLogin, BeginRefresh, BeginLogout

MadeIssued == \A q \in Calls : call[q].at = "issued" => call[q].made \in Issued

\* Which steps lead a request to "issued".
LEMMA IssuedByCreate ==
  ASSUME SessionsInv, SessionsNext, NEW p \in Calls, call'[p].at = "issued"
  PROVE  call'[p] = call[p] \/ CreateSession(p)
<1>. USE DEF SessionsInv, SessionsTypeOK
<1>1. ASSUME NEW q \in Calls, NEW op, NEW at, NEW user, NEW token,
             Begin(q, op, at, user, token), at # "issued"
      PROVE  call'[p] = call[p]
  BY <1>1, CallFacts DEF Begin, Idle
<1>2. ASSUME NEW q \in Calls, Serve(q)
      PROVE  call'[p] = call[p] \/ CreateSession(p)
  <2>1. CASE CreateSession(q)
    BY <2>1 DEF CreateSession
  <2>2. CASE FindSession(q)
    <3>1. \/ Goto(q, "revoke") \/ Goto(q, "user")
          \/ call' = [call EXCEPT ![q].at = "reused", ![q].open = Open(owner[call[q].token])]
      BY <2>2 DEF FindSession
    <3>2. call \in [Calls -> Request] /\ call[q] \in Request
      BY CallFacts
    <3>3. CASE Goto(q, "revoke") \/ Goto(q, "user")
      BY <3>2, <3>3 DEF Goto, Request
    <3>4. CASE call' = [call EXCEPT ![q].at = "reused", ![q].open = Open(owner[call[q].token])]
      BY <3>2, <3>4 DEF Request
    <3>. QED  BY <3>1, <3>3, <3>4
  <2>3. CASE Fail(q)
    <3>1. PICK at \in {"done", "denied"} : call' = [call EXCEPT ![q].at = at, ![q].open = {}]
      BY <2>3 DEF Fail
    <3>. QED  BY <3>1, CallFacts
  <2>4. CASE LookupEmail(q) \/ InsertUser(q) \/ CheckCredentials(q) \/ RevokeAllForUser(q)
             \/ FindUser(q) \/ Revoke(q)
    <3>1. PICK at \in {"denied", "done", "insert", "create", "revokeDisabled", "revoke"} :
            Goto(q, at)
      BY <2>4 DEF LookupEmail, InsertUser, CheckCredentials, RevokeAllForUser, FindUser, Revoke
    <3>. QED  BY <3>1, CallFacts DEF Goto
  <2>. QED  BY <1>2, <2>1, <2>2, <2>3, <2>4 DEF Serve
<1>3. ASSUME NEW q \in Calls, Return(q)
      PROVE  call'[p] = call[p]
  BY <1>3 DEF Return, Idle
<1>. QED  BY <1>1, <1>2, <1>3 DEF SessionsNext, BeginRegister, BeginLogin, BeginRefresh,
              BeginLogout, Expire, Disable

LEMMA CreateIssues ==
  ASSUME SessionsInv, NEW q \in Calls, CreateSession(q)
  PROVE  \E n \in SessionIds :
           /\ session[n] = "none"
           /\ session' = [session EXCEPT ![n] = "active"]
           /\ parent' = [parent EXCEPT ![n] = call[q].token]
           /\ call' = [call EXCEPT ![q].at = "issued", ![q].made = n]
<1>1. NewId \subseteq SessionIds \ Issued
  BY DEF NewId
<1>. QED  BY <1>1 DEF CreateSession, Issued

LEMMA MadeIssuedStep ==
  ASSUME SessionsInv, MadeIssued, [SessionsNext]_sessionVars
  PROVE  MadeIssued'
<1>1. CASE SessionsNext
  <2>. SUFFICES ASSUME NEW p \in Calls, call'[p].at = "issued"
                PROVE  call'[p].made \in Issued'
    BY DEF MadeIssued
  <2>1. CASE call'[p] = call[p]
    BY <2>1, IssuedKept DEF MadeIssued
  <2>2. CASE CreateSession(p)
    <3>1. PICK n \in SessionIds :
            /\ session' = [session EXCEPT ![n] = "active"]
            /\ call' = [call EXCEPT ![p].at = "issued", ![p].made = n]
      BY <2>2, CreateIssues
    <3>2. call'[p].made = n /\ session'[n] = "active"
      BY <3>1, CallFacts
    <3>. QED  BY <3>2 DEF Issued
  <2>. QED  BY <1>1, <2>1, <2>2, IssuedByCreate
<1>2. CASE UNCHANGED sessionVars
  BY <1>2 DEF MadeIssued, sessionVars, rowVars, Issued
<1>. QED  BY <1>1, <1>2

\* What a step makes of the cookies.
LEMMA CookieStep ==
  ASSUME TokensInv, BrowserNext, Issued \subseteq Issued'
  PROVE  /\ cookie' \in [Browsers -> Tokens]
         /\ \A b \in Browsers : cookie'[b] # NoToken => cookie'[b] \in Issued'
<1>. USE BrowserAssumption DEF TokensInv, BrowserTypeOK, SetCookie
<1>1. CASE UNCHANGED cookie
  BY <1>1
<1>2. ASSUME NEW t \in Tabs, SetCookie(t, NoToken)
      PROVE  /\ cookie' \in [Browsers -> Tokens]
             /\ \A b \in Browsers : cookie'[b] # NoToken => cookie'[b] \in Issued'
  BY <1>2 DEF Tokens
<1>3. ASSUME NEW t \in Tabs, NEW k \in Kinds, Settles(t, k), Receives(t, k)
      PROVE  /\ cookie' \in [Browsers -> Tokens]
             /\ \A b \in Browsers : cookie'[b] # NoToken => cookie'[b] \in Issued'
  <2>1. awaits[t][k] \in Calls
    BY <1>3 DEF Settles
  <2>2. call[awaits[t][k]].made \in Issued
    BY <1>3, <2>1 DEF Receives
  <2>. QED  BY <1>3, <2>2 DEF Receives, Issued, Tokens
<1>4. ASSUME NEW t \in Tabs,
             LoginAnswered(t) \/ LogoutAnswered(t) \/ RefreshIssued(t) \/ RefreshFailed(t)
      PROVE  /\ cookie' \in [Browsers -> Tokens]
             /\ \A b \in Browsers : cookie'[b] # NoToken => cookie'[b] \in Issued'
  BY <1>1, <1>2, <1>3, <1>4, SettleShape DEF Forgets
<1>5. ASSUME NEW t \in Tabs, FetchMeFailed(t)
      PROVE  /\ cookie' \in [Browsers -> Tokens]
             /\ \A b \in Browsers : cookie'[b] # NoToken => cookie'[b] \in Issued'
  BY <1>2, <1>5 DEF FetchMeFailed
<1>6. ASSUME NEW q \in Calls, ServeCall(q) \/ ReturnUnread(q)  PROVE UNCHANGED cookie
  BY <1>6 DEF ServeCall, ReturnUnread, clientVars
<1>7. ASSUME NEW t \in Tabs, NEW q \in Calls, Unauthorized(t, q) \/ ClickLogout(t, q)
      PROVE  UNCHANGED cookie
  BY <1>7 DEF Unauthorized, ClickLogout
<1>8. ASSUME NEW t \in Tabs, NEW q \in Calls, NEW u \in Users, ClickLogin(t, q, u)
      PROVE  UNCHANGED cookie
  BY <1>8 DEF ClickLogin
<1>. QED  BY <1>1, <1>4, <1>5, <1>6, <1>7, <1>8 DEF BrowserNext

\* What a step makes of the promises.
LEMMA AwaitsType ==
  ASSUME BrowserTypeOK, BrowserNext
  PROVE  awaits' \in [Tabs -> [Kinds -> Calls \cup {NoCall}]]
<1>1. ASSUME NEW t \in Tabs, NEW q \in Calls,
             \/ \E u \in Users : ClickLogin(t, q, u)
             \/ Unauthorized(t, q) \/ ClickLogout(t, q)
      PROVE  awaits' \in [Tabs -> [Kinds -> Calls \cup {NoCall}]]
  BY <1>1, SendShape, AwaitsFacts DEF Sends, Await
<1>2. ASSUME NEW t \in Tabs,
             LoginAnswered(t) \/ LogoutAnswered(t) \/ RefreshIssued(t) \/ RefreshFailed(t)
      PROVE  awaits' \in [Tabs -> [Kinds -> Calls \cup {NoCall}]]
  BY <1>2, SettleShape, AwaitsFacts DEF Settles, Settle
<1>3. (\E t \in Tabs : FetchMeFailed(t)) \/ (\E q \in Calls : ServeCall(q) \/ ReturnUnread(q))
        => UNCHANGED awaits
  BY DEF FetchMeFailed, ServeCall, ReturnUnread, clientVars
<1>. QED  BY <1>1, <1>2, <1>3 DEF BrowserNext, BrowserTypeOK

LEMMA TokensInit == BrowserInit => TokensInv
<1>. SUFFICES ASSUME BrowserInit  PROVE TokensInv
  OBVIOUS
<1>. USE SessionsAssumption DEF BrowserInit
<1>1. SessionsTypeOK
  BY DEF SessionsTypeOK, Idle, Request, Tokens, Statements, Answers
<1>2. SessionsInv
  BY <1>1 DEF SessionsInv, RevokedBeforeReissued, CallInv, InHand, RevokedBeforeCreate,
       FoundOpen, ReuseEnds, Idle
<1>3. BrowserTypeOK
  BY <1>1 DEF BrowserTypeOK, Tokens
<1>. QED  BY <1>2, <1>3 DEF TokensInv, Idle

LEMMA TokensNext == TokensInv /\ [BrowserNext]_browserVars => TokensInv'
<1>. SUFFICES ASSUME TokensInv, [BrowserNext]_browserVars  PROVE TokensInv'
  OBVIOUS
<1>1. [SessionsNext]_sessionVars
  BY BrowserStepServed DEF TokensInv, browserVars
<1>2. SessionsInv' /\ MadeIssued' /\ Issued \subseteq Issued'
  BY <1>1, SessionsInvNext, MadeIssuedStep, IssuedKept DEF TokensInv, MadeIssued
<1>3. BrowserTypeOK'
  <2>1. CASE BrowserNext
    BY <1>2, <2>1, CookieStep, AwaitsType DEF TokensInv, BrowserTypeOK, SessionsInv
  <2>2. CASE UNCHANGED browserVars
    BY <1>2, <2>2 DEF TokensInv, BrowserTypeOK, SessionsInv, browserVars, clientVars
  <2>. QED  BY <2>1, <2>2
<1>. QED  BY <1>2, <1>3 DEF TokensInv, MadeIssued

\* The invariant of the identity service holds with any number of browsers and
\* tabs in front of it, and no answer or cookie carries a token of no row.
THEOREM TokensInvariant == BrowserSpec => []TokensInv
  BY TokensInit, TokensNext, PTL DEF BrowserSpec

\* Cookies and promises are well typed, and a cookie is always a token that was
\* issued (setTokens stores what the server answered, auth.ts).
THEOREM BrowserTypeCorrect == BrowserSpec => []BrowserTypeOK
<1>1. TokensInv => BrowserTypeOK
  BY DEF TokensInv
<1>. QED  BY <1>1, TokensInvariant, PTL

-----------------------------------------------------------------------------
(* With one tab per browser: whoever presents a token is the first to.      *)

\* What the invariant says of the pieces of state.
LEMMA BrowserFacts ==
  ASSUME BrowserInv
  PROVE  /\ call \in [Calls -> Request]
         /\ session \in [SessionIds -> {"none", "active", "expired", "revoked"}]
         /\ parent \in [SessionIds -> Tokens]
         /\ cookie \in [Browsers -> Tokens]
         /\ awaits \in [Tabs -> [Kinds -> Calls \cup {NoCall}]]
         /\ BrowserOf \in [Tabs -> Browsers]
         /\ NoToken \notin SessionIds /\ NoCall \notin Calls
         /\ Issued \subseteq SessionIds
         /\ \A b \in Browsers : cookie[b] # NoToken => cookie[b] \in Issued
         /\ \A q \in Calls : call[q].at = "issued" => call[q].made \in Issued
  BY BrowserAssumption, SessionsAssumption
  DEF BrowserInv, TokensInv, BrowserTypeOK, SessionsTypeOK, Issued

\* The shapes of a step of the service: on to another statement, ...
Proceeds(q, r) ==
  /\ UNCHANGED <<session, parent>>
  /\ r.at \notin {"find", "issued"}
  /\ r.op = "refresh" /\ r.at \in {"user", "revoke"} =>
       call[q].at \in {"find", "user", "revoke"}

\* ... the presented token is revoked, ...
Revokes(q, r) ==
  /\ r.at \in {"create", "denied"} /\ r.op = "refresh"
  /\ session' = [session EXCEPT ![call[q].token] = "revoked"]
  /\ UNCHANGED parent

\* ... or its successor is created.
Creates(q, r) ==
  /\ r.at = "issued"
  /\ r.op = "refresh" \/ call[q].token = NoToken
  /\ r.made \in SessionIds /\ session[r.made] = "none"
  /\ session' = [session EXCEPT ![r.made] = "active"]
  /\ parent' = [parent EXCEPT ![r.made] = call[q].token]

LEMMA ServeShape ==
  ASSUME BrowserInv, NEW q \in Calls, Serve(q)
  PROVE  \E r : /\ call' = [call EXCEPT ![q] = r]
                /\ r.op = call[q].op /\ r.token = call[q].token /\ r.op # "logout"
                /\ r.at # "reused"
                /\ Proceeds(q, r) \/ Revokes(q, r) \/ Creates(q, r)
<1>1. SessionsInv /\ CallInv(q) /\ call[q] \in Request /\ call \in [Calls -> Request]
  BY CallFacts DEF BrowserInv, TokensInv
<1>2. call[q].at \in Statements
  BY DEF Serve, LookupEmail, InsertUser, CheckCredentials, FindSession, RevokeAllForUser,
     FindUser, Revoke, CreateSession, Fail, Statements
<1>3. call[q].at # "reused" /\ call[q].op # "logout"
  BY <1>2 DEF BrowserInv, NeverMistakenForReuse, PresentedOnce, Statements
<1>4. ASSUME NEW at, call' = [call EXCEPT ![q].at = at], at # "reused",
             \/ Proceeds(q, [call[q] EXCEPT !.at = at])
             \/ Revokes(q, [call[q] EXCEPT !.at = at])
      PROVE  \E r : /\ call' = [call EXCEPT ![q] = r]
                    /\ r.op = call[q].op /\ r.token = call[q].token /\ r.op # "logout"
                    /\ r.at # "reused"
                    /\ Proceeds(q, r) \/ Revokes(q, r) \/ Creates(q, r)
  <2>. DEFINE r == [call[q] EXCEPT !.at = at]
  <2>1. call' = [call EXCEPT ![q] = r]
    BY <1>1, <1>4
  <2>2. r.op = call[q].op /\ r.token = call[q].token /\ r.at = at
    BY <1>1 DEF Request
  <2>3. Proceeds(q, r) \/ Revokes(q, r)
    BY <1>4
  <2>. HIDE DEF r
  <2>. QED  BY <1>3, <1>4, <2>1, <2>2, <2>3
<1>5. ASSUME NEW at, Goto(q, at), UNCHANGED <<session, parent>>,
             at \in {"denied", "done", "insert", "create", "revokeDisabled"}
      PROVE  /\ call' = [call EXCEPT ![q].at = at] /\ at # "reused"
             /\ Proceeds(q, [call[q] EXCEPT !.at = at])
  BY <1>1, <1>5 DEF Goto, Proceeds, Request
<1>6. CASE LookupEmail(q) \/ InsertUser(q) \/ CheckCredentials(q)
  <2>1. PICK at \in {"denied", "done", "insert", "create"} : Goto(q, at)
    BY <1>6 DEF LookupEmail, InsertUser, CheckCredentials
  <2>2. UNCHANGED <<session, parent>>
    BY <1>6 DEF LookupEmail, InsertUser, CheckCredentials, rowVars
  <2>. QED  BY <1>4, <1>5, <2>1, <2>2
<1>7. CASE FindSession(q)
  <2>1. /\ call[q].at = "find" /\ call[q].op = "refresh"
        /\ session[call[q].token] = "active"
        /\ UNCHANGED <<session, parent>>
    BY <1>1, <1>3, <1>7
    DEF FindSession, rowVars, CallInv, InHand, BrowserInv, PresentedOnce
  <2>2. call' = [call EXCEPT ![q].at = "user"]
    BY <1>7, <2>1 DEF FindSession, Goto
  <2>3. Proceeds(q, [call[q] EXCEPT !.at = "user"])
    BY <1>1, <2>1 DEF Proceeds, Request
  <2>. QED  BY <1>4, <2>2, <2>3
<1>8. CASE FindUser(q)
  <2>1. call[q].at = "user" /\ UNCHANGED <<session, parent>>
    BY <1>8 DEF FindUser, rowVars
  <2>2. PICK at \in {"revoke", "revokeDisabled"} : call' = [call EXCEPT ![q].at = at]
    BY <1>8 DEF FindUser, Goto
  <2>3. Proceeds(q, [call[q] EXCEPT !.at = at])
    BY <1>1, <2>1 DEF Proceeds, Request
  <2>. QED  BY <1>4, <2>2, <2>3
<1>9. CASE Revoke(q)
  <2>1. call[q].op = "refresh"
    BY <1>1, <1>3, <1>9 DEF Revoke, CallInv, InHand
  <2>2. PICK at \in {"create", "denied"} : call' = [call EXCEPT ![q].at = at]
    BY <1>9, <2>1 DEF Revoke, Goto
  <2>3. Revokes(q, [call[q] EXCEPT !.at = at])
    BY <1>1, <1>9, <2>1 DEF Revokes, Revoke, Request
  <2>. QED  BY <1>4, <2>2, <2>3
<1>10. CASE CreateSession(q)
  <2>1. PICK n \in SessionIds :
          /\ session[n] = "none"
          /\ session' = [session EXCEPT ![n] = "active"]
          /\ parent' = [parent EXCEPT ![n] = call[q].token]
          /\ call' = [call EXCEPT ![q].at = "issued", ![q].made = n]
    BY <1>1, <1>10, CreateIssues
  <2>. DEFINE r == [call[q] EXCEPT !.at = "issued", !.made = n]
  <2>2. call' = [call EXCEPT ![q] = r]
    BY <1>1, <2>1
  <2>3. r.op = call[q].op /\ r.token = call[q].token /\ r.at = "issued" /\ r.made = n
    BY <1>1 DEF Request
  <2>4. call[q].op = "refresh" \/ call[q].token = NoToken
    BY <1>1, <1>10 DEF CreateSession, CallInv, InHand
  <2>. HIDE DEF r
  <2>. QED  BY <1>3, <2>1, <2>2, <2>3, <2>4 DEF Creates
<1>11. CASE Fail(q)
  <2>1. PICK at \in {"done", "denied"} : call' = [call EXCEPT ![q].at = at, ![q].open = {}]
    BY <1>11 DEF Fail
  <2>. DEFINE r == [call[q] EXCEPT !.at = at, !.open = {}]
  <2>2. call' = [call EXCEPT ![q] = r]
    BY <1>1, <2>1
  <2>3. r.op = call[q].op /\ r.token = call[q].token /\ r.at = at
    BY <1>1 DEF Request
  <2>4. UNCHANGED <<session, parent>>
    BY <1>11 DEF Fail, rowVars
  <2>. HIDE DEF r
  <2>. QED  BY <1>3, <2>2, <2>3, <2>4 DEF Proceeds
<1>. QED  BY <1>3, <1>6, <1>7, <1>8, <1>9, <1>10, <1>11 DEF Serve, RevokeAllForUser

\* The parts of the invariant that TokensInv does not cover.
SharedInv ==
  AwaitedOnce /\ MadeIsNew /\ CookieIsOwn /\ PresentedOnce /\ NeverMistakenForReuse

\* What nobody has presented stays so under a step of the service: only tokens
\* that requests present are revoked or given a successor.
LEMMA UnusedServed ==
  ASSUME BrowserInv, NEW q \in Calls, NEW r, call' = [call EXCEPT ![q] = r],
         r.op = call[q].op, r.token = call[q].token,
         Proceeds(q, r) \/ Revokes(q, r) \/ Creates(q, r),
         NEW n \in Issued, Unused(n)
  PROVE  Unused(n)'
<1>. USE BrowserFacts DEF Unused
<1>1. \A p \in Calls : call'[p].op = call[p].op /\ call'[p].token = call[p].token
  OBVIOUS
<1>2. session[n] = "active" /\ n \in SessionIds
  BY DEF Issued
<1>3. CASE Proceeds(q, r)
  BY <1>1, <1>3 DEF Proceeds, Exchanged
<1>4. CASE Revokes(q, r)
  BY <1>1, <1>2, <1>4 DEF Revokes, Exchanged
<1>5. CASE Creates(q, r)
  <2>1. call[q].token # n
    BY <1>2, <1>5 DEF Creates
  <2>2. \A m \in SessionIds : parent'[m] # n
    BY <1>5, <2>1 DEF Creates, Exchanged
  <2>3. session'[n] = "active"
    BY <1>2, <1>5 DEF Creates
  <2>. QED  BY <1>1, <2>2, <2>3 DEF Exchanged
<1>. QED  BY <1>3, <1>4, <1>5

\* A token of no row yet is unused once its row is created.
LEMMA CreatedIsUnused ==
  ASSUME BrowserInv, NEW q \in Calls, NEW r, call' = [call EXCEPT ![q] = r],
         r.op = call[q].op, r.token = call[q].token, Creates(q, r)
  PROVE  Unused(r.made)' /\ r.made \notin Issued
<1>. USE BrowserFacts
<1>. DEFINE n == r.made
<1>1. n \in SessionIds /\ session[n] = "none" /\ n \notin Issued
  BY DEF Creates, Issued
<1>2. \A p \in Calls : call[p].op = "refresh" => call[p].token \in Issued
  BY DEF BrowserInv, PresentedOnce
<1>3. call[q].token # n
  BY <1>1, <1>2 DEF Creates
<1>4. \A m \in SessionIds : parent[m] # n
  BY <1>1 DEF BrowserInv, TokensInv, SessionsInv, RevokedBeforeReissued
<1>5. \A m \in SessionIds : parent'[m] # n
  BY <1>3, <1>4 DEF Creates
<1>6. session'[n] = "active"
  BY <1>1 DEF Creates
<1>7. \A p \in Calls : call'[p].op = "refresh" => call'[p].token # n
  BY <1>1, <1>2, <1>3
<1>. HIDE DEF n
<1>. QED  BY <1>1, <1>5, <1>6, <1>7 DEF Unused, Exchanged, n

LEMMA ServeShared ==
  ASSUME BrowserInv, TokensInv', NEW q \in Calls, ServeCall(q)
  PROVE  SharedInv'
<1>. USE BrowserFacts
<1>1. PICK r : /\ call' = [call EXCEPT ![q] = r]
               /\ r.op = call[q].op /\ r.token = call[q].token /\ r.op # "logout"
               /\ r.at # "reused"
               /\ Proceeds(q, r) \/ Revokes(q, r) \/ Creates(q, r)
  BY ServeShape DEF ServeCall
<1>2. UNCHANGED <<cookie, awaits>>
  BY DEF ServeCall, clientVars
<1>3. \A p \in Calls : call'[p].op = call[p].op /\ call'[p].token = call[p].token
  BY <1>1
<1>4. \A n \in Issued : Unused(n) => Unused(n)'
  BY <1>1, UnusedServed
<1>5. \A p \in Calls \ {q} : call'[p] = call[p]
  BY <1>1
<1>6. call'[q] = r
  BY <1>1
<1>7. AwaitedOnce'
  BY <1>2, <1>3 DEF BrowserInv, AwaitedOnce
<1>8. MadeIsNew'
  <2>1. ASSUME r.at = "issued"
        PROVE  Unused(r.made)' /\ r.made \notin Issued
    BY <1>1, <2>1, CreatedIsUnused DEF Proceeds, Revokes
  <2>. SUFFICES ASSUME NEW p \in Calls, call'[p].at = "issued", NEW n, n = call'[p].made
                PROVE  /\ Unused(n)'
                       /\ \A b \in Browsers : cookie'[b] # n
                       /\ \A o \in Calls \ {p} : call'[o].at = "issued" => call'[o].made # n
    BY DEF MadeIsNew, Unused, Exchanged
  <2>2. CASE p = q
    <3>1. Unused(r.made)' /\ r.made \notin Issued /\ n = r.made
      BY <1>6, <2>1, <2>2
    <3>2. r.made # NoToken
      BY <1>1, <1>6, <2>2 DEF Creates, Proceeds, Revokes
    <3>3. \A b \in Browsers : cookie'[b] # r.made
      BY <1>2, <3>1, <3>2
    <3>4. \A o \in Calls \ {p} : call'[o].at = "issued" => call'[o].made \in Issued
      BY <1>5, <2>2
    <3>. QED  BY <3>1, <3>3, <3>4
  <2>3. CASE p # q
    <3>1. call'[p] = call[p] /\ n = call[p].made /\ n \in Issued
      BY <1>5, <2>3
    <3>2. Unused(n)'
      BY <1>4, <3>1 DEF BrowserInv, MadeIsNew
    <3>3. \A b \in Browsers : cookie'[b] # n
      BY <1>2, <3>1 DEF BrowserInv, MadeIsNew
    <3>4. \A o \in Calls \ {p, q} : call'[o].at = "issued" => call'[o].made # n
      BY <1>5, <3>1 DEF BrowserInv, MadeIsNew
    <3>5. call'[q].at = "issued" => call'[q].made # n
      BY <1>6, <2>1, <3>1
    <3>. QED  BY <3>1, <3>2, <3>3, <3>4, <3>5
  <2>. QED  BY <2>2, <2>3
<1>9. CookieIsOwn'
  BY <1>2, <1>3, <1>4 DEF BrowserInv, CookieIsOwn, Presented
<1>10. PresentedOnce'
  <2>. SUFFICES ASSUME NEW p \in Calls
                PROVE  /\ call'[p].op = "logout" => call'[p].at = "done"
                       /\ call'[p].op = "refresh" =>
                            /\ call'[p].token \in Issued'
                            /\ call'[p].at \in {"find", "user", "revoke"} =>
                                 session'[call'[p].token] = "active"
                            /\ \A o \in Calls \ {p} :
                                 call'[o].op = "refresh" => call'[o].token # call'[p].token
    BY DEF PresentedOnce
  <2>1. /\ call[p].op = "logout" => call[p].at = "done"
        /\ call[p].op = "refresh" =>
             /\ call[p].token \in Issued
             /\ call[p].at \in {"find", "user", "revoke"} => session[call[p].token] = "active"
             /\ \A o \in Calls \ {p} : call[o].op = "refresh" => call[o].token # call[p].token
    BY DEF BrowserInv, PresentedOnce
  <2>2. call'[p].op = "logout" => call'[p].at = "done"
    BY <1>1, <1>5, <1>6, <2>1
  <2>3. ASSUME call'[p].op = "refresh"
        PROVE  \A o \in Calls \ {p} : call'[o].op = "refresh" => call'[o].token # call'[p].token
    BY <1>3, <2>1, <2>3
  <2>4. ASSUME NEW n \in Issued  PROVE n \in Issued'
    BY <1>1, <2>4 DEF Issued, Proceeds, Revokes, Creates
  <2>5. ASSUME call'[p].op = "refresh", call'[p].at \in {"find", "user", "revoke"}
        PROVE  session'[call'[p].token] = "active"
    <3>1. CASE p = q
      <4>1. Proceeds(q, r)
        BY <1>1, <1>6, <2>5, <3>1 DEF Revokes, Creates
      <4>2. call[p].at \in {"find", "user", "revoke"}
        BY <1>6, <2>5, <3>1, <4>1 DEF Proceeds
      <4>. QED  BY <1>3, <2>1, <2>5, <4>1, <4>2 DEF Proceeds
    <3>2. CASE p # q
      <4>1. call'[p] = call[p] /\ session[call[p].token] = "active" /\ call[p].token \in Issued
        BY <1>5, <2>1, <2>5, <3>2
      <4>2. call[q].op = "refresh" => call[q].token # call[p].token
        BY <2>1, <2>5, <3>2, <4>1
      <4>. QED  BY <1>1, <4>1, <4>2 DEF Proceeds, Revokes, Creates, Issued
    <3>. QED  BY <3>1, <3>2
  <2>. QED  BY <1>3, <2>1, <2>2, <2>3, <2>4, <2>5
<1>11. NeverMistakenForReuse'
  BY <1>1 DEF BrowserInv, NeverMistakenForReuse
<1>. QED  BY <1>7, <1>8, <1>9, <1>10, <1>11 DEF SharedInv

\* A tab sends a request: one that refreshes presents what nobody has presented,
\* because only its own tab could have, and that tab awaits no refresh.
LEMMA SendShared ==
  ASSUME OneTabEach, BrowserInv, NEW t \in Tabs, NEW k \in Kinds, NEW q \in Calls,
         Sends(t, k, q)
  PROVE  SharedInv'
<1>. USE BrowserFacts
<1>. DEFINE b == BrowserOf[t]
<1>1. /\ awaits[t][k] = NoCall /\ awaits' = [awaits EXCEPT ![t][k] = q]
      /\ UNCHANGED <<session, parent, cookie>> /\ call[q] = Idle
      /\ b \in Browsers
  BY DEF Sends, Await, rowVars
<1>2. PICK r : /\ call' = [call EXCEPT ![q] = r]
               /\ r.op = k
               /\ k = "login" => r.at = "check"
               /\ k = "logout" => r.at = "done"
               /\ k = "refresh" => /\ r.at = "find" /\ r.token = cookie[b]
                                   /\ cookie[b] # NoToken
  BY DEF Sends
<1>3. /\ call'[q] = r /\ \A p \in Calls \ {q} : call'[p] = call[p]
      /\ call[q].op = "none" /\ call[q].at = "idle"
      /\ r.at \notin {"issued", "reused"}
  BY <1>1, <1>2 DEF Idle, Kinds
<1>4. /\ awaits'[t][k] = q
      /\ \A s \in Tabs, j \in Kinds : s # t \/ j # k => awaits'[s][j] = awaits[s][j]
  BY <1>1, AwaitsFacts DEF BrowserInv, TokensInv
<1>5. \A s \in Tabs, j \in Kinds : awaits[s][j] # q
  <2>1. \A j \in Kinds : j # "none"
    BY DEF Kinds
  <2>2. \A s \in Tabs, j \in Kinds : awaits[s][j] # NoCall => call[awaits[s][j]].op = j
    BY DEF BrowserInv, AwaitedOnce
  <2>. QED  BY <1>3, <2>1, <2>2
<1>. HIDE DEF b
<1>6. ASSUME k = "refresh"
      PROVE  /\ cookie[b] \in Issued /\ Unused(cookie[b])
             /\ \A p \in Calls : ~Presented(b, p)
  <2>1. ASSUME NEW p \in Calls, Presented(b, p)  PROVE FALSE
    <3>1. PICK s \in Tabs : BrowserOf[s] = b /\ awaits[s]["refresh"] = p
      BY <1>1, <1>2, <1>6, <2>1 DEF BrowserInv, CookieIsOwn
    <3>2. s = t
      BY <3>1 DEF OneTabEach, b
    <3>. QED  BY <1>1, <1>6, <3>1, <3>2
  <2>. QED  BY <1>1, <1>2, <1>6, <2>1 DEF BrowserInv, CookieIsOwn
<1>7. ASSUME NEW n, Unused(n), k = "refresh" => n # cookie[b]
      PROVE  Unused(n)'
  BY <1>1, <1>2, <1>3, <1>7 DEF Unused, Exchanged
<1>8. AwaitedOnce'
  <2>1. ASSUME NEW s \in Tabs, NEW j \in Kinds, awaits'[s][j] # NoCall
        PROVE  call'[awaits'[s][j]].op = j
    <3>1. CASE s = t /\ j = k
      BY <1>2, <1>3, <1>4, <3>1
    <3>2. CASE ~(s = t /\ j = k)
      BY <1>3, <1>4, <1>5, <2>1, <3>2 DEF BrowserInv, AwaitedOnce
    <3>. QED  BY <3>1, <3>2
  <2>2. ASSUME NEW s \in Tabs, NEW u \in Tabs, NEW j \in Kinds,
               awaits'[s][j] = awaits'[u][j], awaits'[u][j] # NoCall
        PROVE  s = u
    BY <1>4, <1>5, <2>2 DEF BrowserInv, AwaitedOnce
  <2>. QED  BY <2>1, <2>2 DEF AwaitedOnce
<1>9. MadeIsNew'
  <2>. SUFFICES ASSUME NEW p \in Calls, call'[p].at = "issued", NEW n, n = call'[p].made
                PROVE  /\ Unused(n)'
                       /\ \A c \in Browsers : cookie'[c] # n
                       /\ \A o \in Calls \ {p} : call'[o].at = "issued" => call'[o].made # n
    BY DEF MadeIsNew, Unused, Exchanged
  <2>1. p # q /\ call'[p] = call[p] /\ call[p].at = "issued" /\ n = call[p].made
    BY <1>3
  <2>2. Unused(n) /\ \A c \in Browsers : cookie[c] # n
    BY <2>1 DEF BrowserInv, MadeIsNew
  <2>3. \A o \in Calls \ {p} : call'[o].at = "issued" => call'[o].made # n
    BY <1>3, <2>1 DEF BrowserInv, MadeIsNew
  <2>. QED  BY <1>1, <1>7, <2>2, <2>3
<1>10. CookieIsOwn'
  <2>. SUFFICES ASSUME NEW c \in Browsers, cookie[c] # NoToken, NEW n, n = cookie[c]
                PROVE  /\ \A d \in Browsers : cookie[d] = n => d = c
                       /\ Unused(n)' \/ \E p \in Calls : Presented(c, p)'
                       /\ \A p \in Calls : Presented(c, p)' =>
                            \E s \in Tabs : BrowserOf[s] = c /\ awaits'[s]["refresh"] = p
    BY <1>1 DEF CookieIsOwn, Unused, Exchanged, Presented
  <2>1. /\ \A d \in Browsers : cookie[d] = n => d = c
        /\ Unused(n) \/ \E p \in Calls : Presented(c, p)
        /\ \A p \in Calls : Presented(c, p) =>
             \E s \in Tabs : BrowserOf[s] = c /\ awaits[s]["refresh"] = p
    BY DEF BrowserInv, CookieIsOwn
  <2>2. \A p \in Calls \ {q} : Presented(c, p)' <=> Presented(c, p)
    BY <1>1, <1>3 DEF Presented
  <2>3. ~Presented(c, q)
    BY <1>3 DEF Presented
  <2>4. CASE k = "refresh" /\ c = b
    <3>1. Presented(c, q)'
      BY <1>1, <1>2, <1>3, <2>4 DEF Presented
    <3>2. \A p \in Calls : Presented(c, p)' => p = q
      BY <1>6, <2>2, <2>4
    <3>. QED  BY <1>4, <2>1, <2>4, <3>1, <3>2 DEF b
  <2>5. CASE k # "refresh" \/ c # b
    <3>1. ~Presented(c, q)'
      BY <1>1, <1>2, <1>3, <2>1, <2>5 DEF Presented
    <3>2. ASSUME NEW s \in Tabs, BrowserOf[s] = c
          PROVE  awaits'[s]["refresh"] = awaits[s]["refresh"]
      BY <1>4, <2>5, <3>2 DEF b, Kinds
    <3>3. Unused(n) => Unused(n)'
      BY <1>1, <1>7, <2>1, <2>5
    <3>. QED  BY <2>1, <2>2, <2>3, <3>1, <3>2, <3>3
  <2>. QED  BY <2>4, <2>5
<1>11. PresentedOnce'
  <2>1. ASSUME NEW p \in Calls, p # q, call[p].op = "refresh", k = "refresh"
        PROVE  call[p].token # r.token
    BY <1>2, <1>6, <2>1 DEF Unused
  <2>2. k = "refresh" => r.token \in Issued /\ session[r.token] = "active"
    BY <1>2, <1>6 DEF Unused
  <2>. QED  BY <1>1, <1>2, <1>3, <2>1, <2>2 DEF BrowserInv, PresentedOnce, Issued
<1>12. NeverMistakenForReuse'
  BY <1>3 DEF BrowserInv, NeverMistakenForReuse
<1>. QED  BY <1>8, <1>9, <1>10, <1>11, <1>12 DEF SharedInv

\* A request ends, and with it, it may be, a tab's promise: nothing is presented
\* that was not, and the browser keeps its cookie only if it did not refresh.
LEMMA EndShared ==
  ASSUME BrowserInv, UNCHANGED <<session, parent>>,
         \A p \in Calls : call'[p] = call[p] \/ call'[p] = Idle,
         \A s \in Tabs, j \in Kinds :
           \/ awaits'[s][j] = NoCall
           \/ awaits'[s][j] = awaits[s][j] /\ call'[awaits[s][j]] = call[awaits[s][j]],
         \A b \in Browsers :
           \/ cookie'[b] = NoToken
           \/ /\ cookie'[b] = cookie[b]
              /\ \A p \in Calls : Presented(b, p) => call'[p] = call[p]
              /\ \A s \in Tabs : BrowserOf[s] = b => awaits'[s]["refresh"] = awaits[s]["refresh"]
           \/ \E q \in Calls :
                /\ call[q].at = "issued" /\ call'[q] = Idle /\ cookie'[b] = call[q].made
                /\ \A c \in Browsers \ {b} : cookie'[c] = cookie[c]
  PROVE  SharedInv'
<1>. USE BrowserFacts
<1>1. \A p \in Calls : /\ call'[p].op \notin {"none"} => call'[p] = call[p]
                       /\ call'[p].at \in {"issued", "reused"} => call'[p] = call[p]
  BY DEF Idle
<1>2. \A n : Unused(n) => Unused(n)'
  BY <1>1 DEF Unused, Exchanged
<1>3. AwaitedOnce'
  BY DEF BrowserInv, AwaitedOnce
<1>4. MadeIsNew'
  <2>. SUFFICES ASSUME NEW p \in Calls, call'[p].at = "issued", NEW n, n = call'[p].made
                PROVE  /\ Unused(n)'
                       /\ \A c \in Browsers : cookie'[c] # n
                       /\ \A o \in Calls \ {p} : call'[o].at = "issued" => call'[o].made # n
    BY DEF MadeIsNew, Unused, Exchanged
  <2>1. call'[p] = call[p] /\ call[p].at = "issued" /\ n = call[p].made /\ n # NoToken
    BY <1>1
  <2>2. Unused(n)' /\ \A c \in Browsers : cookie[c] # n
    BY <1>2, <2>1 DEF BrowserInv, MadeIsNew
  <2>3. \A o \in Calls \ {p} : call[o].at = "issued" => call[o].made # n
    BY <2>1 DEF BrowserInv, MadeIsNew
  <2>4. ASSUME NEW q \in Calls, call[q].at = "issued", call'[q] = Idle  PROVE call[q].made # n
    BY <2>1, <2>3, <2>4 DEF Idle
  <2>5. \A c \in Browsers : cookie'[c] # n
    BY <2>1, <2>2, <2>4
  <2>. QED  BY <1>1, <2>2, <2>3, <2>5
<1>5. CookieIsOwn'
  <2>. SUFFICES ASSUME NEW b \in Browsers, cookie'[b] # NoToken
                PROVE  /\ \A c \in Browsers : cookie'[c] = cookie'[b] => c = b
                       /\ Unused(cookie[b])' \/ \E p \in Calls : Presented(b, p)'
                       /\ \A p \in Calls : Presented(b, p)' =>
                            \E s \in Tabs : BrowserOf[s] = b /\ awaits'[s]["refresh"] = p
    BY DEF CookieIsOwn, Unused, Exchanged, Presented
  <2>1. CASE /\ cookie'[b] = cookie[b]
             /\ \A p \in Calls : Presented(b, p) => call'[p] = call[p]
             /\ \A s \in Tabs : BrowserOf[s] = b => awaits'[s]["refresh"] = awaits[s]["refresh"]
    <3>1. /\ \A c \in Browsers : cookie[c] = cookie[b] => c = b
          /\ Unused(cookie[b]) \/ \E p \in Calls : Presented(b, p)
          /\ \A p \in Calls : Presented(b, p) =>
               \E s \in Tabs : BrowserOf[s] = b /\ awaits[s]["refresh"] = p
      BY <2>1 DEF BrowserInv, CookieIsOwn
    <3>2. \A c \in Browsers \ {b} : cookie'[c] # cookie[b]
      BY <2>1, <3>1 DEF BrowserInv, MadeIsNew
    <3>3. \A p \in Calls : Presented(b, p)' <=> Presented(b, p)
      BY <1>1, <2>1 DEF Presented, Idle
    <3>4. Unused(cookie[b]) => Unused(cookie[b])'
      BY <1>1, <2>1 DEF Unused, Exchanged, Idle
    <3>. QED  BY <2>1, <3>1, <3>2, <3>3, <3>4
  <2>2. ASSUME NEW q \in Calls, call[q].at = "issued", call'[q] = Idle,
               cookie'[b] = call[q].made, \A c \in Browsers \ {b} : cookie'[c] = cookie[c]
        PROVE  /\ \A c \in Browsers : cookie'[c] = cookie'[b] => c = b
               /\ Unused(cookie[b])' /\ \A p \in Calls : ~Presented(b, p)'
    <3>1. Unused(call[q].made) /\ \A c \in Browsers : cookie[c] # call[q].made
      BY <2>2 DEF BrowserInv, MadeIsNew
    <3>2. Unused(cookie[b])'
      BY <1>1, <2>2, <3>1 DEF Unused, Exchanged, Idle
    <3>3. \A c \in Browsers : cookie'[c] = cookie'[b] => c = b
      BY <2>2, <3>1
    <3>. QED  BY <3>2, <3>3 DEF Unused, Presented
  <2>. QED  BY <2>1, <2>2
<1>6. PresentedOnce'
  <2>1. Issued' = Issued
    BY DEF Issued
  <2>. QED  BY <1>1, <2>1 DEF BrowserInv, PresentedOnce
<1>7. NeverMistakenForReuse'
  BY <1>1 DEF BrowserInv, NeverMistakenForReuse
<1>. QED  BY <1>3, <1>4, <1>5, <1>6, <1>7 DEF SharedInv

\* A promise is settled. Were the request another browser's, that browser's tab
\* would await it too.
LEMMA SettleShared ==
  ASSUME BrowserInv, NEW t \in Tabs, NEW k \in Kinds, Settles(t, k),
         (UNCHANGED cookie /\ k # "refresh") \/ Forgets(t) \/ Receives(t, k)
  PROVE  SharedInv'
<1>. USE BrowserFacts
<1>. DEFINE q == awaits[t][k]
<1>1. /\ q \in Calls /\ call[q].op = k
      /\ UNCHANGED <<session, parent>>
      /\ \A p \in Calls \ {q} : call'[p] = call[p]
      /\ call'[q] = call[q] \/ call'[q] = Idle
  BY DEF Settles, BrowserInv, AwaitedOnce, rowVars
<1>2. /\ awaits'[t][k] = NoCall
      /\ \A s \in Tabs, j \in Kinds : s # t \/ j # k => awaits'[s][j] = awaits[s][j]
  BY AwaitsFacts DEF Settles, Settle, BrowserInv, TokensInv
<1>. HIDE DEF q
<1>3. ASSUME NEW s \in Tabs, NEW j \in Kinds, awaits[s][j] = q  PROVE s = t /\ j = k
  BY <1>1, <1>3 DEF BrowserInv, AwaitedOnce, q
<1>4. ASSUME NEW s \in Tabs, NEW j \in Kinds
      PROVE  \/ awaits'[s][j] = NoCall
             \/ awaits'[s][j] = awaits[s][j] /\ call'[awaits[s][j]] = call[awaits[s][j]]
  BY <1>1, <1>2, <1>3
<1>5. ASSUME NEW b \in Browsers, cookie'[b] = cookie[b], cookie[b] # NoToken,
             k # "refresh" \/ b # BrowserOf[t]
      PROVE  /\ \A p \in Calls : Presented(b, p) => call'[p] = call[p]
             /\ \A s \in Tabs : BrowserOf[s] = b => awaits'[s]["refresh"] = awaits[s]["refresh"]
  <2>1. ~Presented(b, q)
    <3>. SUFFICES ASSUME Presented(b, q)  PROVE FALSE
      OBVIOUS
    <3>1. PICK s \in Tabs : BrowserOf[s] = b /\ awaits[s]["refresh"] = q
      BY <1>1, <1>5 DEF BrowserInv, CookieIsOwn
    <3>. QED  BY <1>3, <1>5, <3>1 DEF Kinds
  <2>. QED  BY <1>1, <1>2, <1>5, <2>1 DEF Kinds
<1>6. ASSUME NEW b \in Browsers
      PROVE  \/ cookie'[b] = NoToken
             \/ /\ cookie'[b] = cookie[b]
                /\ \A p \in Calls : Presented(b, p) => call'[p] = call[p]
                /\ \A s \in Tabs : BrowserOf[s] = b =>
                     awaits'[s]["refresh"] = awaits[s]["refresh"]
             \/ \E p \in Calls :
                  /\ call[p].at = "issued" /\ call'[p] = Idle /\ cookie'[b] = call[p].made
                  /\ \A c \in Browsers \ {b} : cookie'[c] = cookie[c]
  <2>1. CASE b = BrowserOf[t] /\ Forgets(t)
    BY <2>1 DEF Forgets, SetCookie
  <2>2. CASE b = BrowserOf[t] /\ Receives(t, k)
    <3>1. /\ call[q].at = "issued" /\ call'[q] = Idle /\ cookie'[b] = call[q].made
          /\ \A c \in Browsers \ {b} : cookie'[c] = cookie[c]
      BY <1>1, <2>2 DEF Receives, SetCookie, q
    <3>. QED  BY <1>1, <3>1
  <2>3. CASE b # BrowserOf[t]
    <3>1. cookie'[b] = cookie[b]
      BY <2>3 DEF Forgets, Receives, SetCookie
    <3>. QED  BY <1>5, <2>3, <3>1
  <2>4. CASE UNCHANGED cookie /\ k # "refresh"
    BY <1>5, <2>4
  <2>. QED  BY <2>1, <2>2, <2>3, <2>4
<1>. QED  BY <1>1, <1>4, <1>6, EndShared

LEMMA BrowserInvInit == BrowserInit => BrowserInv
<1>. SUFFICES ASSUME BrowserInit  PROVE BrowserInv
  OBVIOUS
<1>1. TokensInv
  BY TokensInit
<1>2. AwaitedOnce
  BY DEF BrowserInit, AwaitedOnce
<1>3. MadeIsNew /\ PresentedOnce /\ NeverMistakenForReuse
  BY DEF BrowserInit, MadeIsNew, PresentedOnce, NeverMistakenForReuse, Idle
<1>4. CookieIsOwn
  BY DEF BrowserInit, CookieIsOwn
<1>. QED  BY <1>1, <1>2, <1>3, <1>4 DEF BrowserInv

LEMMA BrowserInvNext ==
  ASSUME OneTabEach, BrowserInv, [BrowserNext]_browserVars
  PROVE  BrowserInv'
<1>. USE BrowserFacts
<1>1. TokensInv'
  BY TokensNext DEF BrowserInv
<1>2. ASSUME NEW t \in Tabs, NEW q \in Calls,
             \/ \E u \in Users : ClickLogin(t, q, u)
             \/ Unauthorized(t, q) \/ ClickLogout(t, q)
      PROVE  SharedInv'
  BY <1>2, SendShape, SendShared
<1>3. ASSUME NEW t \in Tabs,
             LoginAnswered(t) \/ LogoutAnswered(t) \/ RefreshIssued(t) \/ RefreshFailed(t)
      PROVE  SharedInv'
  BY <1>3, SettleShape, SettleShared
<1>4. ASSUME NEW t \in Tabs, FetchMeFailed(t)  PROVE SharedInv'
  <2>1. /\ UNCHANGED <<session, parent, call, awaits>>
        /\ \A b \in Browsers : cookie'[b] \in {cookie[b], NoToken}
    BY <1>4 DEF FetchMeFailed, SetCookie, sessionVars, rowVars
  <2>. QED  BY <2>1, EndShared
<1>5. ASSUME NEW q \in Calls, ServeCall(q)  PROVE SharedInv'
  BY <1>1, <1>5, ServeShared
<1>6. ASSUME NEW q \in Calls, ReturnUnread(q)  PROVE SharedInv'
  <2>1. /\ UNCHANGED <<session, parent, cookie, awaits>>
        /\ call'[q] = Idle /\ \A p \in Calls \ {q} : call'[p] = call[p]
        /\ \A s \in Tabs, j \in Kinds : awaits[s][j] # q
    BY <1>6 DEF ReturnUnread, Return, clientVars, rowVars
  <2>2. ASSUME NEW b \in Browsers, cookie[b] # NoToken  PROVE ~Presented(b, q)
    BY <2>1, <2>2 DEF BrowserInv, CookieIsOwn, Kinds
  <2>3. ASSUME NEW s \in Tabs, NEW j \in Kinds, awaits'[s][j] # NoCall
        PROVE  awaits'[s][j] = awaits[s][j] /\ call'[awaits[s][j]] = call[awaits[s][j]]
    BY <2>1, <2>3
  <2>. QED  BY <2>1, <2>2, <2>3, EndShared
<1>7. CASE UNCHANGED browserVars
  <2>1. UNCHANGED <<session, parent, call, cookie, awaits>>
    BY <1>7 DEF browserVars, sessionVars, rowVars, clientVars
  <2>. QED  BY <1>1, <2>1
       DEF BrowserInv, AwaitedOnce, MadeIsNew, CookieIsOwn, PresentedOnce,
           NeverMistakenForReuse, Unused, Exchanged, Presented, Issued
<1>8. CASE SharedInv'
  BY <1>1, <1>8 DEF SharedInv, BrowserInv
<1>. QED  BY <1>2, <1>3, <1>4, <1>5, <1>6, <1>7, <1>8 DEF BrowserNext

\* A token is presented by one request, which the browser that has it in its
\* cookie awaits, and what is on its way to a cookie is new: for any number of
\* browsers, requests, lost answers and failed statements, as long as the calls
\* of a browser share one inflightRefresh (one tab each).
THEOREM BrowserInvariant == OneTabEach => (BrowserSpec => []BrowserInv)
<1>. SUFFICES ASSUME OneTabEach  PROVE BrowserSpec => []BrowserInv
  OBVIOUS
<1>1. BrowserInv /\ [BrowserNext]_browserVars => BrowserInv'
  BY BrowserInvNext
<1>. QED  BY <1>1, BrowserInvInit, PTL DEF BrowserSpec

\* No user of the dashboard is ever logged out everywhere as a thief of his own
\* token (tryRefresh, api-client.ts:36-66, against service.go:218-223).
THEOREM NeverMistaken == OneTabEach => (BrowserSpec => []NeverMistakenForReuse)
<1>1. BrowserInv => NeverMistakenForReuse
  BY DEF BrowserInv
<1>. QED  BY <1>1, BrowserInvariant, PTL

\* A cookie that was exchanged is being replaced: its tab awaits the answer.
THEOREM ExchangedIsAwaited == OneTabEach => (BrowserSpec => []ExchangedCookieIsAwaited)
<1>1. BrowserInv => ExchangedCookieIsAwaited
  <2>. SUFFICES ASSUME BrowserInv, NEW b \in Browsers, cookie[b] # NoToken, Exchanged(cookie[b])
                PROVE  \E t \in Tabs : /\ BrowserOf[t] = b /\ awaits[t]["refresh"] # NoCall
                                       /\ call[awaits[t]["refresh"]].token = cookie[b]
    BY DEF ExchangedCookieIsAwaited
  <2>1. PICK q \in Calls : Presented(b, q)
    BY DEF BrowserInv, CookieIsOwn, Unused
  <2>2. PICK t \in Tabs : BrowserOf[t] = b /\ awaits[t]["refresh"] = q
    BY <2>1 DEF BrowserInv, CookieIsOwn
  <2>. QED  BY <2>1, <2>2, BrowserAssumption DEF Presented
<1>. QED  BY <1>1, BrowserInvariant, PTL
=============================================================================
