--------------------------- MODULE Sessions_proofs ---------------------------
(***************************************************************************)
(* Theorems about Sessions: the rows and requests are well typed, a token   *)
(* is revoked before its successor exists, and an answered reuse leaves     *)
(* none of the sessions it found open. All three follow from SessionsInv,   *)
(* which is inductive.                                                     *)
(***************************************************************************)
EXTENDS Sessions, TLAPS

LEMMA SessionsInvInit == SessionsInit => SessionsInv
BY SessionsAssumption
   DEF SessionsInit, SessionsInv, SessionsTypeOK, RevokedBeforeReissued, CallInv,
       InHand, RevokedBeforeCreate, FoundOpen, ReuseEnds, Idle, Request,
       Tokens, Statements, Answers

\* How the rows may change under a request: nothing that was issued disappears
\* or changes hands, and what is revoked stays revoked.
RowsKept ==
  \A n \in SessionIds :
    /\ session[n] # "none" => session'[n] # "none" /\ owner'[n] = owner[n]
    /\ session[n] = "revoked" => session'[n] = "revoked"

LEMMA OtherCall ==
  ASSUME SessionsInv, RowsKept, NEW p \in Calls, call'[p] = call[p]
  PROVE  CallInv(p)'
<1>1. CallInv(p) /\ call[p] \in Request BY DEF SessionsInv, SessionsTypeOK
<1>2. call[p].open \subseteq SessionIds BY <1>1 DEF Request
<1>3. \A n \in Issued : n \in Issued' /\ owner'[n] = owner[n] BY DEF Issued, RowsKept
<1>4. InHand(p)' BY <1>1, <1>3 DEF CallInv, InHand
<1>5. RevokedBeforeCreate(p)'
  BY <1>1 DEF CallInv, InHand, RevokedBeforeCreate, RowsKept, Issued
<1>6. FoundOpen(p)'
  BY <1>1, <1>3 DEF CallInv, FoundOpen, InHand
<1>7. ReuseEnds(p)' BY <1>1, <1>2 DEF CallInv, ReuseEnds, RowsKept
<1> QED BY <1>4, <1>5, <1>6, <1>7 DEF CallInv

\* A step that changes no row and only the request q, which it leaves well
\* formed, preserves the invariant.
LEMMA CallStep ==
  ASSUME SessionsInv, UNCHANGED rowVars, NEW q \in Calls, NEW r \in Request,
         call' = [call EXCEPT ![q] = r], CallInv(q)'
  PROVE  SessionsInv'
<1>1. SessionsTypeOK' /\ RevokedBeforeReissued'
  BY DEF SessionsInv, SessionsTypeOK, RevokedBeforeReissued, rowVars
<1>2. ASSUME NEW p \in Calls PROVE CallInv(p)'
  <2>1. CASE p = q BY <2>1
  <2>2. CASE p # q
    <3>1. call'[p] = call[p] BY <2>2 DEF SessionsInv, SessionsTypeOK
    <3>2. CallInv(p) BY DEF SessionsInv
    <3> QED BY <3>1, <3>2 DEF CallInv, InHand, RevokedBeforeCreate, FoundOpen,
               ReuseEnds, Issued, rowVars
  <2> QED BY <2>1, <2>2
<1> QED BY <1>1, <1>2 DEF SessionsInv

\* What the invariant says of the request a step serves.
LEMMA CallFacts ==
  ASSUME SessionsInv, NEW q \in Calls
  PROVE  /\ CallInv(q)
         /\ call \in [Calls -> Request] /\ call[q] \in Request
         /\ call[q].op \in {"none", "register", "login", "refresh", "logout"}
         /\ call[q].user \in Users \cup {NoUser} /\ call[q].token \in Tokens
         /\ call[q].made \in Tokens /\ call[q].open \in SUBSET SessionIds
         /\ session \in [SessionIds -> {"none", "active", "expired", "revoked"}]
         /\ owner \in [SessionIds -> Users \cup {NoUser}]
         /\ parent \in [SessionIds -> Tokens]
         /\ \A n \in SessionIds : session[n] # "none" <=> owner[n] # NoUser
<1>1. CallInv(q) /\ SessionsTypeOK BY DEF SessionsInv
<1> QED BY <1>1 DEF SessionsTypeOK, Request

\* A request arrives.
LEMMA BeginStep ==
  ASSUME SessionsInv, NEW q \in Calls, NEW op, NEW at, NEW user, NEW token,
         Begin(q, op, at, user, token),
         \/ op = "register" /\ at = "lookup" /\ user \in Users /\ token = NoToken
         \/ op = "login" /\ at = "check" /\ user \in Users /\ token = NoToken
         \/ op \in {"refresh", "logout"} /\ at = "find" /\ user = NoUser /\ token \in Issued
         \/ op = "logout" /\ at = "done" /\ user = NoUser /\ token = NoToken
  PROVE  SessionsInv'
<1> DEFINE r == [Idle EXCEPT !.op = op, !.at = at, !.user = user, !.token = token]
<1>1. r \in Request
  BY DEF Idle, Request, Tokens, Statements, Answers, Issued
<1>2. /\ call' = [call EXCEPT ![q] = r] /\ UNCHANGED rowVars
      /\ call'[q] = r
      /\ r.op = op /\ r.at = at /\ r.user = user /\ r.token = token /\ r.open = {}
  BY CallFacts DEF Begin, Idle
<1>3. CallInv(q)'
  BY <1>2 DEF CallInv, InHand, RevokedBeforeCreate, FoundOpen, ReuseEnds,
              Issued, rowVars
<1> HIDE DEF r
<1> QED BY <1>1, <1>2, <1>3, CallStep

\* Steps that only move a request to another point.
LEMMA MoveStep ==
  ASSUME SessionsInv, NEW q \in Calls, NEW at \in {"idle"} \cup Statements \cup Answers,
         Goto(q, at), UNCHANGED rowVars, call[q].open = {},
         \/ at = "denied" \/ at = "done"
         \/ at = "insert" /\ call[q].op = "register" /\ call[q].user \in Users
         \/ /\ at = "create" /\ call[q].op = "login"
            /\ call[q].user \in Users /\ call[q].token = NoToken
         \/ at \in {"user", "revokeDisabled"} /\ call[q].op = "refresh" /\ call[q].token \in Issued
         \/ at = "revoke" /\ call[q].op \in {"refresh", "logout"} /\ call[q].token \in Issued
  PROVE  SessionsInv'
<1> DEFINE r == [call[q] EXCEPT !.at = at]
<1>1. r \in Request BY CallFacts DEF Request
<1>2. /\ call' = [call EXCEPT ![q] = r] /\ call'[q] = r
      /\ r.op = call[q].op /\ r.at = at /\ r.user = call[q].user
      /\ r.token = call[q].token /\ r.open = {}
  BY CallFacts DEF Goto, Request
<1>3. CallInv(q)'
  BY <1>2 DEF CallInv, InHand, RevokedBeforeCreate, FoundOpen, ReuseEnds,
              Issued, rowVars
<1> HIDE DEF r
<1> QED BY <1>1, <1>2, <1>3, CallStep

\* A step that leaves the sessions, and whatever it does to the accounts.
LEMMA AccountStep ==
  ASSUME SessionsInv, UNCHANGED <<session, owner, parent, call>>,
         registered' \subseteq Users, disabled' \subseteq registered'
  PROVE  SessionsInv'
<1>1. SessionsTypeOK' /\ RevokedBeforeReissued'
  BY DEF SessionsInv, SessionsTypeOK, RevokedBeforeReissued
<1>2. \A q \in Calls : CallInv(q)'
  BY OtherCall DEF RowsKept
<1> QED BY <1>1, <1>2 DEF SessionsInv

\* The row of the account appears and the request is answered.
LEMMA InsertUserStep ==
  ASSUME SessionsInv, NEW q \in Calls, InsertUser(q)
  PROVE  SessionsInv'
<1>1. /\ call[q].at = "insert" /\ call[q].user \in Users
      /\ call[q].op = "register" /\ call[q].open = {}
  BY CallFacts DEF InsertUser, CallInv, InHand, FoundOpen
<1>2. PICK at \in {"denied", "done"} : Goto(q, at)
  BY DEF InsertUser
<1> DEFINE r == [call[q] EXCEPT !.at = at]
<1>3. r \in Request BY CallFacts DEF Request, Answers
<1>4. /\ call' = [call EXCEPT ![q] = r] /\ call'[q] = r
      /\ r.op = "register" /\ r.at = at /\ r.open = {}
  BY <1>1, <1>2, CallFacts DEF Goto, Request
<1>5. CallInv(q)'
  BY <1>4 DEF CallInv, InHand, RevokedBeforeCreate, FoundOpen, ReuseEnds
<1> HIDE DEF r
<1>6. \A p \in Calls : CallInv(p)'
  <2>1. ASSUME NEW p \in Calls, p # q PROVE CallInv(p)'
    <3>1. call'[p] = call[p] BY <1>4, <2>1, CallFacts
    <3> QED BY <3>1, OtherCall DEF RowsKept, InsertUser
  <2> QED BY <1>5, <2>1
<1>7. SessionsTypeOK' /\ RevokedBeforeReissued'
  BY <1>1, <1>3, <1>4
     DEF SessionsInv, SessionsTypeOK, RevokedBeforeReissued, InsertUser
<1> QED BY <1>6, <1>7 DEF SessionsInv

\* The session of the request's token is revoked.
LEMMA RevokeStep ==
  ASSUME SessionsInv, NEW q \in Calls, Revoke(q)
  PROVE  SessionsInv'
<1>1. /\ call[q].at \in {"revoke", "revokeDisabled"}
      /\ call[q].op \in {"refresh", "logout"} /\ call[q].open = {}
      /\ call[q].token \in Issued
  BY CallFacts DEF Revoke, CallInv, InHand, FoundOpen
<1>2. PICK at \in {"denied", "done", "create"} :
        Goto(q, at) /\ (at = "create" => call[q].op = "refresh")
  BY <1>1 DEF Revoke
<1> DEFINE r == [call[q] EXCEPT !.at = at]
<1>3. r \in Request BY CallFacts DEF Request, Answers, Statements
<1>4. /\ call' = [call EXCEPT ![q] = r] /\ call'[q] = r
      /\ r.op = call[q].op /\ r.at = at /\ r.open = {} /\ r.token = call[q].token
  BY <1>1, <1>2, CallFacts DEF Goto, Request
<1>5. /\ RowsKept /\ UNCHANGED <<registered, disabled, owner, parent>>
      /\ session' \in [SessionIds -> {"none", "active", "expired", "revoked"}]
      /\ session'[call[q].token] = "revoked"
      /\ \A n \in SessionIds : session'[n] = "none" <=> session[n] = "none"
  BY <1>1, CallFacts DEF Revoke, RowsKept, Issued
<1>6. CallInv(q)'
  BY <1>1, <1>2, <1>4, <1>5
     DEF CallInv, InHand, RevokedBeforeCreate, FoundOpen, ReuseEnds, Issued
<1>7. SessionsTypeOK'
  BY <1>3, <1>4, <1>5 DEF SessionsInv, SessionsTypeOK
<1>8. RevokedBeforeReissued'
  BY <1>5 DEF SessionsInv, SessionsTypeOK, RevokedBeforeReissued, RowsKept, Tokens
<1> HIDE DEF r
<1>9. \A p \in Calls : CallInv(p)'
  <2>1. ASSUME NEW p \in Calls, p # q PROVE CallInv(p)'
    <3>1. call'[p] = call[p] BY <1>4, <2>1, CallFacts
    <3> QED BY <3>1, <1>5, OtherCall
  <2> QED BY <1>6, <2>1
<1> QED BY <1>7, <1>8, <1>9 DEF SessionsInv

\* The sessions of the token's owner are revoked: all that FoundOpen counted.
LEMMA RevokeAllStep ==
  ASSUME SessionsInv, NEW q \in Calls, RevokeAllForUser(q)
  PROVE  SessionsInv'
<1>1. call[q].at = "reused" /\ call[q].op = "refresh" /\ call[q].token \in Issued
  BY CallFacts DEF RevokeAllForUser, CallInv, InHand
<1> DEFINE r == [call[q] EXCEPT !.at = "denied"]
<1>3. r \in Request BY CallFacts DEF Request, Answers
<1>4. /\ call' = [call EXCEPT ![q] = r] /\ call'[q] = r
      /\ r.op = "refresh" /\ r.at = "denied" /\ r.open = call[q].open
      /\ r.token = call[q].token
  BY <1>1, CallFacts DEF RevokeAllForUser, Goto, Request
<1>5. /\ RowsKept /\ UNCHANGED <<registered, disabled, owner, parent>>
      /\ session' \in [SessionIds -> {"none", "active", "expired", "revoked"}]
      /\ \A n \in SessionIds : session'[n] = "none" <=> session[n] = "none"
      /\ \A n \in SessionIds :
           session'[n] = IF n \in Open(owner[call[q].token]) THEN "revoked" ELSE session[n]
  BY <1>1, CallFacts DEF RevokeAllForUser, RowsKept, Issued, Open
<1>6. \A n \in call[q].open : session'[n] = "revoked"
  BY <1>5, CallFacts DEF CallInv, FoundOpen, Issued, Open
<1>7. CallInv(q)'
  <2>1. FoundOpen(q)'
    BY <1>1, <1>4, <1>5, CallFacts DEF CallInv, FoundOpen, Issued
  <2> QED BY <1>4, <1>6, <2>1
        DEF CallInv, InHand, RevokedBeforeCreate, ReuseEnds
<1>8. SessionsTypeOK'
  BY <1>3, <1>4, <1>5 DEF SessionsInv, SessionsTypeOK
<1>9. RevokedBeforeReissued'
  BY <1>5 DEF SessionsInv, SessionsTypeOK, RevokedBeforeReissued, RowsKept, Tokens
<1> HIDE DEF r
<1>10. \A p \in Calls : CallInv(p)'
  <2>1. ASSUME NEW p \in Calls, p # q PROVE CallInv(p)'
    <3>1. call'[p] = call[p] BY <1>4, <2>1, CallFacts
    <3> QED BY <3>1, <1>5, OtherCall
  <2> QED BY <1>7, <2>1
<1> QED BY <1>8, <1>9, <1>10 DEF SessionsInv

\* A session row appears, for the user who logged in or who owned the token.
LEMMA CreateStep ==
  ASSUME SessionsInv, NEW q \in Calls, CreateSession(q)
  PROVE  SessionsInv'
<1>1. /\ call[q].at = "create" /\ call[q].open = {}
      /\ \/ call[q].op = "login" /\ call[q].user \in Users /\ call[q].token = NoToken
         \/ call[q].op = "refresh" /\ call[q].token \in Issued
      /\ call[q].op = "refresh" => session[call[q].token] = "revoked"
  BY CallFacts DEF CreateSession, CallInv, InHand, FoundOpen, RevokedBeforeCreate
<1>a. NewId \subseteq SessionIds \ Issued BY DEF NewId
<1>2. PICK n \in SessionIds :
        /\ session[n] = "none"
        /\ session' = [session EXCEPT ![n] = "active"]
        /\ owner' = [owner EXCEPT ![n] =
             IF call[q].op = "login" THEN call[q].user ELSE owner[call[q].token]]
        /\ parent' = [parent EXCEPT ![n] = call[q].token]
        /\ call' = [call EXCEPT ![q].at = "issued", ![q].made = n]
        /\ UNCHANGED <<registered, disabled>>
  BY <1>a DEF CreateSession, Issued
<1> DEFINE r == [call[q] EXCEPT !.at = "issued", !.made = n]
<1>3. r \in Request BY CallFacts DEF Request, Answers, Tokens
<1>4. /\ call' = [call EXCEPT ![q] = r] /\ call'[q] = r
      /\ r.at = "issued" /\ r.open = {}
  BY <1>1, <1>2, CallFacts DEF Request
<1>5. owner'[n] \in Users
  BY <1>1, <1>2, CallFacts DEF Issued
<1>6. RowsKept BY <1>2, CallFacts DEF RowsKept
<1>7. CallInv(q)'
  BY <1>4 DEF CallInv, InHand, RevokedBeforeCreate, FoundOpen, ReuseEnds
<1> HIDE DEF r
<1>8. SessionsTypeOK'
  <2>1. /\ session' \in [SessionIds -> {"none", "active", "expired", "revoked"}]
        /\ owner' \in [SessionIds -> Users \cup {NoUser}]
        /\ parent' \in [SessionIds -> Tokens]
    BY <1>2, <1>5, CallFacts
  <2>2. \A m \in SessionIds : session'[m] # "none" <=> owner'[m] # NoUser
    BY <1>2, <1>5, CallFacts, SessionsAssumption
  <2>3. call' \in [Calls -> Request] BY <1>3, <1>4, CallFacts
  <2>4. registered' \subseteq Users /\ disabled' \subseteq registered'
    BY <1>2 DEF SessionsInv, SessionsTypeOK
  <2> QED BY <2>1, <2>2, <2>3, <2>4 DEF SessionsTypeOK
<1>9. RevokedBeforeReissued'
  <2> SUFFICES ASSUME NEW m \in SessionIds, parent'[m] # NoToken
               PROVE  session'[parent'[m]] = "revoked"
    BY DEF RevokedBeforeReissued
  <2>1. CASE m = n
    <3>1. parent'[m] = call[q].token BY <2>1, <1>2, CallFacts
    <3>2. call[q].token \in SessionIds /\ session[call[q].token] = "revoked"
      BY <3>1, <1>1 DEF Issued
    <3> QED BY <3>1, <3>2, <1>6 DEF RowsKept
  <2>2. CASE m # n
    <3>1. parent'[m] = parent[m] BY <2>2, <1>2, CallFacts
    <3>2. session[parent[m]] = "revoked" /\ parent[m] \in SessionIds
      BY <3>1, CallFacts DEF SessionsInv, RevokedBeforeReissued, Tokens
    <3> QED BY <3>1, <3>2, <1>6 DEF RowsKept
  <2> QED BY <2>1, <2>2
<1>10. \A p \in Calls : CallInv(p)'
  <2>1. ASSUME NEW p \in Calls, p # q PROVE CallInv(p)'
    <3>1. call'[p] = call[p] BY <1>4, <2>1, CallFacts
    <3> QED BY <3>1, <1>6, OtherCall
  <2> QED BY <1>7, <2>1
<1> QED BY <1>8, <1>9, <1>10 DEF SessionsInv

\* A reuse is found: the sessions of the user that are open are noted.
LEMMA FindSessionStep ==
  ASSUME SessionsInv, NEW q \in Calls, FindSession(q)
  PROVE  SessionsInv'
<1> DEFINE n == call[q].token
<1>1. /\ call[q].at = "find" /\ call[q].open = {} /\ n \in Issued
      /\ UNCHANGED rowVars
  BY CallFacts DEF FindSession, CallInv, InHand, FoundOpen
<1>2. CASE Goto(q, "revoke") /\ call[q].op = "logout"
  BY <1>1, <1>2, MoveStep DEF Statements
<1>3. CASE Goto(q, "user") /\ call[q].op = "refresh"
  BY <1>1, <1>3, MoveStep DEF Statements
<1>4. CASE /\ call[q].op = "refresh"
           /\ call' = [call EXCEPT ![q].at = "reused", ![q].open = Open(owner[n])]
  <2> DEFINE r == [call[q] EXCEPT !.at = "reused", !.open = Open(owner[n])]
  <2>1. r \in Request BY CallFacts DEF Request, Statements, Open
  <2>2. /\ call' = [call EXCEPT ![q] = r] /\ call'[q] = r
        /\ r.op = "refresh" /\ r.at = "reused" /\ r.token = n /\ r.open = Open(owner[n])
    BY <1>4, CallFacts DEF Request
  <2>3. FoundOpen(q)'
    BY <1>1, <2>2 DEF FoundOpen, Open, Issued, rowVars
  <2>4. CallInv(q)'
    BY <1>1, <2>2, <2>3
       DEF CallInv, InHand, RevokedBeforeCreate, ReuseEnds, Issued, rowVars
  <2> HIDE DEF r
  <2> QED BY <1>1, <2>1, <2>2, <2>4, CallStep
<1> QED BY <1>2, <1>3, <1>4 DEF FindSession

\* A statement fails.
LEMMA FailStep ==
  ASSUME SessionsInv, NEW q \in Calls, Fail(q)
  PROVE  SessionsInv'
<1>1. PICK at \in {"denied", "done"} :
        call' = [call EXCEPT ![q].at = at, ![q].open = {}]
  BY DEF Fail
<1> DEFINE r == [call[q] EXCEPT !.at = at, !.open = {}]
<1>2. r \in Request BY CallFacts DEF Request, Answers
<1>3. /\ call' = [call EXCEPT ![q] = r] /\ call'[q] = r
      /\ r.at = at /\ r.open = {}
  BY <1>1, CallFacts DEF Request
<1>4. CallInv(q)'
  BY <1>3 DEF CallInv, InHand, RevokedBeforeCreate, FoundOpen, ReuseEnds
<1> HIDE DEF r
<1> QED BY <1>2, <1>3, <1>4, CallStep DEF Fail

\* A session reaches expires_at.
LEMMA ExpireStep ==
  ASSUME SessionsInv, NEW n \in SessionIds, Expire(n)
  PROVE  SessionsInv'
<1>1. RowsKept BY CallFacts DEF Expire, RowsKept, SessionsInv, SessionsTypeOK
<1>2. SessionsTypeOK' BY DEF SessionsInv, SessionsTypeOK, Expire
<1>3. RevokedBeforeReissued'
  BY <1>1 DEF SessionsInv, SessionsTypeOK, RevokedBeforeReissued, RowsKept, Expire, Tokens
<1>4. \A q \in Calls : CallInv(q)' BY <1>1, OtherCall DEF Expire
<1> QED BY <1>2, <1>3, <1>4 DEF SessionsInv

\* The request has been answered.
LEMMA ReturnStep ==
  ASSUME SessionsInv, NEW q \in Calls, Return(q)
  PROVE  SessionsInv'
<1>1. Idle \in Request BY DEF Idle, Request, Tokens
<1>2. call'[q] = Idle BY CallFacts DEF Return
<1>3. CallInv(q)'
  BY <1>2 DEF Idle, CallInv, InHand, RevokedBeforeCreate, FoundOpen, ReuseEnds
<1> QED BY <1>1, <1>3, CallStep DEF Return

\* Every step of a request, by statement.
LEMMA ServeStep ==
  ASSUME SessionsInv, NEW q \in Calls, Serve(q)
  PROVE  SessionsInv'
<1>1. CallInv(q) BY CallFacts
<1>2. CASE LookupEmail(q)
  BY <1>1, <1>2, MoveStep
     DEF LookupEmail, CallInv, InHand, FoundOpen, Statements, Answers
<1>3. CASE CheckCredentials(q)
  <2>1. PICK at \in {"create", "denied"} : Goto(q, at) BY <1>3 DEF CheckCredentials
  <2>2. /\ call[q].op = "login" /\ call[q].user \in Users /\ call[q].token = NoToken
        /\ call[q].open = {} /\ UNCHANGED rowVars
    BY <1>1, <1>3 DEF CheckCredentials, CallInv, InHand, FoundOpen
  <2> QED BY <2>1, <2>2, MoveStep DEF Statements, Answers
<1>4. CASE FindUser(q)
  BY <1>1, <1>4, MoveStep DEF FindUser, CallInv, InHand, FoundOpen, Statements
<1> QED BY <1>2, <1>3, <1>4, InsertUserStep, FindSessionStep, RevokeAllStep,
           RevokeStep, CreateStep, FailStep DEF Serve

LEMMA SessionsInvNext ==
  SessionsInv /\ [SessionsNext]_sessionVars => SessionsInv'
<1> SUFFICES ASSUME SessionsInv, [SessionsNext]_sessionVars PROVE SessionsInv'
  OBVIOUS
<1>1. ASSUME NEW q \in Calls, NEW u \in Users, BeginRegister(q, u) \/ BeginLogin(q, u)
      PROVE  SessionsInv'
  BY <1>1, BeginStep DEF BeginRegister, BeginLogin
<1>2. ASSUME NEW q \in Calls, NEW n \in Issued, BeginRefresh(q, n)
      PROVE  SessionsInv'
  BY <1>2, BeginStep DEF BeginRefresh
<1>3. ASSUME NEW q \in Calls, NEW n \in Issued \cup {NoToken}, BeginLogout(q, n)
      PROVE  SessionsInv'
  <2>1. n = NoToken <=> n \notin Issued BY SessionsAssumption DEF Issued
  <2> QED BY <1>3, <2>1, BeginStep DEF BeginLogout
<1>4. ASSUME NEW u \in Users, Disable(u) PROVE SessionsInv'
  BY <1>4, AccountStep DEF Disable, SessionsInv, SessionsTypeOK
<1>5. CASE UNCHANGED sessionVars
  BY <1>5, AccountStep DEF sessionVars, rowVars, SessionsInv, SessionsTypeOK
<1> QED BY <1>1, <1>2, <1>3, <1>4, <1>5, ServeStep, ReturnStep, ExpireStep
        DEF SessionsNext

\* Whatever requests interleave, expire or fail, a request has in hand what its
\* next statement needs, a token about to be exchanged is revoked already, and the
\* sessions a reuse found are those of the user whose sessions it ends.
THEOREM SessionsInvariant == SessionsSpec => []SessionsInv
BY SessionsInvInit, SessionsInvNext, PTL DEF SessionsSpec

\* The rows and the requests are well typed, and every session ever issued has
\* an owner (issuePair, service.go:297).
THEOREM SessionsTypeCorrect == SessionsSpec => []SessionsTypeOK
<1>1. SessionsInv => SessionsTypeOK BY DEF SessionsInv
<1> QED BY <1>1, SessionsInvariant, PTL

\* Refresh revokes before it issues (service.go:234-238): whatever requests
\* interleave, expire or fail, a token with a successor is revoked.
THEOREM RotationSafe == SessionsSpec => []RevokedBeforeReissued
<1>1. SessionsInv => RevokedBeforeReissued BY DEF SessionsInv
<1> QED BY <1>1, SessionsInvariant, PTL

\* Reuse of a rotated token revokes every session that is open when it is found
\* (service.go:218-223).
THEOREM ReuseSafe == SessionsSpec => []ReuseEndsSessions
<1>1. SessionsInv => ReuseEndsSessions
  BY DEF SessionsInv, CallInv, ReuseEndsSessions
<1> QED BY <1>1, SessionsInvariant, PTL
=============================================================================
