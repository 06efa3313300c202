------------------------------ MODULE Sessions ------------------------------
(***************************************************************************)
(* The identity service: accounts, refresh-token sessions and the requests *)
(* that read and write them one statement at a time, without a             *)
(* transaction (identity/application/service.go over                       *)
(* identity/infrastructure/repository.go).                                 *)
(*                                                                         *)
(* A refresh token is identified with the session row that stores its      *)
(* hash: tokens are random and a row is found by exactly one of them.      *)
(* Access tokens are stateless and left to the module of the browser.      *)
(***************************************************************************)
EXTENDS Naturals, FiniteSets

CONSTANTS
  Users,       \* e-mail addresses
  SessionIds,  \* BOUND: session rows that may be created
  Calls,       \* BOUND: requests the API serves at the same time
  NoToken, NoUser,
  Expiry,      \* sessions may reach expires_at
  DbErrors     \* a statement may fail (or the client hang up before it)

ASSUME SessionsAssumption ==
  /\ NoToken \notin SessionIds
  /\ NoUser \notin Users
  /\ {Expiry, DbErrors} \subseteq BOOLEAN

VARIABLES
  registered,  \* users with a row
  disabled,    \* users with is_active = false
  session,     \* "none", "active", "expired" or "revoked"
  owner,       \* sessions.user_id
  parent,      \* history: the token a session was exchanged for
  call         \* the requests being served

rowVars == <<registered, disabled, session, owner, parent>>
sessionVars == <<rowVars, call>>

Tokens == SessionIds \cup {NoToken}

Answers == {"issued", "done", "denied"}
Statements ==
  {"lookup", "insert", "check", "find", "user", "revoke", "revokeDisabled",
   "reused", "create"}

Request ==
  [op : {"none", "register", "login", "refresh", "logout"},
   at : {"idle"} \cup Statements \cup Answers,
   user : Users \cup {NoUser},
   token : Tokens,     \* the token presented
   made : Tokens,      \* the token of the session created
   open : SUBSET SessionIds]  \* history: unrevoked when reuse was found

Idle ==
  [op |-> "none", at |-> "idle", user |-> NoUser, token |-> NoToken,
   made |-> NoToken, open |-> {}]

SessionsInit ==
  /\ registered = {} /\ disabled = {}
  /\ session = [n \in SessionIds |-> "none"]
  /\ owner = [n \in SessionIds |-> NoUser]
  /\ parent = [n \in SessionIds |-> NoToken]
  /\ call = [q \in Calls |-> Idle]

Goto(q, at) == call' = [call EXCEPT ![q].at = at]

Issued == {n \in SessionIds : session[n] # "none"}

Open(u) == {n \in SessionIds : owner[n] = u /\ session[n] \in {"active", "expired"}}

-----------------------------------------------------------------------------
(* A request arrives.                                                      *)

Begin(q, op, at, user, token) ==
  /\ call[q] = Idle
  /\ call' = [call EXCEPT ![q] = [Idle EXCEPT
       !.op = op, !.at = at, !.user = user, !.token = token]]
  /\ UNCHANGED rowVars

BeginRegister(q, u) == Begin(q, "register", "lookup", u, NoToken)
BeginLogin(q, u) == Begin(q, "login", "check", u, NoToken)
BeginRefresh(q, n) == Begin(q, "refresh", "find", NoUser, n)
\* Without a token in the body Logout answers at once.
BeginLogout(q, n) ==
  Begin(q, "logout", IF n = NoToken THEN "done" ELSE "find", NoUser, n)

-----------------------------------------------------------------------------
(* Register. *)

LookupEmail(q) ==
  /\ call[q].at = "lookup"
  /\ Goto(q, IF call[q].user \in registered THEN "denied" ELSE "insert")
  /\ UNCHANGED rowVars

\* The unique index of users.email turns a lost race into a conflict.
InsertUser(q) ==
  /\ call[q].at = "insert"
  /\ Goto(q, IF call[q].user \in registered THEN "denied" ELSE "done")
  /\ registered' = registered \cup {call[q].user}
  /\ UNCHANGED <<disabled, session, owner, parent>>

-----------------------------------------------------------------------------
(* Login: FindByEmail, CanLogin, password. *)

CheckCredentials(q) ==
  /\ call[q].at = "check"
  /\ \E ok \in BOOLEAN :
       Goto(q, IF ok /\ call[q].user \in registered \ disabled
               THEN "create" ELSE "denied")
  /\ UNCHANGED rowVars

-----------------------------------------------------------------------------
(* Refresh and Logout: FindByRefreshHash, then IsActive for Refresh only. *)

FindSession(q) ==
  LET n == call[q].token IN
  /\ call[q].at = "find"
  /\ \/ call[q].op = "logout" /\ Goto(q, "revoke")
     \/ call[q].op = "refresh" /\ session[n] = "active" /\ Goto(q, "user")
     \/ /\ call[q].op = "refresh" /\ session[n] # "active"  \* it may be reused
        /\ call' = [call EXCEPT ![q].at = "reused", ![q].open = Open(owner[n])]
  /\ UNCHANGED rowVars

\* MUTANT of RevokeAllForUser: only the session presented is revoked.
RevokeOnlyPresented(q) ==
  /\ call[q].at = "reused"
  /\ session' = [session EXCEPT ![call[q].token] = "revoked"]
  /\ Goto(q, "denied")
  /\ UNCHANGED <<registered, disabled, owner, parent>>

\* Reuse of a rotated token: kill every session of the user, and answer 401.
RevokeAllForUser(q) ==
  /\ call[q].at = "reused"
  /\ session' = [n \in SessionIds |->
       IF n \in Open(owner[call[q].token]) THEN "revoked" ELSE session[n]]
  /\ Goto(q, "denied")
  /\ UNCHANGED <<registered, disabled, owner, parent>>

\* MUTANT of FindUser: the new pair is issued first, the old one never revoked.
FindUserThenIssue(q) ==
  /\ call[q].at = "user"
  /\ Goto(q, IF owner[call[q].token] \in disabled THEN "revokeDisabled" ELSE "create")
  /\ UNCHANGED rowVars

FindUser(q) ==
  /\ call[q].at = "user"
  /\ Goto(q, IF owner[call[q].token] \in disabled THEN "revokeDisabled" ELSE "revoke")
  /\ UNCHANGED rowVars

\* UPDATE ... WHERE id = $1 AND revoked_at IS NULL: that no row may have been
\* updated is not looked at.
Revoke(q) ==
  /\ call[q].at \in {"revoke", "revokeDisabled"}
  /\ session' = [session EXCEPT ![call[q].token] = "revoked"]
  /\ Goto(q, IF call[q].op = "logout" THEN "done"
             ELSE IF call[q].at = "revoke" THEN "create" ELSE "denied")
  /\ UNCHANGED <<registered, disabled, owner, parent>>

-----------------------------------------------------------------------------
(* issuePair, of Login and of Refresh: INSERT INTO sessions. *)

\* A new id and a new token are random: which of the unused is immaterial.
NewId ==
  LET unused == SessionIds \ Issued
  IN  IF unused = {} THEN {} ELSE {CHOOSE n \in unused : TRUE}

\* MUTANT of CreateSession: the row belongs to the user the request names.
CreateSessionForCaller(q) ==
  /\ call[q].at = "create"
  /\ \E n \in NewId :
       /\ session' = [session EXCEPT ![n] = "active"]
       /\ owner' = [owner EXCEPT ![n] = call[q].user]
       /\ parent' = [parent EXCEPT ![n] = call[q].token]
       /\ call' = [call EXCEPT ![q].at = "issued", ![q].made = n]
  /\ UNCHANGED <<registered, disabled>>

CreateSession(q) ==
  /\ call[q].at = "create"
  /\ \E n \in NewId :
       /\ session' = [session EXCEPT ![n] = "active"]
       /\ owner' = [owner EXCEPT ![n] =
            IF call[q].op = "login" THEN call[q].user ELSE owner[call[q].token]]
       /\ parent' = [parent EXCEPT ![n] = call[q].token]
       /\ call' = [call EXCEPT ![q].at = "issued", ![q].made = n]
  /\ UNCHANGED <<registered, disabled>>

\* A statement fails: the handler answers an error, nothing is undone. Logout
\* answers 204 when its lookup fails; a failed RevokeAllForUser is ignored.
Fail(q) ==
  /\ DbErrors
  /\ call[q].at \in Statements
  /\ call' = [call EXCEPT
       ![q].at = IF @ = "find" /\ call[q].op = "logout" THEN "done" ELSE "denied",
       ![q].open = {}]
  /\ UNCHANGED rowVars

Serve(q) ==
  \/ LookupEmail(q) \/ InsertUser(q) \/ CheckCredentials(q) \/ FindSession(q)
  \/ RevokeAllForUser(q) \/ FindUser(q) \/ Revoke(q) \/ CreateSession(q) \/ Fail(q)

\* The answer has been written, whoever reads it.
Return(q) ==
  /\ call[q].at \in Answers
  /\ call' = [call EXCEPT ![q] = Idle]
  /\ UNCHANGED rowVars

-----------------------------------------------------------------------------
(* Time, and the operator's SQL. *)

Expire(n) ==
  /\ Expiry
  /\ session[n] = "active"
  /\ session' = [session EXCEPT ![n] = "expired"]
  /\ UNCHANGED <<registered, disabled, owner, parent, call>>

Disable(u) ==
  /\ u \in registered
  /\ disabled' = disabled \cup {u}
  /\ UNCHANGED <<registered, session, owner, parent, call>>

\* Any client may present any token that was ever issued, at any time.
SessionsNext ==
  \/ \E q \in Calls, u \in Users : BeginRegister(q, u) \/ BeginLogin(q, u)
  \/ \E q \in Calls, n \in Issued : BeginRefresh(q, n)
  \/ \E q \in Calls, n \in Issued \cup {NoToken} : BeginLogout(q, n)
  \/ \E q \in Calls : Serve(q) \/ Return(q)
  \/ \E n \in SessionIds : Expire(n)
  \/ \E u \in Users : Disable(u)

SessionsSpec == SessionsInit /\ [][SessionsNext]_sessionVars

-----------------------------------------------------------------------------
SessionsTypeOK ==
  /\ registered \subseteq Users
  /\ disabled \subseteq registered
  /\ session \in [SessionIds -> {"none", "active", "expired", "revoked"}]
  /\ owner \in [SessionIds -> Users \cup {NoUser}]
  /\ parent \in [SessionIds -> Tokens]
  /\ call \in [Calls -> Request]
  /\ \A n \in SessionIds : session[n] # "none" <=> owner[n] # NoUser

\* A token is revoked before its successor exists, whatever fails and however
\* requests interleave: nobody ever holds a token and its successor both alive.
RevokedBeforeReissued ==
  \A n \in SessionIds :
    parent[n] # NoToken => session[parent[n]] = "revoked"

ReuseEnds(q) ==
  call[q].op = "refresh" /\ call[q].at = "denied" =>
    \A n \in call[q].open : session[n] = "revoked"

\* Once a reuse has been answered, none of the sessions that were open when it
\* was found is open, whatever requests of theirs were on their way
\* (SECURITY.md:31-33).
ReuseEndsSessions == \A q \in Calls : ReuseEnds(q)

\* A token is exchanged at most once, however many requests present it
\* (SECURITY.md:32, "Rotated on every use").
ExchangedOnce ==
  \A m, n \in SessionIds :
    parent[m] = parent[n] /\ parent[m] # NoToken => m = n

\* The strengthening the proofs use: what a request has in hand at each
\* statement; that a token about to be exchanged is revoked already; and that
\* the sessions a reuse found belong to the user whose sessions it ends.
InHand(q) ==
  /\ call[q].at \in {"lookup", "insert"} =>
       call[q].op = "register" /\ call[q].user \in Users
  /\ call[q].at = "check" =>
       call[q].op = "login" /\ call[q].user \in Users /\ call[q].token = NoToken
  /\ call[q].at \in {"find", "revoke"} =>
       call[q].op \in {"refresh", "logout"} /\ call[q].token \in Issued
  /\ call[q].at \in {"user", "reused", "revokeDisabled"} =>
       call[q].op = "refresh" /\ call[q].token \in Issued
  /\ call[q].at = "create" =>
       \/ call[q].op = "login" /\ call[q].user \in Users /\ call[q].token = NoToken
       \/ call[q].op = "refresh" /\ call[q].token \in Issued

RevokedBeforeCreate(q) ==
  call[q].op = "refresh" /\ call[q].at = "create"
    => session[call[q].token] = "revoked"

FoundOpen(q) ==
  \A n \in call[q].open :
    /\ n \in Issued
    /\ call[q].op = "refresh" /\ call[q].at \in {"reused", "denied"}
    /\ call[q].token \in Issued /\ owner[n] = owner[call[q].token]

CallInv(q) ==
  InHand(q) /\ RevokedBeforeCreate(q) /\ FoundOpen(q) /\ ReuseEnds(q)

SessionsInv ==
  /\ SessionsTypeOK
  /\ RevokedBeforeReissued
  /\ \A q \in Calls : CallInv(q)
=============================================================================
