--------------------------- MODULE BrowserSession ---------------------------
(***************************************************************************)
(* The dashboard's session handling (frontend/src/lib/api-client.ts,        *)
(* lib/auth.ts, stores/auth-store.ts) composed with the identity service of *)
(* Sessions: browser tabs that share the cookies of their browser, wait for *)
(* answers one promise at a time, and refresh the token pair when a call is *)
(* answered 401.                                                            *)
(*                                                                         *)
(* An access token may be refused at any time (it is short-lived), so the   *)
(* access cookie, set and removed with the refresh cookie, is not a state   *)
(* of its own. A refresh cookie expires with its session, so browsers never *)
(* present an expired token.                                                *)
(***************************************************************************)
EXTENDS Sessions

CONSTANTS
  Tabs,
  Browsers,
  BrowserOf,  \* whose cookies a tab uses
  NoCall

ASSUME BrowserAssumption ==
  /\ BrowserOf \in [Tabs -> Browsers]
  /\ NoCall \notin Calls

VARIABLES
  cookie,  \* nebula_refresh, per browser
  awaits   \* the requests a tab's promises wait for; refresh is inflightRefresh

clientVars == <<cookie, awaits>>
browserVars == <<sessionVars, clientVars>>

Kinds == {"login", "refresh", "logout"}

\* The accounts exist.
BrowserInit ==
  /\ registered = Users /\ disabled = {}
  /\ session = [n \in SessionIds |-> "none"]
  /\ owner = [n \in SessionIds |-> NoUser]
  /\ parent = [n \in SessionIds |-> NoToken]
  /\ call = [q \in Calls |-> Idle]
  /\ cookie = [b \in Browsers |-> NoToken]
  /\ awaits = [t \in Tabs |-> [k \in Kinds |-> NoCall]]

-----------------------------------------------------------------------------
Await(t, kind, q) ==
  /\ awaits[t][kind] = NoCall
  /\ awaits' = [awaits EXCEPT ![t][kind] = q]

\* The promise is settled: awaited no more, whatever the outcome.
Settle(t, kind) == awaits' = [awaits EXCEPT ![t][kind] = NoCall]

SetCookie(t, n) == cookie' = [cookie EXCEPT ![BrowserOf[t]] = n]

\* The answer arrives.
Answered(t, kind, at) ==
  LET q == awaits[t][kind] IN
  /\ q # NoCall
  /\ call[q].at = at
  /\ Return(q)
  /\ Settle(t, kind)

\* The connection fails. The server, if the request reached it, goes on.
Lost(t, kind) ==
  /\ awaits[t][kind] # NoCall
  /\ Settle(t, kind)
  /\ UNCHANGED sessionVars

-----------------------------------------------------------------------------
(* The login form. *)

ClickLogin(t, q, u) ==
  /\ Await(t, "login", q)
  /\ BeginLogin(q, u)
  /\ UNCHANGED cookie

LoginAnswered(t) ==
  \/ /\ Answered(t, "login", "issued")
     /\ SetCookie(t, call[awaits[t]["login"]].made)
  \/ (Answered(t, "login", "denied") \/ Lost(t, "login")) /\ UNCHANGED cookie

-----------------------------------------------------------------------------
(* A call is answered 401. *)

\* MUTANT of Unauthorized: the refresh in flight is not looked at.
UnauthorizedAlone(t, q) ==
  LET n == cookie[BrowserOf[t]] IN
  /\ n # NoToken
  /\ BeginRefresh(q, n)
  /\ awaits' = [awaits EXCEPT ![t]["refresh"] = q]
  /\ UNCHANGED cookie

\* Calls that find a refresh in flight wait for it, and one that finds no
\* cookie clears what is left of the session: neither changes anything.
Unauthorized(t, q) ==
  LET n == cookie[BrowserOf[t]] IN
  /\ n # NoToken
  /\ Await(t, "refresh", q)
  /\ BeginRefresh(q, n)
  /\ UNCHANGED cookie

RefreshIssued(t) ==
  /\ Answered(t, "refresh", "issued")
  /\ SetCookie(t, call[awaits[t]["refresh"]].made)

\* MUTANT of RefreshFailed: inflightRefresh is reset on success only.
RefreshFailedForgotten(t) ==
  /\ awaits[t]["refresh"] # NoCall
  /\ SetCookie(t, NoToken)
  /\ UNCHANGED <<sessionVars, awaits>>

\* MUTANT of RefreshFailed: the tokens are kept for another try.
RefreshFailedKept(t) ==
  /\ Answered(t, "refresh", "denied") \/ Lost(t, "refresh")
  /\ UNCHANGED cookie

\* The refresh is refused or lost: every caller clears the tokens.
RefreshFailed(t) ==
  /\ Answered(t, "refresh", "denied") \/ Lost(t, "refresh")
  /\ SetCookie(t, NoToken)

\* fetchMe clears the tokens on any error, a network error included. Expiry looks
\* the same: the browser drops the cookie when the session expires.
FetchMeFailed(t) ==
  /\ cookie[BrowserOf[t]] # NoToken
  /\ SetCookie(t, NoToken)
  /\ UNCHANGED <<sessionVars, awaits>>

-----------------------------------------------------------------------------
(* Logout posts an empty body, then forgets the tokens whatever happened. *)

ClickLogout(t, q) ==
  /\ Await(t, "logout", q)
  /\ BeginLogout(q, NoToken)
  /\ UNCHANGED cookie

LogoutAnswered(t) ==
  /\ Answered(t, "logout", "done") \/ Lost(t, "logout")
  /\ SetCookie(t, NoToken)

-----------------------------------------------------------------------------
(* The server goes on by itself. *)

ServeCall(q) == Serve(q) /\ UNCHANGED clientVars

\* An answer nobody waits for any more.
ReturnUnread(q) ==
  /\ \A t \in Tabs, k \in Kinds : awaits[t][k] # q
  /\ Return(q)
  /\ UNCHANGED clientVars

BrowserNext ==
  \/ \E t \in Tabs, q \in Calls :
       \/ \E u \in Users : ClickLogin(t, q, u)
       \/ Unauthorized(t, q)
       \/ ClickLogout(t, q)
  \/ \E t \in Tabs :
       \/ LoginAnswered(t) \/ LogoutAnswered(t)
       \/ RefreshIssued(t) \/ RefreshFailed(t) \/ FetchMeFailed(t)
  \/ \E q \in Calls : ServeCall(q) \/ ReturnUnread(q)

\* The server serves what it received and fetch settles, one way or the other.
BrowserSpec ==
  /\ BrowserInit /\ [][BrowserNext]_browserVars
  /\ \A q \in Calls : WF_browserVars(ServeCall(q))
  /\ \A t \in Tabs : WF_browserVars(RefreshIssued(t) \/ RefreshFailed(t))

-----------------------------------------------------------------------------
BrowserTypeOK ==
  /\ SessionsTypeOK
  /\ cookie \in [Browsers -> Tokens]
  /\ awaits \in [Tabs -> [Kinds -> Calls \cup {NoCall}]]
  /\ \A b \in Browsers : cookie[b] # NoToken => cookie[b] \in Issued

Exchanged(n) == \E m \in SessionIds : parent[m] = n

\* A browser whose tabs share one inflightRefresh never presents a token it has
\* exchanged, so it never looks like a thief and ends every session of its user
\* (api-client.ts:36-66 against service.go:218-223): not after lost answers, and
\* not when a refresh races a logout or a login.
NeverMistakenForReuse ==
  \A q \in Calls : call[q].at # "reused"

\* A cookie whose token has been exchanged is about to be replaced or cleared:
\* the tab that exchanged it is still waiting for the answer.
ExchangedCookieIsAwaited ==
  \A b \in Browsers :
    cookie[b] # NoToken /\ Exchanged(cookie[b]) =>
      \E t \in Tabs : /\ BrowserOf[t] = b /\ awaits[t]["refresh"] # NoCall
                      /\ call[awaits[t]["refresh"]].token = cookie[b]

-----------------------------------------------------------------------------
(* Why a browser is never mistaken for a thief: the inductive strengthening *)
(* of the two invariants above, when no browser has two tabs.               *)

OneTabEach == \A s, t \in Tabs : BrowserOf[s] = BrowserOf[t] => s = t

\* What is true with any number of tabs: an answer carries a token of a row.
TokensInv ==
  /\ SessionsInv
  /\ BrowserTypeOK
  /\ \A q \in Calls : call[q].at = "issued" => call[q].made \in Issued

\* A request is awaited by one promise, of its kind.
AwaitedOnce ==
  /\ \A t \in Tabs, k \in Kinds :
       awaits[t][k] # NoCall => call[awaits[t][k]].op = k
  /\ \A s, t \in Tabs, k \in Kinds :
       awaits[s][k] = awaits[t][k] /\ awaits[t][k] # NoCall => s = t

\* What nobody has presented yet.
Unused(n) ==
  /\ session[n] = "active" /\ ~Exchanged(n)
  /\ \A q \in Calls : call[q].op = "refresh" => call[q].token # n

\* The token of an answer on its way is unused, and nowhere else.
MadeIsNew ==
  \A q \in Calls : call[q].at = "issued" =>
    /\ Unused(call[q].made)
    /\ \A b \in Browsers : cookie[b] # call[q].made
    /\ \A p \in Calls \ {q} : call[p].at = "issued" => call[p].made # call[q].made

\* A cookie is of one browser. It is unused, or was presented by a request that
\* a tab of the browser awaits.
Presented(b, q) == call[q].op = "refresh" /\ call[q].token = cookie[b]

CookieIsOwn ==
  \A b \in Browsers : cookie[b] # NoToken =>
    /\ \A c \in Browsers : cookie[c] = cookie[b] => c = b
    /\ Unused(cookie[b]) \/ \E q \in Calls : Presented(b, q)
    /\ \A q \in Calls : Presented(b, q) =>
         \E t \in Tabs : BrowserOf[t] = b /\ awaits[t]["refresh"] = q

\* No two requests present one token, and until it is revoked it is active.
PresentedOnce ==
  \A q \in Calls :
    /\ call[q].op = "logout" => call[q].at = "done"
    /\ call[q].op = "refresh" =>
         /\ call[q].token \in Issued
         /\ call[q].at \in {"find", "user", "revoke"} => session[call[q].token] = "active"
         /\ \A p \in Calls \ {q} : call[p].op = "refresh" => call[p].token # call[q].token

\* A token is presented by one request, which the browser that holds it in its
\* cookie awaits, and the token of an answer on its way is new and nowhere else: why a
\* shared inflightRefresh keeps a browser from presenting what it has exchanged
\* (api-client.ts:36-66).
BrowserInv ==
  /\ TokensInv /\ AwaitedOnce /\ MadeIsNew /\ CookieIsOwn /\ PresentedOnce
  /\ NeverMistakenForReuse

-----------------------------------------------------------------------------
\* A refresh that failed does not keep the tab's later calls waiting for ever
\* (the finally of api-client.ts:60-62).
RefreshSettles ==
  \A t \in Tabs : awaits[t]["refresh"] # NoCall ~> awaits[t]["refresh"] = NoCall
=============================================================================
