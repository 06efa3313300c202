------------------------------ MODULE Workspace ------------------------------
(***************************************************************************)
(* One tab of the dashboard between sign-in and project: the route gate     *)
(* (frontend/middleware.ts), the sign-in pages, the stores, the layout's    *)
(* bootstrap effects, the personal organization (lib/ensure-organization.ts)*)
(* and the organizations of the projects page, over the API's memberships   *)
(* and the cached list of organizations. ProjectPages has the projects.     *)
(*                                                                         *)
(* An async function of the tab is a job: the request it waits for, the     *)
(* answer, and whether the component that called it is still mounted. The   *)
(* cookies' owner when the server answers stands for the token sent: a      *)
(* request answered with an older token could have been answered earlier.   *)
(***************************************************************************)
EXTENDS QueryCache, Naturals, FiniteSets

CONSTANTS
  Users, Orgs,
  Members,    \* the organizations the accounts have at first
  Holders,    \* whose tokens the cookies may hold at first
  Kept,       \* what localStorage may hold as the selection at first
  MaxActs,    \* commands of the user that send a request or load the document
  MaxFaults   \* requests that are not answered as asked

ASSUME WorkspaceAssumption ==
  /\ None \notin Users \cup Orgs
  /\ Members \in [Users -> SUBSET Orgs]
  /\ Holders \subseteq Users \cup {None} /\ Kept \subseteq Orgs \cup {None}
  /\ MaxActs \in Nat /\ MaxFaults \in Nat

VARIABLES
  orgs,      \* memberships: the organizations of a user
  cookie,    \* whose tokens the browser's cookies hold
  user,      \* auth-store
  selected,  \* org-store, kept in localStorage
  page,
  arrival,   \* how the dashboard layout that is mounted came up
  query,     \* the cached list of organizations
  busy,      \* the busy flags of the mounted page that are set
  job,
  acts, faults

stores == <<cookie, user, selected>>
screen == <<page, arrival, busy, job>>
bounds == <<acts, faults>>
vars == <<orgs, stores, screen, query, bounds>>

SignIn == "signIn"  \* /login and /register
Dashboard == {"dashboard", "projects"}  \* /dashboard stands for the other pages too

EnsureJobs == {"auth", "me", "bootstrap"}
PageJobs == {"auth", "bootstrap", "createOrg", "createProject"}
Jobs == PageJobs \cup {"me", "logout"}

Idle == [at |-> "idle", status |-> "none", value |-> None, live |-> FALSE]
Begun(at, v) == [at |-> at, status |-> "none", value |-> v, live |-> TRUE]

First(S) == CHOOSE o \in S : TRUE  \* the list is ordered by name

-----------------------------------------------------------------------------
(* Pages *)

Gate(p, who) ==
  IF p \in Dashboard /\ who = None THEN SignIn
  ELSE IF p = SignIn /\ who # None THEN "dashboard"
  ELSE p

\* The cache becomes Q; when the layout comes up, its OrgSyncBootstrap watches it.
Observe(Q) ==
  IF page \notin Dashboard /\ page' \in Dashboard
  THEN \E old \in {FALSE, Q.fresh} : query' = Refresh(Q, old)
  ELSE query' = Q

\* A page that is left takes its flags along; its jobs go on without them.
Unmount(J, gone) ==
  [k \in Jobs |-> IF k \in gone /\ J[k].at # "idle" THEN [J[k] EXCEPT !.live = FALSE]
                  ELSE J[k]]

\* MUTANT of VerifySession: the effect runs again when hydrate() has set the user.
VerifySessionHydrated(J, present) == [J EXCEPT !["me"] = Begun("me", None)]

\* AuthBootstrap's second effect looks at the user of the first render. Of two runs
\* at a time one is followed (a bound).
VerifySession(J, present) ==
  IF present /\ J["me"].at = "idle" THEN [J EXCEPT !["me"] = Begun("me", None)] ELSE J

\* A navigation within the document to the page the gate lets through. J and B
\* are the jobs and flags its caller leaves, who the cookies' owner.
GoTo(p, J, B, who, present) ==
  LET q == Gate(p, who)
      mounts == page \notin Dashboard /\ q \in Dashboard
      left == Unmount(J, (IF page # q THEN PageJobs ELSE {})
                           \cup (IF q \in Dashboard THEN {} ELSE {"me"})) IN
  /\ page' = q
  /\ busy' = IF page # q THEN {} ELSE B
  /\ arrival' = IF mounts THEN "client" ELSE IF q \in Dashboard THEN arrival ELSE "none"
  /\ \E follow \in (IF left["me"].at = "idle" THEN {TRUE} ELSE BOOLEAN) :
       job' = IF mounts
              THEN VerifySession([left EXCEPT !["me"] = IF follow THEN @ ELSE Idle], present)
              ELSE left

Stay(J, B) == job' = J /\ busy' = B /\ UNCHANGED <<page, arrival>>

\* The sidebar, the command palette, the user menu, a link.
Visit(p) ==
  /\ p # page
  /\ UNCHANGED <<orgs, stores, bounds>>
  /\ GoTo(p, job, busy, cookie, user # None)
  /\ Observe(query)

NoJobs == [k \in Jobs |-> Idle]

\* The document is loaded: nothing is left but the cookies and localStorage. On a
\* dashboard page hydrate() reads the user from the cookie after the first render.
LoadState(p, who) ==
  LET q == Gate(p, who) IN
  [page |-> q,
   arrival |-> IF q \in Dashboard THEN "document" ELSE "none",
   user |-> IF q \in Dashboard THEN who ELSE None,
   job |-> IF q \in Dashboard THEN VerifySession(NoJobs, FALSE) ELSE NoJobs]

Act == acts < MaxActs /\ acts' = acts + 1 /\ UNCHANGED faults
Fault == faults < MaxFaults /\ faults' = faults + 1 /\ UNCHANGED acts

Load(p) ==
  LET s == LoadState(p, cookie) IN
  /\ Act
  /\ page' = s.page /\ arrival' = s.arrival /\ user' = s.user /\ job' = s.job
  /\ busy' = {}
  /\ UNCHANGED <<orgs, cookie, selected>>
  /\ query' = IF s.page \in Dashboard THEN Fetch(NoQuery) ELSE NoQuery

Init ==
  /\ orgs = Members
  /\ cookie \in Holders
  /\ selected \in Kept
  /\ page = LoadState("projects", cookie).page
  /\ arrival = LoadState("projects", cookie).arrival
  /\ user = LoadState("projects", cookie).user
  /\ job = LoadState("projects", cookie).job
  /\ busy = {}
  /\ query = IF page \in Dashboard THEN Fetch(NoQuery) ELSE NoQuery
  /\ acts = 0 /\ faults = 0

-----------------------------------------------------------------------------
(* The list of organizations: useOrganizations *)

FetchOnly(e) == query' = e /\ UNCHANGED <<orgs, stores, screen>>

ServeFetch ==
  /\ query.at = "sent" /\ cookie # None
  /\ FetchOnly(Served(query, orgs[cookie]))
  /\ UNCHANGED bounds

RefuseFetch ==
  /\ query.at = "sent"
  /\ (cookie = None /\ UNCHANGED bounds) \/ Fault
  /\ FetchOnly(Failed(query))

SettleFetch ==
  /\ query.at = "served"
  /\ FetchOnly(Settled(query))
  /\ UNCHANGED bounds

FocusWindow ==
  /\ page \in Dashboard
  /\ \E old \in {FALSE, query.fresh} : FetchOnly(Refresh(query, old))
  /\ UNCHANGED bounds

-----------------------------------------------------------------------------
(* The selected organization: useSyncSelectedOrganization *)

OrgList == IF query.data = None THEN {} ELSE query.data

\* MUTANT of SyncChoice: a selection that is not null is left alone.
SyncChoiceKeeping == IF selected = None /\ OrgList # {} THEN First(OrgList) ELSE selected

\* What the effect leaves. A first list that fails counts as an empty one.
SyncChoice ==
  IF OrgList = {} THEN None
  ELSE IF selected \in OrgList THEN selected
  ELSE First(OrgList)

SyncSelection ==
  /\ page \in Dashboard
  /\ Fetched(query) /\ ~Loading(query)
  /\ SyncChoice # selected
  /\ selected' = SyncChoice
  /\ UNCHANGED <<orgs, cookie, user, screen, bounds>>
  /\ Observe(query)

-----------------------------------------------------------------------------
(* Jobs: a request is sent, the server serves it, the continuation runs *)

Go(k, at) == [job EXCEPT ![k] = [@ EXCEPT !.at = at, !.status = "none", !.value = None]]
End(k) == [job EXCEPT ![k] = Idle]

\* The flags a job's finally resets: its own, and only while its page is mounted.
Flags(k) ==
  CASE k = "auth" -> {"submitting"}
    [] k = "bootstrap" -> {"bootstrapBusy"}
    [] k = "createProject" -> {"projectBusy"}
    [] OTHER -> {}
Freed(k) == IF job[k].live THEN busy \ Flags(k) ELSE busy

Answered(k, at, status) == job[k].at = at /\ job[k].status = status

Asks(k, at) == Answered(k, at, "none")
Reply(k, status, value) ==
  /\ job' = [job EXCEPT ![k] = [@ EXCEPT !.status = status, !.value = value]]
  /\ UNCHANGED <<stores, page, arrival, busy, query>>

NewOrgs == {o \in Orgs : \A u \in Users : o \notin orgs[u]}
ServeRead(k) ==
  /\ \/ (Asks(k, "register") \/ Asks(k, "login")) /\ Reply(k, "ok", job[k].value)
     \/ Asks(k, "logout") /\ Reply(k, "ok", None)
     \/ Asks(k, "me") /\ cookie # None /\ Reply(k, "ok", cookie)
     \/ (Asks(k, "list") \/ Asks(k, "relist")) /\ cookie # None /\ Reply(k, "ok", orgs[cookie])
  /\ UNCHANGED <<orgs, bounds>>

ServeCreateOrg(k) ==
  /\ Asks(k, "createOrg") /\ cookie # None
  /\ \E o \in NewOrgs :
       /\ orgs' = [orgs EXCEPT ![cookie] = @ \cup {o}]
       /\ Reply(k, "ok", o)
  /\ UNCHANGED bounds

ServeCreateProject(k) ==
  /\ Asks(k, "createProject") /\ cookie # None
  /\ Reply(k, IF job[k].value \in orgs[cookie] THEN "ok" ELSE "membership", None)
  /\ UNCHANGED <<orgs, bounds>>

\* No token; ids used up; a failure of any kind; a taken slug.
Refuse(k) ==
  /\ job[k].status = "none" /\ job[k].at \notin {"idle", "refresh", "refetch"}
  /\ \/ /\ \/ cookie = None /\ job[k].at \notin {"register", "login", "logout"}
           \/ Asks(k, "createOrg") /\ NewOrgs = {}
        /\ Reply(k, "error", None)
        /\ UNCHANGED bounds
     \/ /\ Reply(k, "error", None) \/ (Asks(k, "createOrg") /\ Reply(k, "conflict", None))
        /\ Fault
  /\ UNCHANGED orgs

-----------------------------------------------------------------------------
(* ensurePersonalOrganization, and what its three callers do with it *)

InvalidateOrgs == Invalidate(query, page \in Dashboard)

\* next is the login form's parameter, /dashboard after a registration.
EnsureReturns(k) ==
  CASE k = "auth" ->
         /\ \E next \in {"dashboard", "projects"} :
              GoTo(next, End(k), Freed(k), cookie, user # None)
         /\ Observe(query)
    [] k = "me" -> Stay(End(k), busy) /\ Observe(InvalidateOrgs)
    [] k = "bootstrap" ->
         /\ Stay([job EXCEPT ![k].at = "refetch"], busy)
         /\ Observe(InvalidateOrgs)

EnsureGoesOn(k, at) == Stay(Go(k, at), busy) /\ UNCHANGED <<selected, query>>

EnsureListed(k) ==
  /\ k \in EnsureJobs /\ Answered(k, "list", "ok")
  /\ LET list == job[k].value IN
     IF list = {} THEN EnsureGoesOn(k, "createOrg")
     ELSE /\ selected' = IF selected \in list THEN selected ELSE First(list)
          /\ EnsureReturns(k)
  /\ UNCHANGED <<orgs, cookie, user, bounds>>

\* MUTANT of EnsureCreated: the list of the second look is stored, not its first.
EnsureCreatedList(k) ==
  /\ k \in EnsureJobs
  /\ \/ /\ Answered(k, "createOrg", "ok") \/ Answered(k, "relist", "ok")
        /\ selected' = job[k].value
        /\ EnsureReturns(k)
     \/ Answered(k, "createOrg", "conflict") /\ EnsureGoesOn(k, "relist")
  /\ UNCHANGED <<orgs, cookie, user, bounds>>

EnsureCreated(k) ==
  /\ k \in EnsureJobs
  /\ \/ /\ Answered(k, "createOrg", "ok")
        /\ selected' = job[k].value
        /\ EnsureReturns(k)
     \/ Answered(k, "createOrg", "conflict") /\ EnsureGoesOn(k, "relist")
     \/ /\ Answered(k, "relist", "ok")
        /\ selected' = IF job[k].value = {} THEN selected ELSE First(job[k].value)
        /\ EnsureReturns(k)
  /\ UNCHANGED <<orgs, cookie, user, bounds>>

\* MUTANT of EnsureThrows: bootstrapOrg has no finally.
EnsureThrowsBusy(k) ==
  /\ k \in EnsureJobs
  /\ \E at \in {"list", "createOrg", "relist"} : Answered(k, at, "error")
  /\ Stay(End(k), IF k = "bootstrap" THEN busy ELSE Freed(k))
  /\ UNCHANGED <<orgs, stores, query, bounds>>

\* The form shows the error, though the user is signed in; the effect ignores it.
EnsureThrows(k) ==
  /\ k \in EnsureJobs
  /\ \E at \in {"list", "createOrg", "relist"} : Answered(k, at, "error")
  /\ Stay(End(k), Freed(k))
  /\ UNCHANGED <<orgs, stores, query, bounds>>

ClickBootstrap ==
  /\ page = "projects" /\ OrgList = {} /\ "bootstrapBusy" \notin busy
  /\ job["bootstrap"].at = "idle"
  /\ Act
  /\ Stay([job EXCEPT !["bootstrap"] = Begun("list", None)], busy \cup {"bootstrapBusy"})
  /\ UNCHANGED <<orgs, stores, query>>

\* The rest of bootstrapOrg, after the invalidation it awaits.
BootstrapDone ==
  LET list == job["bootstrap"].value IN
  /\ job["bootstrap"].at = "refetch" /\ ~Fetching(query)
  /\ selected' = IF list \in Orgs THEN list ELSE IF list = {} THEN selected ELSE First(list)
  /\ Stay(End("bootstrap"), Freed("bootstrap"))
  /\ UNCHANGED <<orgs, cookie, user, bounds>>
  /\ Observe(query)

-----------------------------------------------------------------------------
(* Signing in and out *)

\* A valid form; it is disabled while it is submitted.
SubmitAuth(u, at) ==
  /\ page = SignIn /\ "submitting" \notin busy /\ job["auth"].at = "idle"
  /\ Act
  /\ Stay([job EXCEPT !["auth"] = Begun(at, u)], busy \cup {"submitting"})
  /\ UNCHANGED <<orgs, stores, query>>

LoginForm(u) == SubmitAuth(u, "login")
RegisterForm(u) == SubmitAuth(u, "register")

Registered ==
  /\ Answered("auth", "register", "ok")
  /\ Stay([job EXCEPT !["auth"] = [@ EXCEPT !.at = "login", !.status = "none"]], busy)
  /\ UNCHANGED <<orgs, stores, query, bounds>>

LoggedIn ==
  /\ Answered("auth", "login", "ok")
  /\ cookie' = job["auth"].value /\ user' = job["auth"].value
  /\ Stay(Go("auth", "list"), busy)
  /\ UNCHANGED <<orgs, selected, query, bounds>>

\* MUTANT of AuthRefused: the form is not enabled again.
AuthRefusedBusy ==
  /\ Answered("auth", "register", "error") \/ Answered("auth", "login", "error")
  /\ Stay(End("auth"), busy)
  /\ UNCHANGED <<orgs, stores, query, bounds>>

AuthRefused ==
  /\ Answered("auth", "register", "error") \/ Answered("auth", "login", "error")
  /\ Stay(End("auth"), Freed("auth"))
  /\ UNCHANGED <<orgs, stores, query, bounds>>

\* fetchMe sets the user even when the effect that called it has been cleaned up.
MeAnswered ==
  /\ Answered("me", "me", "ok")
  /\ user' = job["me"].value
  /\ Stay(IF job["me"].live THEN Go("me", "list") ELSE End("me"), busy)
  /\ UNCHANGED <<orgs, cookie, selected, query, bounds>>

MeRefused ==
  /\ Answered("me", "me", "error")
  /\ user' = None /\ cookie' = None
  /\ UNCHANGED <<orgs, selected, bounds>>
  /\ IF job["me"].live THEN GoTo(SignIn, End("me"), busy, None, FALSE)
     ELSE Stay(End("me"), busy)
  /\ Observe(query)

ClickLogout ==
  /\ page \in Dashboard /\ job["logout"].at = "idle"
  /\ Act
  /\ Stay([job EXCEPT !["logout"] = Begun("logout", None)], busy)
  /\ UNCHANGED <<orgs, stores, query>>

\* Whatever the answer. The query cache keeps what the account has seen.
LogoutAnswered ==
  /\ \E status \in {"ok", "error"} : Answered("logout", "logout", status)
  /\ cookie' = None /\ user' = None /\ selected' = None
  /\ UNCHANGED <<orgs, bounds>>
  /\ GoTo(SignIn, End("logout"), busy, None, FALSE)
  /\ Observe(query)

\* A call's refresh failed: the tokens are gone, the page stays.
SessionLost ==
  /\ cookie # None /\ Fault
  /\ cookie' = None
  /\ UNCHANGED <<orgs, user, selected, screen, query>>

-----------------------------------------------------------------------------
(* The projects page *)

EffectiveSelected == IF selected \in OrgList THEN selected ELSE None

SelectOrg(o) ==
  /\ page = "projects" /\ o \in OrgList \ {EffectiveSelected}
  /\ selected' = o
  /\ UNCHANGED <<orgs, cookie, user, screen, bounds>>
  /\ Observe(query)

\* One submission at a time (a bound: the form can be sent twice).
SubmitOrg ==
  /\ page = "projects" /\ OrgList # {} /\ job["createOrg"].at = "idle"
  /\ Act
  /\ Stay([job EXCEPT !["createOrg"] = Begun("createOrg", None)], busy)
  /\ UNCHANGED <<orgs, stores, query>>

\* refreshOrgs begins; status tells what its caller does with the list.
RefreshOrgs(k) == Stay([job EXCEPT ![k].at = "refresh"], busy) /\ Observe(InvalidateOrgs)

OrgAnswered ==
  LET k == "createOrg" IN
  /\ \/ Answered(k, "createOrg", "ok") /\ selected' = job[k].value /\ RefreshOrgs(k)
     \/ Answered(k, "createOrg", "conflict") /\ UNCHANGED selected /\ RefreshOrgs(k)
     \/ /\ Answered(k, "createOrg", "error")
        /\ Stay(End(k), busy)
        /\ UNCHANGED <<selected, query>>
  /\ UNCHANGED <<orgs, cookie, user, bounds>>

\* The invalidation has settled: fetchQuery takes what is fresh or fetches again,
\* once, and its caller selects the first organization after a refusal.
Refreshed(k) ==
  LET e == query
      done == Stay(End(k), Freed(k)) IN
  /\ job[k].at \in {"refresh", "refresh2"} /\ ~Fetching(e)
  /\ \/ /\ e.fresh
        /\ selected' = IF job[k].status = "ok" \/ OrgList = {} THEN selected ELSE First(OrgList)
        /\ done
        /\ Observe(query)
     \/ /\ ~e.fresh /\ job[k].at = "refresh"
        /\ query' = Fetch(query)
        /\ Stay([job EXCEPT ![k].at = "refresh2"], busy)
        /\ UNCHANGED selected
     \/ ~e.fresh /\ job[k].at = "refresh2" /\ done /\ UNCHANGED <<selected, query>>
  /\ UNCHANGED <<orgs, cookie, user, bounds>>

\* The form, disabled while it is submitted.
SubmitProject ==
  /\ page = "projects" /\ EffectiveSelected # None
  /\ "projectBusy" \notin busy /\ job["createProject"].at = "idle"
  /\ Act
  /\ Stay([job EXCEPT !["createProject"] = Begun("createProject", selected)],
          busy \cup {"projectBusy"})
  /\ UNCHANGED <<orgs, stores, query>>

\* A new project is opened; who is not a member any more gets another organization.
ProjectAnswered ==
  LET k == "createProject" IN
  /\ \/ /\ Answered(k, k, "ok")
        /\ GoTo("dashboard", End(k), Freed(k), cookie, user # None)
        /\ Observe(query)
     \/ Answered(k, k, "membership") /\ RefreshOrgs(k)
     \/ /\ Answered(k, k, "error")
        /\ Stay(End(k), Freed(k))
        /\ UNCHANGED query
  /\ UNCHANGED <<orgs, stores, bounds>>

-----------------------------------------------------------------------------
Environment ==
  \/ \E p \in {SignIn} \cup Dashboard : Load(p) \/ Visit(p)
  \/ \E u \in Users : LoginForm(u) \/ RegisterForm(u)
  \/ \E o \in Orgs : SelectOrg(o)
  \/ ClickBootstrap \/ SubmitOrg \/ SubmitProject \/ ClickLogout
  \/ FocusWindow \/ SessionLost

ServerStep(k) ==
  ServeRead(k) \/ ServeCreateOrg(k) \/ ServeCreateProject(k) \/ Refuse(k)

EnsureStep(k) == EnsureListed(k) \/ EnsureCreated(k) \/ EnsureThrows(k)

AccountStep ==
  Registered \/ LoggedIn \/ AuthRefused \/ MeAnswered \/ MeRefused \/ LogoutAnswered

PageStep == OrgAnswered \/ ProjectAnswered

\* What waits for the cache: a promise, settled even if the next fetch begins.
ListAwaited == BootstrapDone \/ \E k \in {"createOrg", "createProject"} : Refreshed(k)

JobStep ==
  \/ \E k \in Jobs : ServerStep(k)
  \/ \E k \in EnsureJobs : EnsureStep(k)
  \/ AccountStep \/ PageStep

FetchStep == ServeFetch \/ RefuseFetch \/ SettleFetch

Next == Environment \/ JobStep \/ ListAwaited \/ FetchStep \/ SyncSelection

\* Requests are answered, continuations and effects run. Jobs are begun by commands
\* only, so fairness to all of them at once is fairness to each.
Spec ==
  /\ Init /\ [][Next]_vars
  /\ WF_vars(JobStep) /\ SF_vars(ListAwaited)
  /\ WF_vars(FetchStep) /\ WF_vars(SyncSelection)

-----------------------------------------------------------------------------
TypeOK ==
  /\ orgs \in [Users -> SUBSET Orgs]
  /\ cookie \in Users \cup {None} /\ user \in Users \cup {None}
  /\ selected \in Orgs \cup {None}
  /\ page \in Dashboard \cup {SignIn}
  /\ arrival \in {"none", "document", "client"}
  /\ query \in QueryOf(SUBSET Orgs)
  /\ busy \subseteq {"submitting", "bootstrapBusy", "projectBusy"}
  /\ DOMAIN job = Jobs

\* A layout that came up with the document verifies no session: its effect looks
\* at the user of the first render, which is null until hydrate() has run
\* (auth-bootstrap.tsx:22-27).
OnlyClientArrivalsVerify ==
  arrival = "document" => job["me"].at = "idle"

\* The mounted page is busy only while a job of its own is under way, so that no
\* button stays disabled for good (every finally of the pages).
BusyHasJob ==
  /\ "submitting" \in busy => job["auth"].at # "idle"
  /\ "bootstrapBusy" \in busy => job["bootstrap"].at # "idle"
  /\ "projectBusy" \in busy => job["createProject"].at # "idle"

\* What an answer and what waits for the list bring along.
Carries(j) ==
  /\ j.at \in {"register", "login"} /\ j.status # "error" => j.value \in Users
  /\ j.at = "me" /\ j.status = "ok" => j.value \in Users
  /\ j.at \in {"list", "relist"} /\ j.status = "ok" => j.value \in SUBSET Orgs
  /\ j.at = "createOrg" /\ j.status = "ok" => j.value \in Orgs
  /\ j.at = "refetch" => j.value \in Orgs \cup SUBSET Orgs

Requests == {"register", "login", "logout", "me", "list", "createOrg", "relist", "createProject"}

JobsInv ==
  /\ job \in [Jobs -> [at : Requests \cup {"idle", "refetch", "refresh", "refresh2"},
                       status : {"none", "ok", "error", "conflict", "membership"},
                       live : BOOLEAN,
                       value : (SUBSET Orgs) \cup Users \cup Orgs \cup {None}]]
  /\ \A k \in Jobs : Carries(job[k])

\* A flag that is set is reset by its own job: it is under way, and its page is
\* still mounted.
FlagsInv ==
  \A k \in Jobs : busy \cap Flags(k) # {} => job[k].at # "idle" /\ job[k].live

\* Whoever set a flag of the mounted page is still under way, still mounted, and
\* what it waits for brings what it needs (the finally of every page's handler).
WorkspaceInv == TypeOK /\ JobsInv /\ FlagsInv /\ OnlyClientArrivalsVerify

BusyEnds == busy # {} ~> busy = {}

\* However an organization id got into localStorage or into the cached list
\* (another account of this browser, a late answer, a request that failed), the
\* selection of a signed-in user who stays and comes back to the window ends up
\* on one of the user's organizations (use-sync-selected-organization.ts:21-41).
SelectionHeals ==
  (<>[](page \in Dashboard /\ cookie # None) /\ []<><<FocusWindow>>_vars)
    => <>[](cookie # None => IF orgs[cookie] = {} THEN selected = None
                             ELSE selected \in orgs[cookie])
=============================================================================
