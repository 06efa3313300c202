---------------------------- MODULE ProjectPages ----------------------------
(***************************************************************************)
(* One tab of the dashboard on the pages of one project: the list of the    *)
(* selected organization's projects, the project's layout with the dialog   *)
(* that connects a repository, its overview, variables and settings, and    *)
(* the return from GitHub, over the rows of the API and the tab's cache.    *)
(* Workspace has the organizations; DeploymentView what a deployment shows. *)
(*                                                                         *)
(* A handler of the tab is a job: it waits for its request ("post",         *)
(* "install") and then for the keys it invalidates, one after the other.    *)
(* One of each kind at a time is followed (a bound), and one deployment of  *)
(* each service: job[s].                                                    *)
(***************************************************************************)
EXTENDS QueryCache, Naturals, FiniteSets

CONSTANTS
  Project, Services, Variables,
  Repos, NoRepo,
  Warned,     \* repositories the API has warnings about
  MaxActs,    \* commands that send a request, returns to the window and to the list
  MaxFaults   \* how many of these may be requests not answered as asked, or the loss of
              \* the membership

ASSUME PagesAssumption ==
  /\ NoRepo \notin Repos /\ None \notin Repos \cup Services \cup {NoRepo, Project}
  /\ \A list \in SUBSET ({Project} \cup Services \cup Variables) : None # list
  /\ Warned \subseteq Repos
  /\ MaxActs \in Nat /\ MaxFaults \in Nat

VARIABLES
  projects, repo, services, env, member,  \* the API's rows
  page,
  dialog,    \* ConnectRepoDialog in the project's layout
  confirm,   \* the overview's question before a deployment
  form,      \* the repository field of the settings page
  service,   \* the service chosen on the page of variables
  offered,   \* the repositories of GitHub in sessionStorage
  query,     \* cached projects, project, services, and the variables of a service
  denied,    \* the project's last error is a refused membership
  busy,      \* the busy flags of what is mounted that are set
  job,
  doubt,     \* history: keys whose last write was not followed by a fetch
  acts, faults

rows == <<projects, repo, services, env, member>>
local == <<dialog, confirm, form, service>>
cache == <<query, denied>>
bounds == <<acts, faults>>
vars == <<rows, page, local, offered, cache, busy, job, doubt, bounds>>

Tabs == {"overview", "settings", "env", "deployments"}  \* "deployments": the other tabs too
Pages == Tabs \cup {"projects", "callback", "dashboard"}
Keys == {"projects", "project", "services"} \cup Services

Creators == {"form", "demo", "cta"}
Savers == {"connect", "settings"}
EnvWriters == {"addVar", "deleteVar"}
Writers == Creators \cup Savers \cup EnvWriters \cup {"addService"}
Deployers == Services \cup {"deployNow"}
Jobs == Writers \cup Deployers \cup {"analyze", "callback"}
LayoutJobs == {"connect", "analyze", "deployNow"}

\* What a job waits for, if it is not a key.
Waits == {"idle", "post", "install", "relist"}

\* Keys, jobs and what they wait for are told apart by name.
ASSUME NamesAssumption ==
  /\ Services # {}
  /\ Services \cap ({"projects", "project", "services", "deployNow", "analyze", "callback"}
                     \cup Writers \cup Waits) = {}

Idle == [at |-> "idle", status |-> "none", value |-> None, key |-> None, live |-> TRUE]
Begun(v, key) == [Idle EXCEPT !.at = "post", !.value = v, !.key = key]

Closed == [open |-> FALSE, repo |-> NoRepo, analysis |-> None, list |-> {}]
Unasked == [open |-> FALSE, pending |-> None]

First(S) == CHOOSE s \in S : TRUE  \* the API orders by name

Data(k) == query[k].data
List(k) == IF Data(k) = None THEN {} ELSE Data(k)
Shown == page \in Tabs /\ Data("project") # None  \* the layout shows its page

\* What the API answers for a key; a project stands for its repository.
Value(k) ==
  CASE k = "projects" -> projects
    [] k = "project" -> repo
    [] k = "services" -> services
    [] OTHER -> env[k]

Watched(p, s) ==
  IF p = "projects" THEN {"projects"}
  ELSE IF p \in Tabs THEN {"project", "services"} \cup (IF p = "env" THEN {s} \ {None} ELSE {})
  ELSE {}

\* Components mount: the keys K are watched from now on. That staleTime has passed
\* is left to FocusWindow.
Mount(Q, K) == query' = [k \in Keys |-> IF k \in K THEN Refresh(Q[k], FALSE) ELSE Q[k]]

InvalidateKey(k) == [query EXCEPT ![k] = Invalidate(@, k \in Watched(page, service))]

-----------------------------------------------------------------------------
(* Navigation *)

\* What one opens: the stored repositories, the only one filled in.
OpenDialog ==
  [open |-> TRUE, repo |-> IF Cardinality(offered) = 1 THEN First(offered) ELSE NoRepo,
   analysis |-> None, list |-> offered]

FormOf(p) == [repo |-> IF p = None THEN NoRepo ELSE p, touched |-> FALSE]

\* The page p, with ?connect=1 or not; J are the jobs and B the flags its caller
\* leaves, Q the cache, D the layout's dialog. A page that is left takes its state
\* along.
GoTo(p, connect, J, B, Q, D) ==
  LET stays == IF page \in Tabs /\ p \in Tabs THEN LayoutJobs ELSE {}
      moved == page # p IN
  /\ page' = p
  /\ dialog' = IF p \notin Tabs THEN Closed
               ELSE IF page \in Tabs THEN D
               ELSE IF connect THEN OpenDialog ELSE Closed
  /\ confirm' = IF moved THEN Unasked ELSE confirm
  /\ form' = IF moved THEN FormOf(IF p = "settings" THEN Q["project"].data ELSE None) ELSE form
  /\ service' = IF moved THEN None ELSE service
  /\ busy' = IF moved THEN B \cap stays ELSE B
  /\ job' = IF moved THEN [j \in Jobs |-> IF j \in stays \/ J[j] = Idle THEN J[j]
                                          ELSE [J[j] EXCEPT !.live = FALSE]]
            ELSE J
  /\ Mount(Q, Watched(p, None) \ Watched(page, service))
  /\ UNCHANGED denied

Stay(J, B) == job' = J /\ busy' = B /\ UNCHANGED <<page, local>>

\* The dialogs are modal.
Modal == (Shown /\ dialog.open) \/ confirm.open

\* The projects, as cards, or the invitation to create one.
CardShown == page = "projects" /\ ~Loading(query["projects"]) /\ Project \in List("projects")
CtaShown == page = "projects" /\ ~Loading(query["projects"]) /\ List("projects") = {}

Act == acts + faults < MaxActs /\ acts' = acts + 1 /\ UNCHANGED faults
Fault == acts + faults < MaxActs /\ faults < MaxFaults /\ faults' = faults + 1 /\ UNCHANGED acts

\* A link: a card, a tab, the sidebar.
Visit(p) ==
  /\ ~Modal /\ p # page
  /\ \/ p = "projects" /\ page \in Tabs \cup {"dashboard"} /\ Act
     \/ p = "overview" /\ CardShown /\ UNCHANGED bounds
     \/ p \in Tabs /\ Shown /\ UNCHANGED bounds
  /\ GoTo(p, FALSE, job, busy, query, dialog)
  /\ UNCHANGED <<rows, offered, doubt>>

\* useProjectAccessGuard, for a refused membership; projects are not deleted.
AccessGuard ==
  /\ page \in Tabs /\ denied
  /\ Data("project") # None \/ query["project"].at = "failed"
  /\ GoTo("projects", FALSE, job, busy, query, dialog)
  /\ UNCHANGED <<rows, offered, doubt, bounds>>

NoJobs == [j \in Jobs |-> Idle]
Fresh(p) == [k \in Keys |-> IF k \in Watched(p, None) THEN Fetch(NoQuery) ELSE NoQuery]

\* The document of the list, the project not yet created, or of the overview.
Init ==
  /\ member = TRUE
  /\ env = [s \in Services |-> {}]
  /\ offered = {}
  /\ \/ /\ page = "projects"
        /\ projects = {} /\ repo = NoRepo /\ services = {} /\ dialog = Closed
     \/ /\ page = "overview"
        /\ projects = {Project}
        /\ \/ repo = NoRepo /\ services = {} /\ dialog = OpenDialog
           \/ repo \in Repos /\ services = {First(Services)} /\ dialog = Closed
  /\ confirm = Unasked /\ form = FormOf(None) /\ service = None
  /\ query = Fresh(page) /\ denied = FALSE
  /\ busy = {} /\ job = NoJobs
  /\ doubt = {}
  /\ acts = 0 /\ faults = 0

-----------------------------------------------------------------------------
(* The cache: useProjects, useProject, useServices, useEnvVars *)

ServeFetch(k) ==
  /\ query[k].at = "sent" /\ member
  /\ query' = [query EXCEPT ![k] = Served(@, Value(k))]
  /\ UNCHANGED <<rows, page, local, offered, denied, busy, job, doubt, bounds>>

RefuseFetch(k) ==
  /\ query[k].at = "sent"
  /\ (~member /\ UNCHANGED bounds) \/ Fault
  /\ query' = [query EXCEPT ![k] = Failed(@)]
  /\ denied' = IF k = "project" THEN ~member ELSE denied
  /\ UNCHANGED <<rows, page, local, offered, busy, job, doubt>>

\* MUTANT of FormAfter: the effect runs once, when the page mounts.
FormAfter1(k) == IF Data("project") = None THEN {FormOf(query[k].answer)} ELSE {form}

\* The settings page copies a project that has changed. Any field may have: the
\* form is also reset when the repository is the same.
FormAfter(k) ==
  IF page = "settings" /\ k = "project"
  THEN {FormOf(query[k].answer)} \cup (IF query[k].answer = Data(k) THEN {form} ELSE {})
  ELSE {form}

SettleFetch(k) ==
  /\ query[k].at = "served"
  /\ query' = [query EXCEPT ![k] = Settled(@)]
  /\ form' \in FormAfter(k)
  /\ denied' = IF k = "project" THEN FALSE ELSE denied
  /\ doubt' = IF query[k].answer = Value(k) THEN doubt \ {k} ELSE doubt
  /\ UNCHANGED <<rows, page, dialog, confirm, service, offered, busy, job, bounds>>

\* The window is focused, before or after staleTime.
FocusWindow ==
  /\ Act
  /\ \E old \in BOOLEAN :
       query' = [k \in Keys |-> IF k \in Watched(page, service) THEN Refresh(query[k], old)
                                ELSE query[k]]
  /\ UNCHANGED <<rows, page, local, offered, denied, busy, job, doubt>>

\* The membership is taken away.
Revoke ==
  /\ member /\ Fault
  /\ member' = FALSE
  /\ UNCHANGED <<projects, repo, services, env, page, local, offered, cache, busy, job, doubt>>

-----------------------------------------------------------------------------
(* Requests *)

Post(j, v, key, B) ==
  /\ job[j].at = "idle" /\ Act
  /\ Stay([job EXCEPT ![j] = Begun(v, key)], B)
  /\ UNCHANGED <<rows, offered, cache, doubt>>

Requesting(j) == job[j].at \in {"post", "install"} /\ job[j].status = "none"
Answered(j, at, status) == job[j].at = at /\ job[j].status = status

\* What the API writes. v and key are the request's.
Write(j, v) ==
  /\ projects' = IF j \in Creators THEN projects \cup {Project} ELSE projects
  /\ repo' = IF j \in Savers /\ job[j].at = "post" THEN v ELSE repo
  /\ services' = IF j = "addService" THEN services \cup {First(Services \ services)}
                 ELSE services
  /\ env' = CASE j = "addVar" -> [env EXCEPT ![v.service] = @ \cup {v.name}]
              [] j = "deleteVar" -> [env EXCEPT ![v.service] = @ \ {v.name}]
              [] OTHER -> env

Reply(j, status) ==
  /\ job' = [job EXCEPT ![j].status = status]
  /\ UNCHANGED <<page, local, offered, cache, busy, doubt>>

\* The answer may be lost after the write.
Serve(j) ==
  /\ Requesting(j) /\ member
  /\ Write(j, job[j].value)
  /\ \/ Reply(j, "ok") /\ UNCHANGED bounds
     \/ Reply(j, "error") /\ Fault
  /\ UNCHANGED member

\* No membership, an input that is refused, no connection.
Refuse(j) ==
  /\ Requesting(j)
  /\ (~member /\ UNCHANGED bounds) \/ Fault
  /\ Reply(j, "error")
  /\ UNCHANGED rows

Unset(j, flags) == IF job[j].live THEN busy \ flags ELSE busy
End(j) == [job EXCEPT ![j] = Idle]
Await(j, at) == [job EXCEPT ![j] = [@ EXCEPT !.at = at, !.status = "none"]]

\* The keys a job writes, the one it invalidates first, and the one after k.
Written(j) ==
  CASE j \in Creators -> {"projects"}
    [] j \in Savers -> {"project"}
    [] j = "addService" -> {"services"}
    [] j \in EnvWriters -> {job[j].value.service}

\* MUTANT of FirstKey: the settings are saved without the project's own key.
FirstKeyOfList(j) ==
  CASE j = "connect" -> "project"
    [] j = "addService" -> "services"
    [] j \in EnvWriters -> job[j].key
    [] OTHER -> "projects"

FirstKey(j) ==
  CASE j \in Savers -> "project"
    [] j = "addService" -> "services"
    [] j \in EnvWriters -> job[j].key
    [] OTHER -> "projects"
NextKey(k) ==
  CASE k = "services" -> "project" [] k = "project" -> "projects" [] OTHER -> None

\* A write is in doubt when a fetch under way is not repeated (the key's first one,
\* or nobody watches the key), when the page has turned to another service, and when
\* the key is refetched only. A project stored when it has been created may have changed.
Doubted(j) ==
  {k \in Written(j) :
     \/ j = "demo" \/ (j \in EnvWriters /\ job[j].key # k)
     \/ Fetching(query[k]) /\ (Data(k) = None \/ k \notin Watched(page, service))}
  \cup (IF j \in {"form", "cta"} /\ repo # NoRepo THEN {"project"} ELSE {})

\* The answer of a write: onSuccess, and what follows the await.
WriteAnswered(j) ==
  LET k == FirstKey(j)
      Q == InvalidateKey(k) IN
  /\ Answered(j, "post", "ok") \/ Answered(j, "install", "ok")
  /\ ~(j = "connect" /\ job[j].at = "post" /\ job[j].key # None)
  /\ job' = Await(j, k)
  /\ form' = IF j \in {"form", "cta"} /\ page = "settings" THEN FormOf(NoRepo) ELSE form
  /\ query' = CASE j = "demo" -> [query EXCEPT ![k] = Refetch(@)]
                [] j \in {"form", "cta"} -> [Q EXCEPT !["project"] = WithData(@, NoRepo)]
                [] OTHER -> Q
  /\ doubt' = doubt \cup Doubted(j)
  /\ UNCHANGED <<rows, page, dialog, confirm, service, offered, denied, busy, bounds>>

InstallNext ==
  /\ Answered("connect", "post", "ok") /\ job["connect"].key # None
  /\ Stay(Await("connect", "install"), busy)
  /\ UNCHANGED <<rows, offered, cache, doubt, bounds>>

\* MUTANT of WriteFailed: creating a project has no finally.
WriteFailedBusy(j) ==
  /\ Answered(j, "post", "error") \/ Answered(j, "install", "error")
  /\ Stay(End(j), Unset(j, {j} \ Creators))
  /\ doubt' = doubt \cup Written(j)
  /\ UNCHANGED <<rows, offered, cache, bounds>>

\* A failure is shown and nothing is invalidated.
WriteFailed(j) ==
  /\ Answered(j, "post", "error") \/ Answered(j, "install", "error")
  /\ Stay(End(j), Unset(j, {j}))
  /\ doubt' = doubt \cup Written(j)
  /\ UNCHANGED <<rows, offered, cache, bounds>>

Awaited(j, k) == job[j].at = k /\ k \in Keys /\ ~Fetching(query[k])

InvalidateNext(j) ==
  \E k \in {"services", "project"} :
    /\ Awaited(j, k)
    /\ Stay(Await(j, NextKey(k)), busy)
    /\ query' = InvalidateKey(NextKey(k))
    /\ UNCHANGED <<rows, offered, denied, doubt, bounds>>

LastKey(j) == \E k \in Keys : Awaited(j, k) /\ NextKey(k) = None

\* A saved connection forgets the repositories and closes the dialog.
WriteDone(j) ==
  /\ LastKey(j) /\ j \notin Creators
  /\ offered' = IF j = "connect" THEN {} ELSE offered
  /\ dialog' = IF j = "connect" /\ job[j].live THEN Closed ELSE dialog
  /\ job' = End(j) /\ busy' = Unset(j, {j})
  /\ UNCHANGED <<rows, page, confirm, form, service, cache, doubt, bounds>>

-----------------------------------------------------------------------------
(* The list of projects *)

\* Either of two buttons, a form, or the invitation; the project is not there yet.
CreateProject(j) ==
  /\ page = "projects" /\ projects = {} /\ j \notin busy
  /\ \A c \in Creators : job[c].at = "idle"
  /\ j = "cta" => CtaShown
  /\ Post(j, None, None, IF j = "demo" THEN busy ELSE busy \cup {j})

\* MUTANT of CreateListed: the form does not refetch its list.
CreateListedOnce(j) ==
  /\ LastKey(j)
  /\ \/ j = "demo" /\ Stay(End(j), busy) /\ UNCHANGED cache
     \/ j \in {"form", "cta"} /\ GoTo("overview", TRUE, End(j), Unset(j, {j}), query, dialog)
  /\ UNCHANGED <<rows, offered, doubt, bounds>>

\* The list has been refetched. The form refetches it again, the invitation does
\* so without waiting, and the new project is opened.
CreateListed(j) ==
  LET Q == [query EXCEPT !["projects"] = Refetch(@)] IN
  /\ LastKey(j)
  /\ \/ j = "demo" /\ Stay(End(j), busy) /\ UNCHANGED cache
     \/ j = "form" /\ Stay(Await(j, "relist"), busy) /\ query' = Q /\ UNCHANGED denied
     \/ j = "cta" /\ GoTo("overview", TRUE, End(j), Unset(j, {j}), Q, dialog)
  /\ UNCHANGED <<rows, offered, doubt, bounds>>

CreateOpened ==
  /\ job["form"].at = "relist" /\ ~Fetching(query["projects"])
  /\ GoTo("overview", TRUE, End("form"), Unset("form", {"form"}), query, dialog)
  /\ UNCHANGED <<rows, offered, doubt, bounds>>

-----------------------------------------------------------------------------
(* The dialog that connects a repository *)

DialogShown == Shown /\ dialog.open

TypeRepo(r) ==
  /\ DialogShown /\ dialog.repo # r
  /\ dialog' = [dialog EXCEPT !.repo = r, !.analysis = None]
  /\ UNCHANGED <<rows, page, confirm, form, service, offered, cache, busy, job, doubt, bounds>>

\* The field is left, or the button clicked. The answer is not asked for a second
\* time (a bound: leaving the field does so).
AnalyzeRepo ==
  /\ DialogShown /\ dialog.repo # NoRepo
  /\ Post("analyze", dialog.repo, None, busy \cup {"analyze"})

\* The list of GitHub's repositories fills the field and leaves the analysis.
PickRepo(r) ==
  /\ DialogShown /\ r \in dialog.list \ {dialog.repo}
  /\ dialog' = [dialog EXCEPT !.repo = r]
  /\ UNCHANGED <<rows, page, confirm, form, service, offered, cache, busy, job, doubt, bounds>>

Analyzed ==
  /\ \E status \in {"ok", "error"} :
       /\ Answered("analyze", "post", status)
       /\ dialog' = IF ~job["analyze"].live \/ ~dialog.open THEN dialog
                    ELSE [dialog EXCEPT !.analysis = IF status = "ok" THEN job["analyze"].value
                                                     ELSE None]
  /\ job' = End("analyze") /\ busy' = Unset("analyze", {"analyze"})
  /\ UNCHANGED <<rows, page, confirm, form, service, offered, cache, doubt, bounds>>

\* With the number of an installation, or without.
SubmitConnect ==
  /\ DialogShown /\ dialog.repo # NoRepo /\ "connect" \notin busy
  /\ \E install \in {None, "install"} :
       Post("connect", dialog.repo, install, busy \cup {"connect"})

\* Nothing opens the dialog of a layout again that has been closed: what it holds
\* is not seen any more.
CancelConnect ==
  /\ DialogShown
  /\ dialog' = Closed
  /\ UNCHANGED <<rows, page, confirm, form, service, offered, cache, busy, job, doubt, bounds>>

\* The document is left for GitHub, which returns it to the callback page: with a
\* connection, or with an error that ends on /dashboard.
BrowseGitHub ==
  /\ DialogShown /\ Act
  /\ \E p \in {"callback", "dashboard"} :
       /\ page' = p
       /\ query' = Fresh(p)
       /\ job' = IF p = "callback" THEN [NoJobs EXCEPT !["callback"] = Begun(None, None)]
                 ELSE NoJobs
  /\ denied' = FALSE /\ busy' = {}
  /\ dialog' = Closed /\ confirm' = Unasked /\ form' = FormOf(None) /\ service' = None
  /\ doubt' = {}
  /\ UNCHANGED <<rows, offered>>

CallbackAnswered ==
  /\ \/ /\ Answered("callback", "post", "ok")
        /\ offered' \in SUBSET Repos
        /\ page' = "overview" /\ Mount(query, Watched("overview", None))
        /\ dialog' = [OpenDialog EXCEPT !.list = offered',
             !.repo = IF Cardinality(offered') = 1 THEN First(offered') ELSE NoRepo]
     \/ /\ Answered("callback", "post", "error")
        /\ page' = "dashboard"
        /\ UNCHANGED <<offered, query, dialog>>
  /\ job' = End("callback")
  /\ UNCHANGED <<rows, confirm, form, service, denied, busy, doubt, bounds>>

-----------------------------------------------------------------------------
(* The overview and the layout's button *)

HasRepo == Shown /\ Data("project") # NoRepo
Warns == Data("project") \in Warned

AddService ==
  /\ page = "overview" /\ Shown /\ ~Modal
  /\ services # Services  \* a bound on the services
  /\ Post("addService", None, None, busy)

StartDeploy(s) ==
  Post(s, None, None, busy \cup {"deploy"})

Ask(c) ==
  /\ confirm' = c
  /\ UNCHANGED <<rows, page, dialog, form, service, offered, cache, busy, job, doubt, bounds>>

\* MUTANT of RequestDeploy: a pending question is taken for an answer.
RequestDeployPending(s) ==
  /\ page = "overview" /\ HasRepo /\ ~Modal /\ s \in List("services")
  /\ IF Warns /\ confirm.pending # s THEN Ask([open |-> TRUE, pending |-> s])
     ELSE StartDeploy(s)

\* The button is not disabled while a deployment is requested.
RequestDeploy(s) ==
  /\ page = "overview" /\ HasRepo /\ ~Modal /\ s \in List("services")
  /\ IF Warns THEN Ask([open |-> TRUE, pending |-> s]) ELSE StartDeploy(s)

DeployAnyway ==
  /\ Shown /\ confirm.open /\ confirm.pending # None /\ "deploy" \notin busy
  /\ StartDeploy(confirm.pending)

CancelDeploy == confirm.open /\ Ask([confirm EXCEPT !.open = FALSE])

CanDeploy == HasRepo /\ List("services") # {}

\* The layout's button, on every tab, asks nothing.
DeployNow ==
  /\ CanDeploy /\ ~Modal
  /\ Post("deployNow", First(List("services")), None, busy)

\* An accepted deployment is shown; either way startDeploy's finally takes the
\* question away, which may by now be about another service.
DeployAnswered(j) ==
  /\ \/ /\ Answered(j, "post", "ok")
        /\ GoTo("deployments", FALSE, End(j), Unset(j, {"deploy"}), query, dialog)
     \/ /\ Answered(j, "post", "error")
        /\ job' = End(j) /\ UNCHANGED <<page, dialog, form, service, cache>>
        /\ busy' = IF j = "deployNow" THEN busy ELSE Unset(j, {"deploy"})
        /\ confirm' = IF j # "deployNow" /\ job[j].live THEN Unasked ELSE confirm
  /\ UNCHANGED <<rows, offered, doubt, bounds>>

-----------------------------------------------------------------------------
(* The settings and the variables *)

EditSettings(r) ==
  /\ page = "settings" /\ Shown /\ ~Modal /\ form.repo # r
  /\ form' = [repo |-> r, touched |-> TRUE]
  /\ UNCHANGED <<rows, page, dialog, confirm, service, offered, cache, busy, job, doubt, bounds>>

\* MUTANT of SaveSettings: an empty field is sent as no field.
SaveSettingsUndefined ==
  /\ page = "settings" /\ Shown /\ ~Modal /\ "settings" \notin busy
  /\ Post("settings", IF form.repo = NoRepo THEN None ELSE form.repo, None, busy \cup {"settings"})

SaveSettings ==
  /\ page = "settings" /\ Shown /\ ~Modal /\ "settings" \notin busy
  /\ Post("settings", form.repo, None, busy \cup {"settings"})

\* A service is chosen: the callbacks of a pending mutation are those of the last
\* render.
Choose(s) ==
  /\ service' = s
  /\ job' = [j \in Jobs |-> IF j \in EnvWriters /\ job[j].at = "post" /\ job[j].live
                            THEN [job[j] EXCEPT !.key = s] ELSE job[j]]
  /\ query' = [query EXCEPT ![s] = Refresh(@, FALSE)]
  /\ UNCHANGED <<rows, page, dialog, confirm, form, offered, denied, busy, doubt, bounds>>

FirstService ==
  /\ page = "env" /\ Shown /\ service = None /\ List("services") # {}
  /\ Choose(First(List("services")))
SelectService(s) ==
  /\ page = "env" /\ Shown /\ ~Modal /\ service # None /\ s \in List("services") \ {service}
  /\ Choose(s)

AddVar(v) ==
  /\ page = "env" /\ Shown /\ ~Modal /\ service # None /\ "addVar" \notin busy
  /\ Post("addVar", [service |-> service, name |-> v], service, busy \cup {"addVar"})

DeleteVar(v) ==
  /\ page = "env" /\ Shown /\ ~Modal /\ service # None /\ "deleteVar" \notin busy
  /\ v \in List(service)
  /\ Post("deleteVar", [service |-> service, name |-> v], service, busy \cup {"deleteVar"})

-----------------------------------------------------------------------------
Command ==
  \/ \E p \in Pages : Visit(p)
  \/ \E j \in Creators : CreateProject(j)
  \/ \E r \in Repos \cup {NoRepo} : TypeRepo(r)
  \/ \E r \in Repos : PickRepo(r)
  \/ \E r \in Repos \cup {NoRepo} : EditSettings(r)
  \/ \E s \in Services : RequestDeploy(s) \/ SelectService(s)
  \/ \E v \in Variables : AddVar(v) \/ DeleteVar(v)
  \/ AnalyzeRepo \/ SubmitConnect \/ CancelConnect \/ BrowseGitHub
  \/ AddService \/ DeployAnyway \/ CancelDeploy \/ DeployNow \/ SaveSettings

Environment == Command \/ FocusWindow \/ Revoke

Request == \E j \in Jobs : Serve(j) \/ Refuse(j)

Continue ==
  \/ \E j \in Writers : WriteAnswered(j) \/ WriteFailed(j)
  \/ \E j \in Deployers : DeployAnswered(j)
  \/ InstallNext \/ Analyzed \/ CallbackAnswered

\* What waits for the cache: a promise, settled even if the next fetch begins.
KeyAwaited ==
  \/ \E j \in Writers : InvalidateNext(j) \/ WriteDone(j)
  \/ \E j \in Creators : CreateListed(j)
  \/ CreateOpened

FetchStep(k) == ServeFetch(k) \/ RefuseFetch(k) \/ SettleFetch(k)

\* The fetches jobs wait for.
FetchAwaited ==
  \E k \in Keys :
    /\ \E j \in Jobs : job[j].at = k \/ (job[j].at = "relist" /\ k = "projects")
    /\ FetchStep(k)

Next ==
  \/ Environment \/ Request \/ Continue \/ KeyAwaited \/ FirstService \/ AccessGuard
  \/ \E k \in Keys : FetchStep(k)

\* Requests are answered, continuations run, and so do the fetches they wait for. Jobs
\* are begun, and what a mounted page waits for is fetched again, by counted commands
\* only, so fairness to all of them at once is fairness to each.
Spec ==
  /\ Init /\ [][Next]_vars
  /\ WF_vars(Request \/ Continue \/ KeyAwaited \/ FetchAwaited)

-----------------------------------------------------------------------------
TypeOK ==
  /\ projects \subseteq {Project} /\ repo \in Repos \cup {NoRepo}
  /\ services \subseteq Services /\ env \in [Services -> SUBSET Variables]
  /\ page \in Pages /\ service \in Services \cup {None}
  /\ dialog \in [open : BOOLEAN, repo : Repos \cup {NoRepo}, analysis : Repos \cup {None},
                 list : SUBSET Repos]
  /\ confirm \in [open : BOOLEAN, pending : Services \cup {None}]
  /\ form \in [repo : Repos \cup {NoRepo}, touched : BOOLEAN]
  /\ offered \subseteq Repos
  /\ DOMAIN query = Keys /\ doubt \subseteq Keys

\* A write whose answer the tab has not handled yet, the first await included.
Writing(k) ==
  \E j \in Writers : (job[j].at = "install" \/ (job[j].at = "post" /\ job[j].status # "none"))
                     /\ k \in Written(j)

-----------------------------------------------------------------------------
(* The invariant *)

Kind(k) ==
  CASE k = "projects" -> SUBSET {Project}
    [] k = "project" -> Repos \cup {NoRepo}
    [] k = "services" -> SUBSET Services
    [] OTHER -> SUBSET Variables

Requested == [service : Services, name : Variables]

\* What the job j carries to the API, the service whose key it invalidates, and the
\* list that all who create a project wait for.
Carries(j, r) ==
  /\ j \in Creators => r.at \in {"post", "projects", "relist"}
  /\ j \in Savers => r.value \in Repos \cup {NoRepo}
  /\ j = "analyze" => r.value \in Repos
  /\ j \in EnvWriters => r.value \in Requested /\ r.key \in Services

TypesInv ==
  /\ TypeOK
  /\ \A k \in Keys : /\ query[k] \in QueryOf(Kind(k))
                     /\ query[k].at = "served" => query[k].answer # None
  /\ job \in [Jobs -> [at : Waits \cup Keys, status : {"none", "ok", "error"},
                       live : BOOLEAN, key : Services \cup {None, "install"},
                       value : Requested \cup Repos \cup Services \cup {NoRepo, None}]]
  /\ \A j \in Jobs : job[j].at # "idle" => Carries(j, job[j])
  /\ Requesting("addService") => services # Services

\* The answer on its way is as good as what the cache takes for fresh.
Current ==
  \A k \in Keys \ doubt :
    ~Writing(k) => /\ query[k].fresh => Data(k) = Value(k)
                   /\ query[k].at = "served" => query[k].answer = Value(k)

\* Projects are not deleted: every answer holds what the cache holds.
ListGrows ==
  /\ List("projects") \subseteq projects
  /\ query["projects"].at = "served" =>
       List("projects") \subseteq query["projects"].answer /\ query["projects"].answer \subseteq projects

Deploying == \E d \in Deployers : job[d].at # "idle"

\* There is a project wherever the tab went, and one job at a time creates it.
ProjectThere ==
  /\ \/ page # "projects" \/ Deploying
     \/ \E c \in Creators : job[c].at \notin {"idle", "post"} \/ job[c].status = "ok"
     => Project \in projects
  /\ \A c, d \in Creators : job[c].at # "idle" /\ job[d].at # "idle" => c = d

\* Who leaves the list while the form is under way went by the project's card, and
\* what the form waits for in the end has been read after the insert.
FormLists ==
  /\ job["form"].at # "idle" /\ (page # "projects" \/ Deploying) => Project \in List("projects")
  /\ LET e == query["projects"] IN
     job["form"].at = "relist" =>
       IF e.at = "served" THEN Project \in e.answer
       ELSE e.at \in {"sent", "failed"} \/ Project \in List("projects")

\* GitHub's callback page has the tab for itself.
CallbackAlone ==
  job["callback"].at # "idle" =>
    page = "callback" /\ \A j \in Jobs \ {"callback"} : job[j].at = "idle"

-----------------------------------------------------------------------------
(* Safety *)

\* What the cache holds as fresh is what the API holds, whoever wrote it in the tab
\* and in whatever order answers, fetches and invalidations came: only a write still
\* to be handled, one that failed, one that joined a fetch under way, one
\* whose page had turned to another service and the demo project, refetched but not
\* invalidated, may be missing (invalidateQueries in every handler of the pages).
CacheCurrent ==
  \A k \in Keys \ doubt :
    query[k].fresh /\ ~Writing(k) => Data(k) = Value(k)

\* The form opens a project that its organization's list shows: it may have
\* joined the list's first fetch, read before the insert, and refetches
\* (projects/page.tsx:150-156).
NewProjectIsListed ==
  [][job["form"].at \in {"projects", "relist"} /\ job'["form"].at = "idle"
       => Project \in List("projects") \/ query["projects"].at = "failed"]_vars

\* The overview requests a deployment under warnings only for the service its
\* question is about (projects/[id]/page.tsx:58-69).
WarnedIsConfirmed ==
  [][\A s \in Services : job[s].at = "idle" /\ job'[s].at = "post" /\ Warns
       => confirm = [open |-> TRUE, pending |-> s]]_vars

\* A form the user has not touched shows the project the cache holds, so that
\* saving it does not take back what the dialog has saved
\* (settings/page.tsx:31-37).
UntouchedFormIsCurrent ==
  page = "settings" /\ Shown /\ ~form.touched => form.repo = Data("project")

\* Fresh entries and answers on their way are what the API holds, the list of projects
\* never shrinks, one job at a time creates the project, and who leaves the list while
\* the form is under way has seen the project in it: what makes the pages' properties
\* last from step to step.
PagesInv ==
  /\ TypesInv /\ Current /\ UntouchedFormIsCurrent
  /\ ListGrows /\ ProjectThere /\ FormLists /\ CallbackAlone

BusyEnds == busy # {} ~> busy = {}
=============================================================================
