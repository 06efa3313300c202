------------------------- MODULE ProjectPages_proofs -------------------------
(***************************************************************************)
(* Proofs about the pages of a project, for any services, variables and     *)
(* repositories and any number of commands and failures: what the cache     *)
(* holds as fresh is what the API holds, the settings form follows it, the  *)
(* form that creates a project opens one its list shows, and a deployment   *)
(* under warnings is the one that was asked about.                          *)
(*                                                                         *)
(* PagesInv is inductive. Its parts read few of the variables, so that most *)
(* actions leave most parts alone: a lemma each says what a part needs of a *)
(* step (the cache only got staler, no write was forgotten, a job only went *)
(* on), and the proof of an action says which of these its step is.         *)
(***************************************************************************)
EXTENDS ProjectPages, FiniteSetTheorems, TLAPS

Times == Waits \cup Keys
Statuses == {"none", "ok", "error"}
Values == Requested \cup Repos \cup Services \cup {NoRepo, None}
JobType ==
  [at : Times, status : Statuses, live : BOOLEAN, key : Services \cup {None, "install"},
   value : Values]

-----------------------------------------------------------------------------
(* Names *)

LEMMA Names ==
  /\ \A s \in Services : /\ s \notin {"projects", "project", "services", "deployNow", "analyze", "callback"}
                         /\ s \notin Writers /\ s \notin Waits
  /\ \A k \in Keys : k \notin Waits
  /\ \A j \in Writers : j \notin Services /\ j \notin Deployers
  /\ "projects" \in Keys /\ "project" \in Keys /\ "services" \in Keys /\ Services \subseteq Keys
<1>1. \A s \in Services : /\ s \notin {"projects", "project", "services", "deployNow", "analyze", "callback"}
                          /\ s \notin Writers /\ s \notin Waits
  BY NamesAssumption
<1>2. \A k \in Keys : k \notin Waits
  BY <1>1 DEF Keys, Waits
<1>3. \A j \in Writers : j \notin Services /\ j \notin Deployers
  BY <1>1 DEF Deployers, Writers, Creators, Savers, EnvWriters
<1>. QED  BY <1>1, <1>2, <1>3 DEF Keys

LEMMA JobNames ==
  /\ Writers \subseteq Jobs /\ Deployers \subseteq Jobs /\ Services \subseteq Deployers
  /\ Creators \subseteq Writers /\ Savers \subseteq Writers /\ EnvWriters \subseteq Writers
  /\ "addService" \in Writers /\ "analyze" \in Jobs /\ "callback" \in Jobs
  /\ "deployNow" \in Deployers
  /\ "form" \in Creators /\ "demo" \in Creators /\ "cta" \in Creators
  /\ "connect" \in Savers /\ "settings" \in Savers
  BY DEF Writers, Jobs, Deployers, Creators, Savers, EnvWriters

LEMMA FirstMember ==
  ASSUME NEW S, S # {}
  PROVE  First(S) \in S
  BY DEF First

-----------------------------------------------------------------------------
(* The cache *)

\* The entry f of a cache holds what e held, or is fresh and on its way no more than
\* e was.
Staler(e, f, V) ==
  /\ f \in QueryOf(V)
  /\ f.data = e.data /\ (f.fresh => e.fresh)
  /\ f.at = "served" => e.at = "served" /\ f.answer = e.answer
  /\ f.at = "idle" => e.at = "idle"

LEMMA CacheSteps ==
  ASSUME NEW V, NEW e \in QueryOf(V)
  PROVE  /\ Staler(e, e, V) /\ Staler(e, Fetch(e), V) /\ Staler(e, Refetch(e), V)
         /\ \A old : Staler(e, Refresh(e, old), V)
         /\ \A w : Staler(e, Invalidate(e, w), V)
         /\ Staler(e, Failed(e), V)
<1>1. Staler(e, e, V)
  BY DEF Staler
<1>2. ASSUME NEW q \in QueryOf(V)  PROVE Staler(q, Fetch(q), V)
  BY <1>2 DEF Staler, Fetch, Fetching, QueryOf
<1>3. ASSUME NEW q \in QueryOf(V)  PROVE Staler(q, Refetch(q), V)
  <2>1. CASE q.data = None
    BY <1>2, <1>3, <2>1 DEF Refetch
  <2>2. CASE q.data # None
    BY <1>3, <2>2 DEF Refetch, Staler, QueryOf
  <2>. QED  BY <2>1, <2>2
<1>4. \A old : Staler(e, Refresh(e, old), V)
  BY <1>1, <1>2 DEF Refresh
<1>5. \A w : Staler(e, Invalidate(e, w), V)
  <2>. DEFINE q == [e EXCEPT !.fresh = FALSE]
  <2>1. q \in QueryOf(V) /\ Staler(e, q, V)
    BY DEF Staler, QueryOf
  <2>2. Staler(q, Refetch(q), V)
    BY <1>3, <2>1
  <2>3. \A w : Invalidate(e, w) = q \/ Invalidate(e, w) = Refetch(q)
    BY DEF Invalidate
  <2>. HIDE DEF q
  <2>4. Staler(e, Refetch(q), V)
    BY <2>1, <2>2 DEF Staler
  <2>. QED  BY <2>1, <2>3, <2>4
<1>6. Staler(e, Failed(e), V)
  BY DEF Staler, Failed, QueryOf
<1>. QED  BY <1>1, <1>2, <1>3, <1>4, <1>5, <1>6

\* An invalidated entry is not fresh, and what is on its way is asked for again or
\* was on its way.
LEMMA InvalidatedEntry ==
  ASSUME NEW V, NEW e \in QueryOf(V), NEW w
  PROVE  /\ Invalidate(e, w).fresh = FALSE
         /\ Invalidate(e, w).at = "served" => e.at = "served" /\ (e.data = None \/ ~w)
  BY DEF Invalidate, Refetch, Fetch, Fetching, QueryOf

\* The whole cache: every entry keeps its data, none gets fresher.
CacheStaler ==
  /\ DOMAIN query' = Keys
  /\ \A k \in Keys : Staler(query[k], query'[k], Kind(k))

CacheTyped ==
  /\ DOMAIN query = Keys
  /\ \A k \in Keys : /\ query[k] \in QueryOf(Kind(k))
                     /\ query[k].at = "served" => query[k].answer # None

LEMMA StalerData ==
  ASSUME CacheStaler, NEW k \in Keys
  PROVE  /\ Data(k)' = Data(k) /\ List(k)' = List(k)
         /\ query'[k] \in QueryOf(Kind(k))
         /\ query'[k].fresh => query[k].fresh
         /\ query'[k].at = "served" => query[k].at = "served" /\ query'[k].answer = query[k].answer
         /\ query'[k].at = "idle" => query[k].at = "idle"
  BY DEF CacheStaler, Staler, Data, List

\* The list of projects alone.
ListStaler == Staler(query["projects"], query'["projects"], Kind("projects"))

LEMMA ListStalerData ==
  ASSUME ListStaler
  PROVE  /\ List("projects")' = List("projects")
         /\ query'["projects"] \in QueryOf(Kind("projects"))
         /\ query'["projects"].at = "served" =>
              query["projects"].at = "served" /\ query'["projects"].answer = query["projects"].answer
         /\ query'["projects"].at = "idle" => query["projects"].at = "idle"
  BY DEF ListStaler, Staler, Data, List

LEMMA CacheListStaler ==
  ASSUME CacheStaler
  PROVE  ListStaler
  BY Names DEF CacheStaler, ListStaler

LEMMA SameCache ==
  ASSUME CacheTyped, UNCHANGED query
  PROVE  CacheStaler
  BY CacheSteps DEF CacheTyped, CacheStaler

LEMMA OneKeyStaler ==
  ASSUME CacheTyped, NEW k \in Keys, NEW f, Staler(query[k], f, Kind(k)),
         query' = [query EXCEPT ![k] = f]
  PROVE  CacheStaler
  BY CacheSteps DEF CacheTyped, CacheStaler

\* Q is the cache or a staler one.
LEMMA MountStaler ==
  ASSUME CacheTyped, NEW Q, NEW K, Mount(Q, K),
         \A k \in Keys : Staler(query[k], Q[k], Kind(k))
  PROVE  CacheStaler
<1>1. ASSUME NEW k \in Keys
      PROVE  Staler(query[k], query'[k], Kind(k))
  <2>1. query'[k] = Refresh(Q[k], FALSE) \/ query'[k] = Q[k]
    BY DEF Mount
  <2>2. Staler(query[k], Q[k], Kind(k)) /\ Q[k] \in QueryOf(Kind(k))
    BY DEF Staler
  <2>3. Staler(Q[k], query'[k], Kind(k))
    BY <2>1, <2>2, CacheSteps
  <2>. QED  BY <2>2, <2>3 DEF Staler
<1>. QED  BY <1>1 DEF CacheStaler, Mount

-----------------------------------------------------------------------------
(* The parts of the invariant *)

RowsTyped ==
  /\ projects \subseteq {Project} /\ repo \in Repos \cup {NoRepo}
  /\ services \subseteq Services /\ env \in [Services -> SUBSET Variables]

ScreenTyped ==
  /\ page \in Pages /\ service \in Services \cup {None}
  /\ dialog \in [open : BOOLEAN, repo : Repos \cup {NoRepo}, analysis : Repos \cup {None},
                 list : SUBSET Repos]
  /\ confirm \in [open : BOOLEAN, pending : Services \cup {None}]
  /\ form \in [repo : Repos \cup {NoRepo}, touched : BOOLEAN]
  /\ offered \subseteq Repos

JobsTyped ==
  /\ job \in [Jobs -> JobType]
  /\ \A j \in Jobs : job[j].at # "idle" => Carries(j, job[j])

RoomLeft == Requesting("addService") => services # Services

DoubtTyped == doubt \subseteq Keys

LEMMA TypeParts ==
  TypesInv <=> /\ RowsTyped /\ ScreenTyped /\ CacheTyped /\ JobsTyped /\ RoomLeft
               /\ DoubtTyped
<1>1. TypeOK <=> RowsTyped /\ ScreenTyped /\ DOMAIN query = Keys /\ DoubtTyped
  BY DEF TypeOK, RowsTyped, ScreenTyped, DoubtTyped
<1>2. JobsTyped <=> /\ job \in [Jobs -> [at : Waits \cup Keys, status : {"none", "ok", "error"},
                            live : BOOLEAN, key : Services \cup {None, "install"},
                            value : Requested \cup Repos \cup Services \cup {NoRepo, None}]]
                    /\ \A j \in Jobs : job[j].at # "idle" => Carries(j, job[j])
  BY DEF JobsTyped, JobType, Times, Statuses, Values
<1>. QED  BY <1>1, <1>2 DEF TypesInv, CacheTyped, RoomLeft

LEMMA Facts ==
  ASSUME PagesInv
  PROVE  /\ RowsTyped /\ ScreenTyped /\ CacheTyped /\ JobsTyped /\ RoomLeft
         /\ DoubtTyped
         /\ Current /\ UntouchedFormIsCurrent /\ ListGrows /\ ProjectThere /\ FormLists
         /\ CallbackAlone
  BY TypeParts DEF PagesInv

LEMMA FactsNext ==
  PagesInv' <=> /\ RowsTyped' /\ ScreenTyped' /\ CacheTyped' /\ JobsTyped' /\ RoomLeft'
                /\ DoubtTyped'
                /\ Current' /\ UntouchedFormIsCurrent' /\ ListGrows' /\ ProjectThere'
                /\ FormLists' /\ CallbackAlone'
<1>1. PagesInv <=> /\ RowsTyped /\ ScreenTyped /\ CacheTyped /\ JobsTyped /\ RoomLeft
                   /\ DoubtTyped
                   /\ Current /\ UntouchedFormIsCurrent /\ ListGrows /\ ProjectThere
                   /\ FormLists /\ CallbackAlone
  BY TypeParts DEF PagesInv
<1>. QED  BY <1>1, PTL

-----------------------------------------------------------------------------
(* Jobs that go on or end *)

Past(r) == r.at \notin {"idle", "post"} \/ r.status = "ok"
Handling(j) == job[j].at = "install" \/ (job[j].at = "post" /\ job[j].status # "none")

\* No job begins, none is answered, none asks for a service, and the form refetches
\* its list when it goes on to wait for that.
JobsSettle ==
  /\ JobsTyped'
  /\ \A j \in Jobs : /\ job'[j].at # "idle" => job[j].at # "idle"
                     /\ Past(job'[j]) => Past(job[j])
  /\ job'["form"].at = "relist" => job["form"].at = "relist" \/ query'["projects"].at = "sent"
  /\ Requesting("addService")' => Requesting("addService")

WritesKept == \A k \in Keys \ doubt' : Writing(k) => Writing(k)'

LEMMA JobFacts ==
  ASSUME JobsTyped, NEW j \in Jobs
  PROVE  /\ job[j] \in JobType /\ job[j].at \in Times /\ job[j].status \in Statuses
         /\ job[j].live \in BOOLEAN /\ job[j].key \in Services \cup {None, "install"}
         /\ job[j].value \in Values
         /\ job[j].at # "idle" => Carries(j, job[j])
  BY DEF JobsTyped, JobType

LEMMA OneJobSettles ==
  ASSUME JobsTyped, NEW j \in Jobs, NEW r \in JobType, job' = [job EXCEPT ![j] = r],
         r.at # "idle" => Carries(j, r) /\ job[j].at # "idle",
         Past(r) => Past(job[j]),
         r.at = "relist" => job[j].at = "relist" \/ query'["projects"].at = "sent",
         r.at \in {"post", "install"} /\ r.status = "none" => j # "addService"
  PROVE  JobsSettle
<1>1. JobsTyped'
  BY DEF JobsTyped
<1>2. \A i \in Jobs : job'[i] = IF i = j THEN r ELSE job[i]
  BY DEF JobsTyped
<1>3. "form" \in Jobs /\ "addService" \in Jobs
  BY JobNames
<1>4. Requesting("addService")' => Requesting("addService")
  BY <1>2, <1>3 DEF Requesting
<1>5. job'["form"].at = "relist" => job["form"].at = "relist" \/ query'["projects"].at = "sent"
  BY <1>2, <1>3
<1>6. \A i \in Jobs : /\ job'[i].at # "idle" => job[i].at # "idle"
                      /\ Past(job'[i]) => Past(job[i])
  BY <1>2
<1>. QED  BY <1>1, <1>4, <1>5, <1>6 DEF JobsSettle

\* A write is not forgotten by a step of a job that handles none, goes on
\* handling it, or leaves it in doubt.
LEMMA OneJobWrites ==
  ASSUME JobsTyped, NEW j \in Jobs, NEW r, job' = [job EXCEPT ![j] = r],
         \/ j \notin Writers \/ ~Handling(j)
         \/ /\ r.at = "install" \/ (r.at = "post" /\ r.status # "none")
            /\ r.value = job[j].value
         \/ Written(j) \subseteq doubt'
  PROVE  WritesKept
<1>1. SUFFICES ASSUME NEW k \in Keys \ doubt', Writing(k)  PROVE Writing(k)'
  BY DEF WritesKept
<1>2. PICK i \in Writers : Handling(i) /\ k \in Written(i)
  BY <1>1 DEF Writing, Handling
<1>3. \A h \in Jobs : job'[h] = IF h = j THEN r ELSE job[h]
  BY DEF JobsTyped
<1>4. i \in Jobs
  BY JobNames
<1>5. /\ job'[i].value = job[i].value
      /\ job'[i].at = "install" \/ (job'[i].at = "post" /\ job'[i].status # "none")
  <2>1. CASE i # j
    BY <1>2, <1>3, <1>4, <2>1 DEF Handling
  <2>2. CASE i = j
    BY <1>1, <1>2, <1>3, <1>4, <2>2
  <2>. QED  BY <2>1, <2>2
<1>6. Written(i)' = Written(i)
  BY <1>5 DEF Written
<1>. QED  BY <1>2, <1>5, <1>6 DEF Writing

LEMMA SameJobs ==
  ASSUME JobsTyped, UNCHANGED job
  PROVE  JobsSettle /\ WritesKept
<1>1. JobsTyped'
  BY DEF JobsTyped
<1>2. Requesting("addService")' <=> Requesting("addService")
  BY DEF Requesting
<1>3. ASSUME NEW k \in Keys  PROVE Writing(k)' <=> Writing(k)
  BY DEF Writing, Written
<1>. QED  BY <1>1, <1>2, <1>3 DEF JobsSettle, WritesKept

-----------------------------------------------------------------------------
(* What the parts need of a step *)

LEMMA ValueSame ==
  ASSUME UNCHANGED <<projects, repo, services, env>>, NEW k
  PROVE  Value(k)' = Value(k)
  BY DEF Value

LEMMA CurrentKept ==
  ASSUME Current, CacheStaler, UNCHANGED <<projects, repo, services, env>>,
         doubt \subseteq doubt', WritesKept
  PROVE  Current'
<1>1. SUFFICES ASSUME NEW k \in Keys, k \notin doubt', ~Writing(k)'
               PROVE  /\ query'[k].fresh => Data(k)' = Value(k)'
                      /\ query'[k].at = "served" => query'[k].answer = Value(k)'
  BY DEF Current
<1>2. k \notin doubt /\ ~Writing(k)
  BY <1>1 DEF WritesKept
<1>3. /\ query[k].fresh => Data(k) = Value(k)
      /\ query[k].at = "served" => query[k].answer = Value(k)
  BY <1>2 DEF Current
<1>. QED  BY <1>3, StalerData, ValueSame

LEMMA FormKept ==
  ASSUME UntouchedFormIsCurrent, CacheStaler, UNCHANGED <<page, form>>
  PROVE  UntouchedFormIsCurrent'
<1>1. Data("project")' = Data("project")
  BY StalerData, Names
<1>. QED  BY <1>1 DEF UntouchedFormIsCurrent, Shown

LEMMA ListKept ==
  ASSUME ListGrows, ListStaler, projects \subseteq projects'
  PROVE  ListGrows'
<1>1. /\ List("projects")' = List("projects")
      /\ query'["projects"].at = "served" =>
           query["projects"].at = "served" /\ query'["projects"].answer = query["projects"].answer
  BY ListStalerData
<1>. QED  BY <1>1 DEF ListGrows

\* The tab stays on its page, or goes where the project is.
PageMoves ==
  /\ page' = page \/ job'["callback"].at = "idle"
  /\ page' # "projects" =>
       \/ page # "projects" \/ Deploying \/ Project \in List("projects")
       \/ Project \in projects /\ job'["form"].at = "idle"

LEMMA DeployingBefore ==
  ASSUME JobsSettle, Deploying'
  PROVE  Deploying
  BY JobNames DEF JobsSettle, Deploying

LEMMA ThereKept ==
  ASSUME ProjectThere, ListGrows, JobsSettle, PageMoves, projects \subseteq projects'
  PROVE  ProjectThere'
<1>1. ASSUME NEW c \in Creators, NEW d \in Creators, job'[c].at # "idle", job'[d].at # "idle"
      PROVE  c = d
  <2>1. c \in Jobs /\ d \in Jobs
    BY JobNames
  <2>2. job[c].at # "idle" /\ job[d].at # "idle"
    BY <1>1, <2>1 DEF JobsSettle
  <2>. QED  BY <2>2 DEF ProjectThere
<1>2. ASSUME NEW c \in Creators, job'[c].at \notin {"idle", "post"} \/ job'[c].status = "ok"
      PROVE  Project \in projects'
  <2>1. c \in Jobs
    BY JobNames
  <2>2. job[c].at \notin {"idle", "post"} \/ job[c].status = "ok"
    BY <1>2, <2>1 DEF JobsSettle, Past
  <2>. QED  BY <2>2 DEF ProjectThere
<1>3. Deploying' => Project \in projects'
  BY DeployingBefore DEF ProjectThere
<1>4. page' # "projects" => Project \in projects'
  BY DEF PageMoves, ProjectThere, ListGrows
<1>. QED  BY <1>1, <1>2, <1>3, <1>4 DEF ProjectThere

LEMMA FormListsKept ==
  ASSUME FormLists, ListStaler, JobsSettle, PageMoves
  PROVE  FormLists'
<1>. DEFINE e == query["projects"]
            f == query'["projects"]
<1>1. "form" \in Jobs /\ "projects" \in Keys
  BY JobNames, Names
<1>2. List("projects")' = List("projects")
  BY ListStalerData
<1>3. ASSUME job'["form"].at # "idle", page' # "projects" \/ Deploying'
      PROVE  Project \in List("projects")'
  <2>1. job["form"].at # "idle"
    BY <1>1, <1>3 DEF JobsSettle
  <2>2. page # "projects" \/ Deploying \/ Project \in List("projects")
    BY <1>3, DeployingBefore DEF PageMoves
  <2>. QED  BY <1>2, <2>1, <2>2 DEF FormLists
<1>4. ASSUME job'["form"].at = "relist"
      PROVE  IF f.at = "served" THEN Project \in f.answer
             ELSE f.at \in {"sent", "failed"} \/ Project \in List("projects")'
  <2>1. \/ f.at = "sent"
        \/ IF e.at = "served" THEN Project \in e.answer
           ELSE e.at \in {"sent", "failed"} \/ Project \in List("projects")
    BY <1>4 DEF FormLists, JobsSettle
  <2>2. /\ f.at \in {"idle", "sent", "served", "failed"}
        /\ f.at = "served" => e.at = "served" /\ f.answer = e.answer
        /\ f.at = "idle" => e.at = "idle"
    BY ListStalerData DEF QueryOf
  <2>. HIDE DEF e, f
  <2>. QED  BY <1>2, <2>1, <2>2
<1>. QED  BY <1>3, <1>4 DEF FormLists

LEMMA CallbackKept ==
  ASSUME CallbackAlone, JobsSettle, page' = page \/ job'["callback"].at = "idle"
  PROVE  CallbackAlone'
  BY JobNames DEF CallbackAlone, JobsSettle

LEMMA StalerTyped ==
  ASSUME CacheTyped, CacheStaler
  PROVE  CacheTyped'
  BY DEF CacheStaler, CacheTyped, Staler

\* A step that writes no row, begins no job and learns nothing.
LEMMA SettlingStep ==
  ASSUME PagesInv, UNCHANGED <<projects, repo, services, env>>, ScreenTyped',
         doubt \subseteq doubt', DoubtTyped',
         CacheStaler, JobsSettle, WritesKept, PageMoves, UntouchedFormIsCurrent'
  PROVE  PagesInv'
<1>1. RowsTyped' /\ RoomLeft'
  BY Facts DEF RowsTyped, RoomLeft, JobsSettle
<1>2. CacheTyped' /\ JobsTyped'
  BY Facts, StalerTyped DEF JobsSettle
<1>3. Current' /\ ListGrows'
  BY Facts, CurrentKept, ListKept, CacheListStaler
<1>4. ProjectThere' /\ FormLists' /\ CallbackAlone'
  BY Facts, ThereKept, FormListsKept, CallbackKept, CacheListStaler DEF PageMoves
<1>. QED  BY <1>1, <1>2, <1>3, <1>4, FactsNext

-----------------------------------------------------------------------------
(* What a page opens with *)

LEMMA OneIsSome ==
  ASSUME NEW S, Cardinality(S) = 1
  PROVE  First(S) \in S
<1>1. S # {}
  BY FS_EmptySet
<1>. QED  BY <1>1, FirstMember

Dialogs ==
  [open : BOOLEAN, repo : Repos \cup {NoRepo}, analysis : Repos \cup {None}, list : SUBSET Repos]
Forms == [repo : Repos \cup {NoRepo}, touched : BOOLEAN]

LEMMA LocalTypes ==
  /\ Closed \in Dialogs /\ Unasked \in [open : BOOLEAN, pending : Services \cup {None}]
  /\ \A p \in Repos \cup {NoRepo, None} : FormOf(p) \in Forms
  /\ offered \subseteq Repos => OpenDialog \in Dialogs
<1>1. Closed \in Dialogs
  BY DEF Closed, Dialogs
<1>2. Unasked \in [open : BOOLEAN, pending : Services \cup {None}]
  BY DEF Unasked
<1>3. \A p \in Repos \cup {NoRepo, None} : FormOf(p) \in Forms
  BY DEF FormOf, Forms
<1>4. offered \subseteq Repos => OpenDialog \in Dialogs
  <2>1. SUFFICES ASSUME offered \subseteq Repos  PROVE OpenDialog \in Dialogs
    OBVIOUS
  <2>2. (IF Cardinality(offered) = 1 THEN First(offered) ELSE NoRepo) \in Repos \cup {NoRepo}
    BY <2>1, OneIsSome
  <2>. QED  BY <2>1, <2>2 DEF OpenDialog, Dialogs
<1>. QED  BY <1>1, <1>2, <1>3, <1>4

-----------------------------------------------------------------------------
(* Steps of the screen and of the cache alone *)

LEMMA ScreenStep ==
  ASSUME PagesInv, UNCHANGED <<projects, repo, services, env, page, query, job, doubt>>,
         ScreenTyped', UntouchedFormIsCurrent'
  PROVE  PagesInv'
<1>1. CacheStaler /\ JobsSettle /\ WritesKept
  BY Facts, SameCache, SameJobs
<1>2. PageMoves
  BY Facts DEF PageMoves, ProjectThere
<1>3. DoubtTyped'
  BY Facts DEF DoubtTyped
<1>. QED  BY <1>1, <1>2, <1>3, SettlingStep

LEMMA ScreenSame ==
  ASSUME ScreenTyped, UNCHANGED <<page, dialog, confirm, form, service, offered>>
  PROVE  ScreenTyped'
  BY DEF ScreenTyped

\* The dialog's fields, its end, and the question before a deployment.
LEMMA DialogKeepsInv ==
  ASSUME PagesInv,
         \/ \E r \in Repos \cup {NoRepo} : TypeRepo(r)
         \/ \E r \in Repos : PickRepo(r)
         \/ CancelConnect \/ CancelDeploy
         \/ \E s \in Services : Ask([open |-> TRUE, pending |-> s])
  PROVE  PagesInv'
<1>1. ScreenTyped /\ CacheTyped /\ UntouchedFormIsCurrent
  BY Facts
<1>2. UNCHANGED <<projects, repo, services, env, page, form, service, offered, query, job, doubt>>
  BY DEF TypeRepo, PickRepo, CancelConnect, CancelDeploy, Ask, rows, cache
<1>. DEFINE Shapes == [open : BOOLEAN, repo : Repos \cup {NoRepo}, analysis : Repos \cup {None},
                       list : SUBSET Repos]
           Questions == [open : BOOLEAN, pending : Services \cup {None}]
<1>3. dialog' \in Shapes /\ confirm' \in Questions
  <2>1. dialog \in Shapes /\ confirm \in Questions
    BY <1>1 DEF ScreenTyped
  <2>2. ASSUME NEW r \in Repos \cup {NoRepo},
               \/ dialog' = [dialog EXCEPT !.repo = r, !.analysis = None]
               \/ dialog' = [dialog EXCEPT !.repo = r]
        PROVE  dialog' \in Shapes
    BY <2>1, <2>2
  <2>3. CASE \E r \in Repos \cup {NoRepo} : TypeRepo(r)
    BY <2>1, <2>2, <2>3 DEF TypeRepo
  <2>4. CASE \E r \in Repos : PickRepo(r)
    BY <2>1, <2>2, <2>4 DEF PickRepo
  <2>5. CASE CancelConnect
    <3>1. Closed \in Shapes
      BY DEF Closed
    <3>. QED  BY <2>1, <2>5, <3>1 DEF CancelConnect
  <2>6. CASE CancelDeploy
    <3>1. [confirm EXCEPT !.open = FALSE] \in Questions
      BY <2>1
    <3>. QED  BY <2>1, <2>6, <3>1 DEF CancelDeploy, Ask
  <2>7. ASSUME NEW s \in Services, Ask([open |-> TRUE, pending |-> s])
        PROVE  dialog' \in Shapes /\ confirm' \in Questions
    <3>1. [open |-> TRUE, pending |-> s] \in Questions
      OBVIOUS
    <3>. QED  BY <2>1, <2>7, <3>1 DEF Ask
  <2>. HIDE DEF Shapes, Questions
  <2>. QED  BY <2>3, <2>4, <2>5, <2>6, <2>7
<1>5. ScreenTyped'
  BY <1>1, <1>2, <1>3 DEF ScreenTyped
<1>6. UntouchedFormIsCurrent'
  BY <1>1, <1>2, FormKept, SameCache
<1>. QED  BY <1>2, <1>5, <1>6, ScreenStep

LEMMA EditKeepsInv ==
  ASSUME PagesInv, NEW r \in Repos \cup {NoRepo}, EditSettings(r)
  PROVE  PagesInv'
<1>1. form' = [repo |-> r, touched |-> TRUE]
      /\ UNCHANGED <<projects, repo, services, env, page, dialog, confirm, service, offered,
                     query, job, doubt>>
  BY DEF EditSettings, rows, cache
<1>2. ScreenTyped'
  BY <1>1, Facts DEF ScreenTyped
<1>3. UntouchedFormIsCurrent'
  BY <1>1 DEF UntouchedFormIsCurrent
<1>. QED  BY <1>1, <1>2, <1>3, ScreenStep

\* Nothing of the tab's own changes, and the cache gets staler at most.
LEMMA QuietStep ==
  ASSUME PagesInv, CacheStaler,
         UNCHANGED <<projects, repo, services, env, page, dialog, confirm, form, service,
                     offered, job, doubt>>
  PROVE  PagesInv'
<1>1. JobsSettle /\ WritesKept
  BY Facts, SameJobs
<1>2. PageMoves
  BY Facts DEF PageMoves, ProjectThere
<1>3. DoubtTyped' /\ ScreenTyped'
  BY Facts, ScreenSame DEF DoubtTyped
<1>4. UntouchedFormIsCurrent'
  BY Facts, FormKept
<1>. QED  BY <1>1, <1>2, <1>3, <1>4, SettlingStep

LEMMA QuietKeepsInv ==
  ASSUME PagesInv, FocusWindow \/ Revoke \/ \E k \in Keys : RefuseFetch(k)
  PROVE  PagesInv'
<1>1. UNCHANGED <<projects, repo, services, env, page, dialog, confirm, form, service,
                  offered, job, doubt>>
  BY DEF FocusWindow, Revoke, RefuseFetch, rows, local
<1>2. CacheTyped
  BY Facts
<1>3. CASE FocusWindow
  <2>1. PICK old \in BOOLEAN :
          query' = [k \in Keys |-> IF k \in Watched(page, service) THEN Refresh(query[k], old)
                                   ELSE query[k]]
    BY <1>3 DEF FocusWindow
  <2>2. \A k \in Keys : query'[k] = Refresh(query[k], old) \/ query'[k] = query[k]
    BY <2>1
  <2>3. CacheStaler
    BY <1>2, <2>1, <2>2, CacheSteps DEF CacheTyped, CacheStaler
  <2>. QED  BY <1>1, <2>3, QuietStep
<1>4. CASE Revoke
  <2>1. UNCHANGED query
    BY <1>4 DEF Revoke, cache
  <2>. QED  BY <1>1, <1>2, <2>1, SameCache, QuietStep
<1>5. ASSUME NEW k \in Keys, RefuseFetch(k)  PROVE CacheStaler
  <2>1. query' = [query EXCEPT ![k] = Failed(query[k])]
    BY <1>5 DEF RefuseFetch
  <2>2. Staler(query[k], Failed(query[k]), Kind(k))
    BY <1>2, CacheSteps DEF CacheTyped
  <2>. QED  BY <1>2, <2>1, <2>2, OneKeyStaler
<1>. QED  BY <1>1, <1>3, <1>4, <1>5, QuietStep

LEMMA ValueTyped ==
  ASSUME RowsTyped, NEW k \in Keys
  PROVE  Value(k) \in Kind(k) /\ Value(k) # None
<1>1. Value(k) \in Kind(k)
  BY Names DEF RowsTyped, Value, Kind, Keys
<1>2. \A S : S \in Kind(k) => S # None
  BY PagesAssumption DEF Kind
<1>. QED  BY <1>1, <1>2

LEMMA ServeFetchKeepsInv ==
  ASSUME PagesInv, NEW k \in Keys, ServeFetch(k)
  PROVE  PagesInv'
<1>. DEFINE e == query[k]
            f == Served(e, Value(k))
<1>1. /\ RowsTyped /\ ScreenTyped /\ CacheTyped /\ JobsTyped /\ RoomLeft /\ DoubtTyped
      /\ Current /\ UntouchedFormIsCurrent /\ ListGrows /\ ProjectThere /\ FormLists /\ CallbackAlone
  BY Facts
<1>2. /\ query' = [query EXCEPT ![k] = f] /\ e.at = "sent"
      /\ UNCHANGED <<projects, repo, services, env, page, dialog, confirm, form, service,
                     offered, job, doubt>>
  BY DEF ServeFetch, rows, local
<1>3. /\ f \in QueryOf(Kind(k)) /\ f.data = e.data /\ f.fresh = e.fresh
      /\ f.at = "served" /\ f.answer = Value(k) /\ f.answer # None
  BY <1>1, ValueTyped DEF CacheTyped, Served, QueryOf
<1>4. \A i \in Keys : query'[i] = IF i = k THEN f ELSE query[i]
  BY <1>1, <1>2 DEF CacheTyped
<1>. HIDE DEF e, f
<1>5. CacheTyped'
  BY <1>1, <1>2, <1>3, <1>4 DEF CacheTyped
<1>6. /\ \A i \in Keys : Data(i)' = Data(i) /\ List(i)' = List(i)
      /\ \A i : Value(i)' = Value(i)
      /\ \A i \in Keys : Writing(i)' = Writing(i)
  BY <1>2, <1>3, <1>4, ValueSame DEF Data, List, Writing, Written, e
<1>7. Current'
  <2>1. SUFFICES ASSUME NEW i \in Keys, i \notin doubt', ~Writing(i)'
                 PROVE  /\ query'[i].fresh => Data(i)' = Value(i)'
                        /\ query'[i].at = "served" => query'[i].answer = Value(i)'
    BY DEF Current
  <2>2. query[i].fresh => Data(i) = Value(i)
    BY <1>1, <1>2, <1>6, <2>1 DEF Current
  <2>3. CASE i = k
    BY <1>3, <1>4, <1>6, <2>2, <2>3 DEF e
  <2>4. CASE i # k
    BY <1>1, <1>2, <1>4, <1>6, <2>1, <2>4 DEF Current
  <2>. QED  BY <2>3, <2>4
<1>8. UntouchedFormIsCurrent'
  BY <1>1, <1>2, <1>6, Names DEF UntouchedFormIsCurrent, Shown
<1>9. ListGrows'
  <2>1. CASE k = "projects"
    <3>1. query'["projects"].answer = projects
      BY <1>3, <1>4, <2>1, Names DEF Value
    <3>. QED  BY <1>1, <1>2, <1>6, <3>1, Names DEF ListGrows
  <2>2. CASE k # "projects"
    BY <1>1, <1>2, <1>4, <1>6, <2>2, Names DEF ListGrows
  <2>. QED  BY <2>1, <2>2
<1>10. ProjectThere' /\ CallbackAlone' /\ RowsTyped' /\ RoomLeft' /\ JobsTyped' /\ DoubtTyped'
  BY <1>1, <1>2 DEF ProjectThere, CallbackAlone, RowsTyped, RoomLeft, JobsTyped, DoubtTyped,
     Deploying, Requesting
<1>11. FormLists'
  <2>1. Project \in List("projects")' <=> Project \in List("projects")
    BY <1>6, Names
  <2>2. job["form"].at = "relist" =>
          IF query'["projects"].at = "served" THEN Project \in query'["projects"].answer
          ELSE query'["projects"].at \in {"sent", "failed"} \/ Project \in List("projects")
    <3>1. CASE k = "projects"
      <4>1. query'["projects"].at = "served" /\ query'["projects"].answer = projects
        BY <1>3, <1>4, <3>1, Names DEF Value
      <4>2. job["form"].at = "relist" => Project \in projects
        BY <1>1, JobNames DEF ProjectThere
      <4>. QED  BY <4>1, <4>2
    <3>2. CASE k # "projects"
      BY <1>1, <1>4, <3>2, Names DEF FormLists
    <3>. QED  BY <3>1, <3>2
  <2>3. Deploying' <=> Deploying
    BY <1>2 DEF Deploying
  <2>. QED  BY <1>1, <1>2, <2>1, <2>2, <2>3 DEF FormLists
<1>12. ScreenTyped'
  BY <1>1, <1>2, ScreenSame
<1>. QED  BY <1>5, <1>7, <1>8, <1>9, <1>10, <1>11, <1>12, FactsNext

\* The answer reaches the tab, and the settings page copies it.
LEMMA SettleFetchKeepsInv ==
  ASSUME PagesInv, NEW k \in Keys, SettleFetch(k)
  PROVE  PagesInv'
<1>. DEFINE e == query[k]
            f == Settled(e)
<1>1. /\ RowsTyped /\ ScreenTyped /\ CacheTyped /\ JobsTyped /\ RoomLeft /\ DoubtTyped
      /\ Current /\ UntouchedFormIsCurrent /\ ListGrows /\ ProjectThere /\ FormLists /\ CallbackAlone
  BY Facts
<1>2. /\ query' = [query EXCEPT ![k] = f] /\ e.at = "served"
      /\ form' \in FormAfter(k)
      /\ doubt' = IF e.answer = Value(k) THEN doubt \ {k} ELSE doubt
      /\ UNCHANGED <<projects, repo, services, env, page, dialog, confirm, service,
                     offered, job>>
  BY DEF SettleFetch, rows
<1>3. /\ f \in QueryOf(Kind(k)) /\ f.data = e.answer /\ f.fresh = TRUE /\ f.at = "idle"
      /\ e.answer \in Kind(k) /\ e.answer # None
  BY <1>1, <1>2 DEF CacheTyped, Settled, WithData, QueryOf
<1>4. \A i \in Keys : query'[i] = IF i = k THEN f ELSE query[i]
  BY <1>1, <1>2 DEF CacheTyped
<1>. HIDE DEF f
<1>5. CacheTyped'
  BY <1>1, <1>2, <1>3, <1>4 DEF CacheTyped
<1>6. /\ \A i \in Keys \ {k} : Data(i)' = Data(i) /\ List(i)' = List(i)
      /\ Data(k)' = e.answer
      /\ \A i : Value(i)' = Value(i)
      /\ \A i \in Keys : Writing(i)' = Writing(i)
  BY <1>2, <1>3, <1>4, ValueSame DEF Data, List, Writing, Written
<1>7. Current'
  <2>1. SUFFICES ASSUME NEW i \in Keys, i \notin doubt', ~Writing(i)'
                 PROVE  /\ query'[i].fresh => Data(i)' = Value(i)'
                        /\ query'[i].at = "served" => query'[i].answer = Value(i)'
    BY DEF Current
  <2>2. CASE i = k
    <3>1. e.answer = Value(k)
      BY <1>1, <1>2, <1>6, <2>1, <2>2 DEF Current
    <3>. QED  BY <1>3, <1>4, <1>6, <2>2, <3>1
  <2>3. CASE i # k
    BY <1>1, <1>2, <1>4, <1>6, <2>1, <2>3 DEF Current
  <2>. QED  BY <2>2, <2>3
<1>8. UntouchedFormIsCurrent'
  <2>1. CASE page = "settings" /\ k = "project"
    <3>1. form' = FormOf(e.answer) \/ (form' = form /\ e.answer = Data(k))
      BY <1>2, <2>1 DEF FormAfter
    <3>. QED  BY <1>1, <1>2, <1>6, <2>1, <3>1 DEF UntouchedFormIsCurrent, Shown, FormOf
  <2>2. CASE ~(page = "settings" /\ k = "project")
    <3>1. form' = form
      BY <1>2, <2>2 DEF FormAfter
    <3>2. page = "settings" => Data("project")' = Data("project")
      BY <1>6, <2>2, Names
    <3>. QED  BY <1>1, <1>2, <3>1, <3>2 DEF UntouchedFormIsCurrent, Shown
  <2>. QED  BY <2>1, <2>2
<1>9. /\ k = "projects" => List("projects") \subseteq List("projects")'
      /\ List("projects")' \subseteq projects
  <2>1. CASE k = "projects"
    <3>1. List("projects")' = e.answer
      BY <1>3, <1>6, <2>1 DEF List
    <3>2. List("projects") \subseteq e.answer /\ e.answer \subseteq projects
      BY <1>1, <1>2, <2>1 DEF ListGrows
    <3>. QED  BY <2>1, <3>1, <3>2
  <2>2. CASE k # "projects"
    BY <1>1, <1>6, <2>2, Names DEF ListGrows
  <2>. QED  BY <2>1, <2>2
<1>10. ListGrows'
  <2>1. CASE k = "projects"
    BY <1>2, <1>3, <1>4, <1>9, <2>1 DEF ListGrows
  <2>2. CASE k # "projects"
    BY <1>1, <1>2, <1>4, <1>6, <2>2, Names DEF ListGrows
  <2>. QED  BY <2>1, <2>2
<1>11. ProjectThere' /\ CallbackAlone' /\ RowsTyped' /\ RoomLeft' /\ JobsTyped' /\ DoubtTyped'
  BY <1>1, <1>2 DEF ProjectThere, CallbackAlone, RowsTyped, RoomLeft, JobsTyped, DoubtTyped,
     Deploying, Requesting
<1>12. FormLists'
  <2>1. Project \in List("projects") => Project \in List("projects")'
    BY <1>6, <1>9, Names
  <2>2. job["form"].at = "relist" =>
          IF query'["projects"].at = "served" THEN Project \in query'["projects"].answer
          ELSE query'["projects"].at \in {"sent", "failed"} \/ Project \in List("projects")'
    <3>1. CASE k = "projects"
      <4>1. job["form"].at = "relist" => Project \in e.answer
        BY <1>1, <1>2, <3>1 DEF FormLists
      <4>2. List("projects")' = e.answer
        BY <1>3, <1>6, <3>1 DEF List
      <4>. QED  BY <1>3, <1>4, <3>1, <4>1, <4>2, Names
    <3>2. CASE k # "projects"
      BY <1>1, <1>4, <2>1, <3>2, Names DEF FormLists
    <3>. QED  BY <3>1, <3>2
  <2>3. Deploying' <=> Deploying
    BY <1>2 DEF Deploying
  <2>. QED  BY <1>1, <1>2, <2>1, <2>2, <2>3 DEF FormLists
<1>13. ScreenTyped'
  <2>1. form' \in [repo : Repos \cup {NoRepo}, touched : BOOLEAN]
    <3>1. form' \in {FormOf(e.answer), form} /\ (form' = form \/ k = "project")
      BY <1>2 DEF FormAfter
    <3>2. k = "project" => e.answer \in Repos \cup {NoRepo, None}
      BY <1>3 DEF Kind
    <3>3. k = "project" => FormOf(e.answer) \in [repo : Repos \cup {NoRepo}, touched : BOOLEAN]
      BY <3>2 DEF FormOf
    <3>. QED  BY <1>1, <3>1, <3>3 DEF ScreenTyped
  <2>. QED  BY <1>1, <1>2, <2>1 DEF ScreenTyped
<1>. QED  BY <1>5, <1>7, <1>8, <1>10, <1>11, <1>12, <1>13, FactsNext

-----------------------------------------------------------------------------
(* A command begins a job *)

LEMMA BegunTypes ==
  ASSUME NEW v \in Values, NEW key \in Services \cup {None, "install"}
  PROVE  /\ Begun(v, key) \in JobType
         /\ Begun(v, key).at = "post" /\ Begun(v, key).status = "none"
         /\ Begun(v, key).value = v /\ Begun(v, key).key = key
  BY DEF Begun, Idle, JobType, Times, Waits, Statuses

\* A job begins where its page is: one that creates the project on the list that
\* has none yet, one that deploys in the project's layout.
LEMMA PostStep ==
  ASSUME PagesInv, NEW j \in Jobs \ {"callback"}, NEW v \in Values,
         NEW key \in Services \cup {None, "install"}, NEW B, Post(j, v, key, B),
         Carries(j, Begun(v, key)), page # "callback",
         j = "addService" => services # Services,
         j \in Creators => /\ page = "projects" /\ projects = {}
                           /\ \A c \in Creators : job[c].at = "idle",
         j \in Deployers => page \in Tabs
  PROVE  PagesInv'
<1>. DEFINE r == Begun(v, key)
<1>1. /\ RowsTyped /\ ScreenTyped /\ CacheTyped /\ JobsTyped /\ RoomLeft /\ DoubtTyped
      /\ Current /\ UntouchedFormIsCurrent /\ ListGrows /\ ProjectThere /\ FormLists /\ CallbackAlone
  BY Facts
<1>2. /\ job' = [job EXCEPT ![j] = r] /\ job[j].at = "idle"
      /\ UNCHANGED <<projects, repo, services, env, page, dialog, confirm, form, service,
                     offered, query, doubt>>
  BY DEF Post, Stay, rows, local, cache
<1>3. r \in JobType /\ r.at = "post" /\ r.status = "none"
  BY BegunTypes
<1>4. Carries(j, r)
  OBVIOUS
<1>. HIDE DEF r
<1>5. \A i \in Jobs : job'[i] = IF i = j THEN r ELSE job[i]
  BY <1>1, <1>2 DEF JobsTyped
<1>6. JobsTyped'
  BY <1>1, <1>2, <1>3, <1>4 DEF JobsTyped
<1>7. RowsTyped' /\ ScreenTyped' /\ DoubtTyped' /\ CacheStaler /\ CacheTyped'
  BY <1>1, <1>2, ScreenSame, SameCache, StalerTyped DEF RowsTyped, DoubtTyped
<1>8. RoomLeft'
  BY <1>1, <1>2, <1>5, JobNames DEF RoomLeft, Requesting
<1>9. Current'
  <2>1. ~Handling(j)
    BY <1>2 DEF Handling
  <2>2. WritesKept
    BY <1>1, <1>2, <2>1, OneJobWrites
  <2>. QED  BY <1>1, <1>2, <1>7, <2>2, CurrentKept
<1>10. UntouchedFormIsCurrent' /\ ListGrows'
  BY <1>1, <1>2, <1>7, FormKept, ListKept, CacheListStaler
<1>11. Deploying' => Deploying \/ page \in Tabs
  BY <1>5, JobNames DEF Deploying
<1>12. page \in Tabs => page # "projects"
  BY DEF Tabs
<1>13. ProjectThere'
  <2>1. \A c \in Creators : c \in Jobs
    BY JobNames
  <2>2. ASSUME NEW c \in Creators, NEW d \in Creators, job'[c].at # "idle", job'[d].at # "idle"
        PROVE  c = d
    BY <1>1, <1>5, <2>1, <2>2 DEF ProjectThere
  <2>3. ASSUME NEW c \in Creators, job'[c].at \notin {"idle", "post"} \/ job'[c].status = "ok"
        PROVE  Project \in projects
    BY <1>1, <1>3, <1>5, <2>1, <2>3 DEF ProjectThere
  <2>4. page # "projects" \/ Deploying' => Project \in projects
    BY <1>1, <1>11, <1>12 DEF ProjectThere
  <2>. QED  BY <1>2, <2>2, <2>3, <2>4 DEF ProjectThere
<1>14. FormLists'
  <2>1. "form" \in Jobs /\ "form" \in Creators
    BY JobNames
  <2>2. List("projects")' = List("projects")
    BY <1>2 DEF List, Data
  <2>3. CASE j = "form"
    <3>1. page = "projects" /\ ~Deploying
      BY <1>1, <2>1, <2>3 DEF ProjectThere
    <3>2. ~Deploying'
      BY <1>11, <1>12, <3>1
    <3>. QED  BY <1>2, <1>3, <1>5, <2>1, <2>3, <3>1, <3>2 DEF FormLists
  <2>4. CASE j # "form"
    <3>1. job'["form"] = job["form"]
      BY <1>5, <2>1, <2>4
    <3>. QED  BY <1>1, <1>2, <1>11, <1>12, <2>2, <3>1 DEF FormLists
  <2>. QED  BY <2>3, <2>4
<1>15. CallbackAlone'
  <2>1. job'["callback"] = job["callback"]
    BY <1>5, JobNames
  <2>. QED  BY <1>1, <2>1 DEF CallbackAlone
<1>. QED  BY <1>6, <1>7, <1>8, <1>9, <1>10, <1>13, <1>14, <1>15, FactsNext

\* Lists hold what their kind says.
LEMMA ListTypes ==
  ASSUME CacheTyped
  PROVE  /\ List("services") \subseteq Services
         /\ \A s \in Services : List(s) \subseteq Variables
         /\ List("projects") \subseteq {Project}
         /\ Data("project") \in Repos \cup {NoRepo, None}
<1>1. /\ Data("services") \in SUBSET Services \/ Data("services") = None
      /\ Data("projects") \in SUBSET {Project} \/ Data("projects") = None
      /\ Data("project") \in Repos \cup {NoRepo, None}
  BY Names DEF CacheTyped, Kind, QueryOf, Data
<1>2. ASSUME NEW s \in Services  PROVE Data(s) \in SUBSET Variables \/ Data(s) = None
  BY <1>2, Names DEF CacheTyped, Kind, QueryOf, Data
<1>. QED  BY <1>1, <1>2 DEF List

LEMMA CreateKeepsInv ==
  ASSUME PagesInv, NEW j \in Creators, CreateProject(j)
  PROVE  PagesInv'
<1>1. PICK B : Post(j, None, None, B)
  BY DEF CreateProject
<1>2. page = "projects" /\ projects = {} /\ \A c \in Creators : job[c].at = "idle"
  BY DEF CreateProject
<1>3. /\ j \in Jobs \ {"callback", "addService"} /\ j \notin Deployers
      /\ Carries(j, Begun(None, None))
  BY JobNames, Names, BegunTypes DEF Creators, Carries, Savers, EnvWriters, Values
<1>. QED  BY <1>1, <1>2, <1>3, PostStep DEF Values

LEMMA ConnectKeepsInv ==
  ASSUME PagesInv, AnalyzeRepo \/ SubmitConnect
  PROVE  PagesInv'
<1>1. page \in Tabs /\ dialog.repo \in Repos
  BY Facts DEF AnalyzeRepo, SubmitConnect, DialogShown, Shown, ScreenTyped
<1>2. page # "callback" /\ dialog.repo \in Values
  BY <1>1 DEF Tabs, Values
<1>3. CASE AnalyzeRepo
  <2>1. PICK B : Post("analyze", dialog.repo, None, B)
    BY <1>3 DEF AnalyzeRepo
  <2>2. "analyze" \in Jobs \ {"callback", "addService"} /\ "analyze" \notin Creators
        /\ "analyze" \notin Deployers
    BY JobNames, Names DEF Creators, Deployers
  <2>3. Carries("analyze", Begun(dialog.repo, None))
    BY <1>1, <1>2, BegunTypes DEF Carries, Savers, EnvWriters
  <2>. QED  BY <1>2, <2>1, <2>2, <2>3, PostStep
<1>4. CASE SubmitConnect
  <2>1. PICK install \in {None, "install"} :
          Post("connect", dialog.repo, install, busy \cup {"connect"})
    BY <1>4 DEF SubmitConnect
  <2>2. "connect" \in Jobs \ {"callback", "addService"} /\ "connect" \notin Creators
        /\ "connect" \notin Deployers
    BY JobNames, Names DEF Creators
  <2>3. Carries("connect", Begun(dialog.repo, install))
    BY <1>1, <1>2, BegunTypes DEF Carries, Savers, EnvWriters
  <2>. QED  BY <1>2, <2>1, <2>2, <2>3, PostStep
<1>. QED  BY <1>3, <1>4

LEMMA AddServiceKeepsInv ==
  ASSUME PagesInv, AddService
  PROVE  PagesInv'
<1>1. Post("addService", None, None, busy) /\ page = "overview" /\ services # Services
  BY DEF AddService
<1>2. "addService" \in Jobs \ {"callback"} /\ "addService" \notin Creators
      /\ "addService" \notin Deployers
  BY JobNames, Names DEF Creators
<1>3. Carries("addService", Begun(None, None))
  BY <1>2 DEF Carries, Savers, EnvWriters
<1>. QED  BY <1>1, <1>2, <1>3, PostStep DEF Values

LEMMA DeployStep ==
  ASSUME PagesInv, NEW j \in Deployers, NEW v \in Services \cup {None}, NEW B,
         Post(j, v, None, B), page \in Tabs
  PROVE  PagesInv'
<1>1. j \in Jobs \ {"callback"} /\ j \notin Writers /\ j # "analyze"
  BY JobNames, Names DEF Deployers, Writers, Creators, Savers, EnvWriters
<1>2. Carries(j, Begun(v, None)) /\ j \notin Creators /\ j # "addService"
  BY <1>1, JobNames DEF Carries
<1>3. page # "callback" /\ v \in Values
  BY DEF Tabs, Values
<1>. QED  BY <1>1, <1>2, <1>3, PostStep

LEMMA DeployKeepsInv ==
  ASSUME PagesInv, (\E s \in Services : RequestDeploy(s)) \/ DeployAnyway \/ DeployNow
  PROVE  PagesInv'
<1>1. ASSUME NEW s \in Services, RequestDeploy(s)  PROVE PagesInv'
  <2>1. Ask([open |-> TRUE, pending |-> s]) \/ Post(s, None, None, busy \cup {"deploy"})
    BY <1>1 DEF RequestDeploy, StartDeploy
  <2>2. page \in Tabs /\ s \in Deployers
    BY <1>1, JobNames DEF RequestDeploy, HasRepo, Shown
  <2>. QED  BY <2>1, <2>2, DialogKeepsInv, DeployStep
<1>2. CASE DeployAnyway
  <2>1. confirm.pending \in Services
    BY <1>2, Facts DEF DeployAnyway, ScreenTyped
  <2>2. Post(confirm.pending, None, None, busy \cup {"deploy"}) /\ page \in Tabs
    BY <1>2 DEF DeployAnyway, StartDeploy, Shown
  <2>. QED  BY <2>1, <2>2, JobNames, DeployStep
<1>3. CASE DeployNow
  <2>1. First(List("services")) \in Services
    BY <1>3, Facts, ListTypes, FirstMember DEF DeployNow, CanDeploy
  <2>2. Post("deployNow", First(List("services")), None, busy) /\ page \in Tabs
    BY <1>3 DEF DeployNow, CanDeploy, HasRepo, Shown
  <2>. QED  BY <2>1, <2>2, JobNames, DeployStep
<1>. QED  BY <1>1, <1>2, <1>3

LEMMA SaveKeepsInv ==
  ASSUME PagesInv, SaveSettings
  PROVE  PagesInv'
<1>1. Post("settings", form.repo, None, busy \cup {"settings"}) /\ page = "settings"
  BY DEF SaveSettings
<1>2. form.repo \in Repos \cup {NoRepo} /\ form.repo \in Values
  BY Facts DEF ScreenTyped, Values
<1>3. "settings" \in Jobs \ {"callback", "addService"} /\ "settings" \notin Creators
      /\ "settings" \notin Deployers
  BY JobNames, Names DEF Creators
<1>4. Carries("settings", Begun(form.repo, None))
  BY <1>2, BegunTypes DEF Carries, Savers, EnvWriters
<1>. QED  BY <1>1, <1>2, <1>3, <1>4, PostStep

LEMMA VariableKeepsInv ==
  ASSUME PagesInv, NEW n \in Variables, AddVar(n) \/ DeleteVar(n)
  PROVE  PagesInv'
<1>. DEFINE v == [service |-> service, name |-> n]
<1>1. PICK j \in EnvWriters : Post(j, v, service, busy \cup {j})
  BY DEF AddVar, DeleteVar, EnvWriters
<1>2. service \in Services /\ page = "env"
  BY Facts DEF AddVar, DeleteVar, ScreenTyped
<1>3. v \in Requested
  BY <1>2 DEF Requested
<1>. HIDE DEF v
<1>4. v \in Values
  BY <1>3 DEF Values
<1>5. j \in Jobs \ {"callback", "addService", "analyze"} /\ j \notin Creators
      /\ j \notin Deployers /\ j \notin Savers
  BY JobNames, Names DEF EnvWriters, Creators, Savers
<1>6. Carries(j, Begun(v, service))
  BY <1>2, <1>3, <1>4, <1>5, BegunTypes DEF Carries
<1>. QED  BY <1>1, <1>2, <1>4, <1>5, <1>6, PostStep

-----------------------------------------------------------------------------
(* Requests are answered *)

\* What a request of j writes: the keys its page invalidates, and nothing else.
LEMMA WriteValues ==
  ASSUME RowsTyped, JobsTyped, NEW j \in Jobs, job[j].at # "idle", Write(j, job[j].value),
         NEW k \in Keys, j \notin Writers \/ k \notin Written(j)
  PROVE  Value(k)' = Value(k)
<1>1. CASE j \in Creators
  <2>1. k # "projects" /\ UNCHANGED <<repo, services, env>>
    BY <1>1, JobNames DEF Write, Written, Creators, Savers, EnvWriters
  <2>. QED  BY <2>1 DEF Value
<1>2. CASE j \in Savers
  <2>1. k # "project" /\ UNCHANGED <<projects, services, env>>
    BY <1>2, JobNames DEF Write, Written, Creators, Savers, EnvWriters
  <2>. QED  BY <2>1 DEF Value
<1>3. CASE j = "addService"
  <2>1. k # "services" /\ UNCHANGED <<projects, repo, env>>
    BY <1>3, JobNames DEF Write, Written, Creators, Savers, EnvWriters
  <2>. QED  BY <2>1 DEF Value
<1>4. CASE j \in EnvWriters
  <2>1. /\ Written(j) = {job[j].value.service} /\ UNCHANGED <<projects, repo, services>>
        /\ \/ env' = [env EXCEPT ![job[j].value.service] = @ \cup {job[j].value.name}]
           \/ env' = [env EXCEPT ![job[j].value.service] = @ \ {job[j].value.name}]
    BY <1>4 DEF Write, Written, Creators, Savers, EnvWriters
  <2>2. k # job[j].value.service
    BY <1>4, <2>1, JobNames
  <2>3. k \in Services => env'[k] = env[k]
    BY <2>1, <2>2 DEF RowsTyped
  <2>. QED  BY <2>1, <2>3 DEF Value, Keys
<1>5. CASE j \notin Writers
  <2>1. UNCHANGED <<projects, repo, services, env>>
    BY <1>5 DEF Write, Writers, Creators, Savers, EnvWriters
  <2>. QED  BY <2>1 DEF Value
<1>. QED  BY <1>1, <1>2, <1>3, <1>4, <1>5 DEF Writers

LEMMA ServeKeepsInv ==
  ASSUME PagesInv, NEW j \in Jobs, Serve(j)
  PROVE  PagesInv'
<1>1. /\ RowsTyped /\ ScreenTyped /\ CacheTyped /\ JobsTyped /\ RoomLeft /\ DoubtTyped
      /\ Current /\ UntouchedFormIsCurrent /\ ListGrows /\ ProjectThere /\ FormLists /\ CallbackAlone
  BY Facts
<1>2. PICK status \in {"ok", "error"} : job' = [job EXCEPT ![j].status = status]
  BY DEF Serve, Reply
<1>. DEFINE r == [job[j] EXCEPT !.status = status]
<1>3. /\ UNCHANGED <<page, dialog, confirm, form, service, offered, query, doubt>>
      /\ job[j].at \in {"post", "install"} /\ job[j].status = "none"
      /\ Write(j, job[j].value)
  BY DEF Serve, Reply, Requesting, local, cache
<1>4. /\ r \in JobType /\ r.at = job[j].at /\ r.status = status
      /\ r.value = job[j].value /\ r.key = job[j].key
  BY <1>1, JobFacts DEF JobType, Statuses
<1>5. job' = [job EXCEPT ![j] = r]
  BY <1>2
<1>. HIDE DEF r
<1>6. \A i \in Jobs : job'[i] = IF i = j THEN r ELSE job[i]
  BY <1>1, <1>5 DEF JobsTyped
<1>7. \A i \in Jobs : job'[i].at = job[i].at
  BY <1>4, <1>6
<1>8. JobsTyped'
  <2>1. job[j].at # "idle" => Carries(j, r)
    BY <1>1, <1>4, JobFacts DEF Carries
  <2>. QED  BY <1>1, <1>4, <1>5, <2>1 DEF JobsTyped
<1>9. RowsTyped'
  <2>1. j \in Savers => job[j].value \in Repos \cup {NoRepo}
    BY <1>1, <1>3, JobFacts DEF Carries
  <2>2. j \in EnvWriters => job[j].value \in Requested
    BY <1>1, <1>3, JobFacts DEF Carries
  <2>3. j = "addService" => First(Services \ services) \in Services
    <3>1. j = "addService" => Services \ services # {}
      BY <1>1, <1>3 DEF RoomLeft, Requesting, RowsTyped
    <3>. QED  BY <3>1, FirstMember
  <2>4. projects' \subseteq {Project} /\ repo' \in Repos \cup {NoRepo} /\ services' \subseteq Services
    BY <1>1, <1>3, <2>1, <2>3 DEF RowsTyped, Write
  <2>5. env' \in [Services -> SUBSET Variables]
    <3>1. CASE j \in EnvWriters
      <4>1. job[j].value.service \in Services /\ job[j].value.name \in Variables
        BY <2>2, <3>1 DEF Requested
      <4>2. \/ env' = [env EXCEPT ![job[j].value.service] = @ \cup {job[j].value.name}]
            \/ env' = [env EXCEPT ![job[j].value.service] = @ \ {job[j].value.name}]
        BY <1>3, <3>1 DEF Write, EnvWriters
      <4>. QED  BY <1>1, <4>1, <4>2 DEF RowsTyped
    <3>2. CASE j \notin EnvWriters
      BY <1>1, <1>3, <3>2 DEF RowsTyped, Write, EnvWriters
    <3>. QED  BY <3>1, <3>2
  <2>. QED  BY <2>4, <2>5 DEF RowsTyped
<1>10. RoomLeft'
  <2>1. "addService" \in Jobs
    BY JobNames
  <2>2. j # "addService" => services' = services
    BY <1>3 DEF Write
  <2>. QED  BY <1>1, <1>4, <1>6, <2>1, <2>2 DEF RoomLeft, Requesting
<1>11. CacheStaler /\ CacheTyped' /\ ScreenTyped' /\ DoubtTyped'
  BY <1>1, <1>3, SameCache, StalerTyped, ScreenSame DEF DoubtTyped
<1>12. Current'
  <2>1. SUFFICES ASSUME NEW k \in Keys, k \notin doubt', ~Writing(k)'
                 PROVE  /\ query'[k].fresh => Data(k)' = Value(k)'
                        /\ query'[k].at = "served" => query'[k].answer = Value(k)'
    BY DEF Current
  <2>2. WritesKept
    BY <1>1, <1>3, <1>4, <1>5, OneJobWrites
  <2>3. ~Writing(k)
    BY <2>1, <2>2 DEF WritesKept
  <2>4. j \notin Writers \/ k \notin Written(j)
    <3>1. Written(j)' = Written(j)
      BY <1>4, <1>6 DEF Written
    <3>2. job'[j].at \in {"post", "install"} /\ job'[j].status # "none"
      BY <1>3, <1>4, <1>6
    <3>. QED  BY <2>1, <3>1, <3>2 DEF Writing
  <2>5. Value(k)' = Value(k)
    BY <1>1, <1>3, <2>4, WriteValues
  <2>. QED  BY <1>1, <1>3, <2>1, <2>3, <2>5 DEF Current, Data
<1>13. projects \subseteq projects' /\ (j \in Creators => Project \in projects')
  BY <1>3 DEF Write
<1>14. UntouchedFormIsCurrent' /\ ListGrows'
  BY <1>1, <1>3, <1>11, <1>13, FormKept, ListKept, CacheListStaler
<1>15. Deploying' <=> Deploying
  BY <1>7, JobNames DEF Deploying
<1>16. ProjectThere'
  <2>1. \A c \in Creators : c \in Jobs
    BY JobNames
  <2>2. ASSUME NEW c \in Creators, job'[c].at \notin {"idle", "post"} \/ job'[c].status = "ok"
        PROVE  Project \in projects'
    BY <1>1, <1>6, <1>7, <1>13, <2>1, <2>2 DEF ProjectThere
  <2>. QED  BY <1>1, <1>3, <1>7, <1>13, <1>15, <2>1, <2>2 DEF ProjectThere
<1>17. FormLists'
  <2>1. job'["form"].at = job["form"].at /\ List("projects")' = List("projects")
    BY <1>3, <1>7, JobNames DEF List, Data
  <2>. QED  BY <1>1, <1>3, <1>15, <2>1 DEF FormLists
<1>18. CallbackAlone'
  BY <1>1, <1>3, <1>7, JobNames DEF CallbackAlone
<1>. QED  BY <1>8, <1>9, <1>10, <1>11, <1>12, <1>14, <1>16, <1>17, <1>18, FactsNext

-----------------------------------------------------------------------------
(* Jobs that go on without leaving their page *)

LEMMA StayMoves ==
  ASSUME UNCHANGED page
  PROVE  PageMoves
  BY DEF PageMoves

LEMMA IdleTypes == Idle \in JobType /\ Idle.at = "idle" /\ ~Past(Idle)
<1>1. Idle \in JobType
  BY DEF Idle, JobType, Times, Waits, Statuses, Values
<1>2. Idle.at = "idle" /\ Idle.status = "none"
  BY DEF Idle
<1>. QED  BY <1>1, <1>2 DEF Past

\* A job waits for something else, with the request it had.
Waiting(j, at) == [job[j] EXCEPT !.at = at, !.status = "none"]

LEMMA AwaitTypes ==
  ASSUME JobsTyped, NEW j \in Jobs, NEW at \in Times
  PROVE  /\ Waiting(j, at) \in JobType
         /\ Waiting(j, at).at = at /\ Waiting(j, at).status = "none"
         /\ Waiting(j, at).value = job[j].value /\ Waiting(j, at).key = job[j].key
         /\ Await(j, at) = [job EXCEPT ![j] = Waiting(j, at)]
<1>1. job[j] \in JobType
  BY JobFacts
<1>2. Await(j, at) = [job EXCEPT ![j] = Waiting(j, at)]
  BY DEF Await, Waiting
<1>. QED  BY <1>1, <1>2 DEF JobType, Statuses, Waiting

\* The tab stays on its page.
LEMMA StayStep ==
  ASSUME PagesInv, UNCHANGED <<projects, repo, services, env, page, form>>, ScreenTyped',
         doubt \subseteq doubt', DoubtTyped', CacheStaler, JobsSettle, WritesKept
  PROVE  PagesInv'
  BY Facts, FormKept, StayMoves, SettlingStep

LEMMA WrittenKeys ==
  ASSUME JobsTyped, NEW j \in Writers, job[j].at # "idle"
  PROVE  Written(j) \subseteq Keys
<1>1. j \in EnvWriters => job[j].value.service \in Services
  BY JobFacts, JobNames DEF Carries, Requested
<1>. QED  BY <1>1, Names DEF Written, Writers, Creators, Savers, EnvWriters

LEMMA RefuseKeepsInv ==
  ASSUME PagesInv, NEW j \in Jobs, Refuse(j)
  PROVE  PagesInv'
<1>. DEFINE r == [job[j] EXCEPT !.status = "error"]
<1>1. /\ UNCHANGED <<projects, repo, services, env, page, dialog, confirm, form, service,
                     offered, query, doubt>>
      /\ job[j].at \in {"post", "install"} /\ job[j].status = "none"
      /\ job' = [job EXCEPT ![j] = r]
  BY DEF Refuse, Reply, Requesting, rows, local, cache
<1>2. ScreenTyped /\ CacheTyped /\ JobsTyped /\ DoubtTyped
  BY Facts
<1>3. /\ r \in JobType /\ r.at = job[j].at /\ r.status = "error"
      /\ r.value = job[j].value /\ r.key = job[j].key
  BY <1>2, JobFacts DEF JobType, Statuses
<1>. HIDE DEF r
<1>4. Carries(j, r)
  BY <1>1, <1>2, <1>3, JobFacts DEF Carries
<1>5. JobsSettle
  <2>1. Past(r) => Past(job[j])
    BY <1>3 DEF Past
  <2>. QED  BY <1>1, <1>2, <1>3, <1>4, <2>1, OneJobSettles
<1>6. WritesKept
  BY <1>1, <1>2, <1>3, OneJobWrites
<1>7. CacheStaler /\ ScreenTyped' /\ DoubtTyped'
  BY <1>1, <1>2, SameCache, ScreenSame DEF DoubtTyped
<1>. QED  BY <1>1, <1>5, <1>6, <1>7, StayStep

LEMMA InstallKeepsInv ==
  ASSUME PagesInv, InstallNext
  PROVE  PagesInv'
<1>. DEFINE r == Waiting("connect", "install")
<1>1. /\ UNCHANGED <<projects, repo, services, env, page, dialog, confirm, form, service,
                     offered, query, doubt>>
      /\ job["connect"].at = "post" /\ job["connect"].status = "ok"
      /\ job' = Await("connect", "install")
  BY DEF InstallNext, Answered, Stay, rows, local, cache
<1>2. ScreenTyped /\ CacheTyped /\ JobsTyped /\ DoubtTyped /\ "connect" \in Jobs
  BY Facts, JobNames
<1>3. /\ r \in JobType /\ r.at = "install" /\ r.status = "none"
      /\ r.value = job["connect"].value /\ r.key = job["connect"].key
      /\ job' = [job EXCEPT !["connect"] = r]
  BY <1>1, <1>2, AwaitTypes DEF Times, Waits
<1>. HIDE DEF r
<1>4. Carries("connect", r)
  BY <1>1, <1>2, <1>3, JobFacts DEF Carries, Creators, EnvWriters
<1>5. JobsSettle
  BY <1>1, <1>2, <1>3, <1>4, OneJobSettles DEF Past
<1>6. WritesKept
  BY <1>2, <1>3, OneJobWrites
<1>7. CacheStaler /\ ScreenTyped' /\ DoubtTyped'
  BY <1>1, <1>2, SameCache, ScreenSame DEF DoubtTyped
<1>. QED  BY <1>1, <1>5, <1>6, <1>7, StayStep

\* A job ends: it had no write to handle, or leaves it in doubt.
LEMMA EndSettles ==
  ASSUME JobsTyped, NEW j \in Jobs, job' = End(j)
  PROVE  JobsSettle
<1>1. job' = [job EXCEPT ![j] = Idle]
  BY DEF End
<1>. HIDE DEF Idle
<1>. QED  BY <1>1, IdleTypes, OneJobSettles

LEMMA EndWrites ==
  ASSUME JobsTyped, NEW j \in Jobs, job' = End(j),
         j \notin Writers \/ ~Handling(j) \/ Written(j) \subseteq doubt'
  PROVE  WritesKept
<1>1. job' = [job EXCEPT ![j] = Idle]
  BY DEF End
<1>. QED  BY <1>1, OneJobWrites

LEMMA WriteFailedKeepsInv ==
  ASSUME PagesInv, NEW j \in Writers, WriteFailed(j)
  PROVE  PagesInv'
<1>1. /\ UNCHANGED <<projects, repo, services, env, page, dialog, confirm, form, service,
                     offered, query>>
      /\ doubt' = doubt \cup Written(j) /\ job' = End(j) /\ job[j].at # "idle"
  BY DEF WriteFailed, Answered, Stay, rows, local, cache
<1>2. ScreenTyped /\ CacheTyped /\ JobsTyped /\ DoubtTyped /\ j \in Jobs
  BY Facts, JobNames
<1>3. JobsSettle /\ WritesKept
  BY <1>1, <1>2, EndSettles, EndWrites
<1>4. CacheStaler /\ ScreenTyped'
  BY <1>1, <1>2, SameCache, ScreenSame
<1>5. DoubtTyped'
  BY <1>1, <1>2, WrittenKeys DEF DoubtTyped
<1>. QED  BY <1>1, <1>3, <1>4, <1>5, StayStep

\* One key after the other is invalidated.
LEMMA AwaitsKey ==
  ASSUME JobsTyped, NEW j \in Jobs, NEW k \in Keys, job[j].at = k
  PROVE  ~Handling(j) /\ job[j].at # "idle" /\ Past(job[j])
  BY Names DEF Handling, Past, Waits

LEMMA InvalidateStaler ==
  ASSUME CacheTyped, NEW k \in Keys, query' = InvalidateKey(k)
  PROVE  CacheStaler
<1>1. \A w : Staler(query[k], Invalidate(query[k], w), Kind(k))
  BY CacheSteps DEF CacheTyped
<1>. QED  BY <1>1, OneKeyStaler DEF InvalidateKey

LEMMA InvalidateKeepsInv ==
  ASSUME PagesInv, NEW j \in Writers, InvalidateNext(j)
  PROVE  PagesInv'
<1>1. PICK k \in {"services", "project"} : Awaited(j, k) /\ Stay(Await(j, NextKey(k)), busy)
                                          /\ query' = InvalidateKey(NextKey(k))
  BY DEF InvalidateNext
<1>2. UNCHANGED <<projects, repo, services, env, page, dialog, confirm, form, service,
                  offered, doubt>>
  BY DEF InvalidateNext, Stay, rows, local
<1>3. ScreenTyped /\ CacheTyped /\ JobsTyped /\ DoubtTyped /\ j \in Jobs
  BY Facts, JobNames
<1>4. NextKey(k) \in {"projects", "project"} /\ NextKey(k) \in Keys /\ k \in Keys
  BY Names DEF NextKey
<1>. DEFINE at == NextKey(k)
            r == Waiting(j, at)
<1>5. /\ r \in JobType /\ r.at = at /\ r.status = "none"
      /\ r.value = job[j].value /\ r.key = job[j].key
      /\ job' = [job EXCEPT ![j] = r]
  BY <1>1, <1>3, <1>4, AwaitTypes DEF Times, Stay
<1>. HIDE DEF r, at
<1>6. ~Handling(j) /\ job[j].at # "idle" /\ Past(job[j]) /\ job[j].at = k
  BY <1>1, <1>3, <1>4, AwaitsKey DEF Awaited
<1>7. Carries(j, r)
  <2>1. Carries(j, job[j]) /\ j \notin Creators
    BY <1>3, <1>6, JobFacts DEF Carries
  <2>. QED  BY <1>5, <2>1, JobNames, Names DEF Carries
<1>8. JobsSettle
  BY <1>3, <1>4, <1>5, <1>6, <1>7, OneJobSettles DEF at
<1>9. WritesKept
  BY <1>3, <1>5, <1>6, OneJobWrites
<1>10. CacheStaler
  BY <1>1, <1>3, <1>4, InvalidateStaler
<1>11. ScreenTyped' /\ DoubtTyped'
  BY <1>2, <1>3, ScreenSame DEF DoubtTyped
<1>. QED  BY <1>2, <1>8, <1>9, <1>10, <1>11, StayStep

LEMMA WriteDoneKeepsInv ==
  ASSUME PagesInv, NEW j \in Writers, WriteDone(j)
  PROVE  PagesInv'
<1>1. /\ UNCHANGED <<projects, repo, services, env, page, confirm, form, service, query, doubt>>
      /\ job' = End(j) /\ offered' \in {offered, {}} /\ dialog' \in {dialog, Closed}
  BY DEF WriteDone, rows, cache
<1>2. ScreenTyped /\ CacheTyped /\ JobsTyped /\ DoubtTyped /\ j \in Jobs
  BY Facts, JobNames
<1>3. ~Handling(j)
  <2>1. PICK k \in Keys : Awaited(j, k)
    BY DEF WriteDone, LastKey
  <2>. QED  BY <1>2, <2>1, AwaitsKey DEF Awaited
<1>4. JobsSettle /\ WritesKept
  BY <1>1, <1>2, <1>3, EndSettles, EndWrites
<1>5. CacheStaler /\ DoubtTyped'
  BY <1>1, <1>2, SameCache DEF DoubtTyped
<1>6. ScreenTyped'
  <2>1. Closed \in Dialogs
    BY LocalTypes
  <2>2. dialog' \in Dialogs
    BY <1>1, <1>2, <2>1 DEF ScreenTyped, Dialogs
  <2>. QED  BY <1>1, <1>2, <2>2 DEF ScreenTyped, Dialogs
<1>. QED  BY <1>1, <1>4, <1>5, <1>6, StayStep

LEMMA AnalyzedKeepsInv ==
  ASSUME PagesInv, Analyzed
  PROVE  PagesInv'
<1>1. /\ UNCHANGED <<projects, repo, services, env, page, confirm, form, service, offered,
                     query, doubt>>
      /\ job' = End("analyze") /\ job["analyze"].at # "idle"
      /\ \/ dialog' = dialog
         \/ \E a \in {job["analyze"].value, None} : dialog' = [dialog EXCEPT !.analysis = a]
  BY DEF Analyzed, Answered, rows, cache
<1>2. ScreenTyped /\ CacheTyped /\ JobsTyped /\ DoubtTyped
      /\ "analyze" \in Jobs /\ "analyze" \notin Writers
  BY Facts, JobNames, Names DEF Writers, Creators, Savers, EnvWriters
<1>3. JobsSettle /\ WritesKept
  BY <1>1, <1>2, EndSettles, EndWrites
<1>4. CacheStaler /\ DoubtTyped'
  BY <1>1, <1>2, SameCache DEF DoubtTyped
<1>5. job["analyze"].value \in Repos
  BY <1>1, <1>2, JobFacts DEF Carries
<1>6. ScreenTyped'
  BY <1>1, <1>2, <1>5 DEF ScreenTyped
<1>. QED  BY <1>1, <1>3, <1>4, <1>6, StayStep

\* A job whose service is chosen anew: only the key it will invalidate changes.
LEMMA ValuesKept ==
  ASSUME JobsTyped,
         \A j \in Writers : Handling(j) => /\ job'[j].at = job[j].at
                                           /\ job'[j].status = job[j].status
                                           /\ job'[j].value = job[j].value
  PROVE  WritesKept
<1>1. SUFFICES ASSUME NEW k \in Keys \ doubt', Writing(k)  PROVE Writing(k)'
  BY DEF WritesKept
<1>2. PICK i \in Writers : Handling(i) /\ k \in Written(i)
  BY <1>1 DEF Writing, Handling
<1>3. Written(i)' = Written(i)
  BY <1>2 DEF Written
<1>. QED  BY <1>2, <1>3 DEF Writing, Handling

LEMMA ChooseKeepsInv ==
  ASSUME PagesInv, NEW s \in Services, Choose(s)
  PROVE  PagesInv'
<1>1. /\ UNCHANGED <<projects, repo, services, env, page, dialog, confirm, form, offered, doubt>>
      /\ service' = s
      /\ job' = [j \in Jobs |-> IF j \in EnvWriters /\ job[j].at = "post" /\ job[j].live
                                THEN [job[j] EXCEPT !.key = s] ELSE job[j]]
      /\ query' = [query EXCEPT ![s] = Refresh(@, FALSE)]
  BY DEF Choose, rows
<1>2. ScreenTyped /\ CacheTyped /\ JobsTyped /\ DoubtTyped /\ s \in Keys
  BY Facts, Names
<1>3. ASSUME NEW j \in Jobs
      PROVE  /\ job'[j] \in JobType /\ job'[j].at = job[j].at /\ job'[j].status = job[j].status
             /\ job'[j].value = job[j].value
             /\ job'[j].key \in {job[j].key, s}
  BY <1>1, <1>2, JobFacts DEF JobType
<1>4. JobsTyped'
  <2>1. job' \in [Jobs -> JobType]
    BY <1>1, <1>3
  <2>2. ASSUME NEW j \in Jobs, job'[j].at # "idle"  PROVE Carries(j, job'[j])
    BY <1>2, <1>3, <2>2, JobFacts DEF Carries
  <2>. QED  BY <2>1, <2>2 DEF JobsTyped
<1>5. JobsSettle
  <2>1. "form" \in Jobs /\ "addService" \in Jobs
    BY JobNames
  <2>. QED  BY <1>3, <1>4, <2>1 DEF JobsSettle, Past, Requesting
<1>6. WritesKept
  BY <1>2, <1>3, ValuesKept, JobNames
<1>7. CacheStaler
  <2>1. Staler(query[s], Refresh(query[s], FALSE), Kind(s))
    BY <1>2, CacheSteps DEF CacheTyped
  <2>. QED  BY <1>1, <1>2, <2>1, OneKeyStaler
<1>8. ScreenTyped' /\ DoubtTyped'
  BY <1>1, <1>2 DEF ScreenTyped, DoubtTyped
<1>. QED  BY <1>1, <1>5, <1>6, <1>7, <1>8, StayStep

\* The service the page of variables shows.
LEMMA ServiceKeepsInv ==
  ASSUME PagesInv, FirstService \/ \E s \in Services : SelectService(s)
  PROVE  PagesInv'
<1>1. List("services") \subseteq Services
  BY Facts, ListTypes
<1>2. FirstService => First(List("services")) \in Services
  BY <1>1, FirstMember DEF FirstService
<1>. QED  BY <1>2, ChooseKeepsInv DEF FirstService, SelectService

-----------------------------------------------------------------------------
(* Navigation *)

\* The jobs of a page that is left go on without it.
Leaves(J) ==
  \/ job' = J
  \/ \E S : job' = [j \in Jobs |-> IF j \in S \/ J[j] = Idle THEN J[j]
                                   ELSE [J[j] EXCEPT !.live = FALSE]]

LEMMA GoToJobs ==
  ASSUME JobsTyped, NEW J, Leaves(J), J = job \/ \E j \in Jobs : J = End(j)
  PROVE  /\ job' \in [Jobs -> JobType] /\ J \in [Jobs -> JobType]
         /\ \A j \in Jobs : /\ job'[j].at = J[j].at /\ job'[j].status = J[j].status
                            /\ job'[j].value = J[j].value /\ job'[j].key = J[j].key
<1>1. J \in [Jobs -> JobType]
  BY IdleTypes DEF JobsTyped, End
<1>2. ASSUME NEW j \in Jobs
      PROVE  job'[j] = J[j] \/ job'[j] = [J[j] EXCEPT !.live = FALSE]
  BY DEF Leaves
<1>3. job' = [j \in Jobs |-> job'[j]]
  BY <1>1 DEF Leaves
<1>4. ASSUME NEW j \in Jobs
      PROVE  /\ job'[j] \in JobType
             /\ job'[j].at = J[j].at /\ job'[j].status = J[j].status
             /\ job'[j].value = J[j].value /\ job'[j].key = J[j].key
  <2>. DEFINE r == J[j]
  <2>1. r \in JobType
    BY <1>1
  <2>2. job'[j] = r \/ job'[j] = [r EXCEPT !.live = FALSE]
    BY <1>2
  <2>. HIDE DEF r
  <2>3. [r EXCEPT !.live = FALSE] \in JobType
    BY <2>1 DEF JobType
  <2>4. /\ job'[j] \in JobType /\ job'[j].at = r.at /\ job'[j].status = r.status
        /\ job'[j].value = r.value /\ job'[j].key = r.key
    BY <2>1, <2>2, <2>3 DEF JobType
  <2>. QED  BY <2>4 DEF r
<1>. QED  BY <1>1, <1>3, <1>4

LEMMA GoToStep ==
  ASSUME PagesInv, NEW p \in Pages \ {"callback"}, NEW c, NEW J, NEW B, NEW Q,
         GoTo(p, c, J, B, Q, dialog), UNCHANGED <<projects, repo, services, env, offered, doubt>>,
         \A k \in Keys : Staler(query[k], Q[k], Kind(k)),
         \/ J = job
         \/ \E j \in Jobs : J = End(j) /\ (j \notin Writers \/ ~Handling(j)),
         job["callback"].at = "idle",
         p # "projects" =>
           \/ page # "projects" \/ Deploying \/ Project \in List("projects")
           \/ Project \in projects /\ J["form"].at = "idle"
  PROVE  PagesInv'
<1>1. ScreenTyped /\ CacheTyped /\ JobsTyped /\ DoubtTyped /\ UntouchedFormIsCurrent
  BY Facts
<1>2. /\ job' \in [Jobs -> JobType] /\ J \in [Jobs -> JobType]
      /\ \A j \in Jobs : /\ job'[j].at = J[j].at /\ job'[j].status = J[j].status
                         /\ job'[j].value = J[j].value /\ job'[j].key = J[j].key
  <2>1. Leaves(J)
    BY DEF GoTo, Leaves
  <2>. QED  BY <1>1, <2>1, GoToJobs
<1>3. ASSUME NEW j \in Jobs
      PROVE  J[j] = job[j] \/ (J[j] = Idle /\ (j \notin Writers \/ ~Handling(j)))
  <2>1. CASE J = job
    BY <2>1
  <2>2. ASSUME NEW i \in Jobs, J = End(i), i \notin Writers \/ ~Handling(i)
        PROVE  J[j] = job[j] \/ (J[j] = Idle /\ (j \notin Writers \/ ~Handling(j)))
    BY <1>1, <2>2 DEF JobsTyped, End
  <2>. QED  BY <2>1, <2>2
<1>4. ASSUME NEW j \in Jobs
      PROVE  \/ /\ job'[j].at = job[j].at /\ job'[j].status = job[j].status
                /\ job'[j].value = job[j].value /\ job'[j].key = job[j].key
             \/ /\ job'[j].at = "idle" /\ job'[j].status = "none"
                /\ j \notin Writers \/ ~Handling(j)
  <2>1. Idle.at = "idle" /\ Idle.status = "none"
    BY DEF Idle
  <2>. QED  BY <1>2, <1>3, <2>1
<1>5. "form" \in Jobs /\ "addService" \in Jobs /\ "callback" \in Jobs
  BY JobNames
<1>6. JobsTyped'
  <2>1. ASSUME NEW j \in Jobs, job'[j].at # "idle"  PROVE Carries(j, job'[j])
    <3>1. Carries(j, job[j])
      BY <1>1, <1>4, <2>1, JobFacts
    <3>. QED  BY <1>4, <2>1, <3>1 DEF Carries
  <2>. QED  BY <1>2, <2>1 DEF JobsTyped
<1>7. JobsSettle
  <2>1. \A j \in Jobs : /\ job'[j].at # "idle" => job[j].at # "idle"
                        /\ Past(job'[j]) => Past(job[j])
    BY <1>4 DEF Past
  <2>2. Requesting("addService")' => Requesting("addService")
    BY <1>4, <1>5 DEF Requesting
  <2>3. job'["form"].at = "relist" => job["form"].at = "relist"
    BY <1>4, <1>5
  <2>. QED  BY <1>6, <2>1, <2>2, <2>3 DEF JobsSettle
<1>8. WritesKept
  <2>1. ASSUME NEW j \in Writers, Handling(j)
        PROVE  /\ job'[j].at = job[j].at /\ job'[j].status = job[j].status
               /\ job'[j].value = job[j].value
    BY <1>4, <2>1, JobNames
  <2>. QED  BY <1>1, <2>1, ValuesKept
<1>9. CacheStaler
  <2>1. PICK K : Mount(Q, K)
    BY DEF GoTo
  <2>. QED  BY <1>1, <2>1, MountStaler
<1>10. page' = p
  BY DEF GoTo
<1>11. Q["project"].data = Data("project") /\ Data("project")' = Data("project")
  BY <1>9, StalerData, Names DEF Staler, Data
<1>12. form' = form \/ \E d \in {Data("project"), None} : form' = FormOf(d)
  BY <1>11 DEF GoTo
<1>13. ScreenTyped'
  <2>1. dialog' \in Dialogs
    <3>1. OpenDialog \in Dialogs /\ Closed \in Dialogs
      BY <1>1, LocalTypes DEF ScreenTyped
    <3>2. dialog' \in {Closed, dialog, OpenDialog}
      BY DEF GoTo
    <3>. QED  BY <1>1, <3>1, <3>2 DEF ScreenTyped, Dialogs
  <2>2. form' \in Forms
    <3>1. Data("project") \in Repos \cup {NoRepo, None}
      BY <1>1, ListTypes
    <3>. QED  BY <1>1, <1>12, <3>1, LocalTypes DEF ScreenTyped, Forms
  <2>3. confirm' \in {confirm, Unasked} /\ service' \in {service, None}
    BY DEF GoTo
  <2>. QED  BY <1>1, <1>10, <2>1, <2>2, <2>3, LocalTypes DEF ScreenTyped, Dialogs, Forms
<1>14. UntouchedFormIsCurrent'
  <2>1. CASE page = p
    <3>1. form' = form
      BY <2>1 DEF GoTo
    <3>. QED  BY <1>1, <1>9, <1>10, <2>1, <3>1, FormKept
  <2>2. CASE page # p /\ p = "settings"
    <3>1. form' = FormOf(Data("project"))
      BY <1>11, <2>2 DEF GoTo
    <3>. QED  BY <1>11, <3>1 DEF UntouchedFormIsCurrent, Shown, FormOf
  <2>3. CASE p # "settings"
    BY <1>10, <2>3 DEF UntouchedFormIsCurrent
  <2>. QED  BY <2>1, <2>2, <2>3
<1>15. PageMoves
  <2>1. job'["callback"].at = "idle"
    BY <1>4, <1>5
  <2>2. J["form"].at = "idle" => job'["form"].at = "idle"
    BY <1>2, <1>5
  <2>. QED  BY <1>10, <2>1, <2>2 DEF PageMoves
<1>16. DoubtTyped'
  BY <1>1 DEF DoubtTyped
<1>. QED  BY <1>7, <1>8, <1>9, <1>13, <1>14, <1>15, <1>16, SettlingStep

\* The cache as it is.
LEMMA CacheSame ==
  ASSUME CacheTyped
  PROVE  \A k \in Keys : Staler(query[k], query[k], Kind(k))
  BY CacheSteps DEF CacheTyped

LEMMA VisitKeepsInv ==
  ASSUME PagesInv, NEW p \in Pages, Visit(p)
  PROVE  PagesInv'
<1>1. /\ GoTo(p, FALSE, job, busy, query, dialog)
      /\ UNCHANGED <<projects, repo, services, env, offered, doubt>>
  BY DEF Visit, rows
<1>2. page \in Tabs \cup {"projects", "dashboard"} /\ p \in Tabs \cup {"projects"}
  BY DEF Visit, CardShown, Shown, Tabs
<1>3. p # "callback" /\ job["callback"].at = "idle"
  BY <1>2, Facts DEF CallbackAlone, Tabs
<1>4. p # "projects" => page # "projects" \/ Project \in List("projects")
  BY DEF Visit, CardShown, Shown, Tabs
<1>. QED  BY <1>1, <1>3, <1>4, Facts, CacheSame, GoToStep

LEMMA GuardKeepsInv ==
  ASSUME PagesInv, AccessGuard
  PROVE  PagesInv'
<1>1. /\ GoTo("projects", FALSE, job, busy, query, dialog) /\ page \in Tabs
      /\ UNCHANGED <<projects, repo, services, env, offered, doubt>>
  BY DEF AccessGuard, rows
<1>2. job["callback"].at = "idle"
  BY <1>1, Facts DEF CallbackAlone, Tabs
<1>3. "projects" \in Pages \ {"callback"}
  BY DEF Pages
<1>. QED  BY <1>1, <1>2, <1>3, Facts, CacheSame, GoToStep

LEMMA OpenedKeepsInv ==
  ASSUME PagesInv, CreateOpened
  PROVE  PagesInv'
<1>1. /\ GoTo("overview", TRUE, End("form"), Unset("form", {"form"}), query, dialog)
      /\ UNCHANGED <<projects, repo, services, env, offered, doubt>>
      /\ job["form"].at = "relist"
  BY DEF CreateOpened, rows
<1>2. "form" \in Jobs /\ "form" \in Creators /\ job["form"].at # "idle"
  BY <1>1, JobNames
<1>3. job["callback"].at = "idle"
  BY <1>2, Facts DEF CallbackAlone
<1>4. Project \in projects
  BY <1>1, <1>2, Facts DEF ProjectThere
<1>5. End("form")["form"].at = "idle"
  BY <1>2, IdleTypes, Facts DEF End, JobsTyped
<1>6. ~Handling("form")
  BY <1>1 DEF Handling
<1>7. "overview" \in Pages \ {"callback"}
  BY DEF Pages, Tabs
<1>. QED  BY <1>1, <1>2, <1>3, <1>4, <1>5, <1>6, <1>7, Facts, CacheSame, GoToStep

LEMMA DeployAnsweredKeepsInv ==
  ASSUME PagesInv, NEW j \in Deployers, DeployAnswered(j)
  PROVE  PagesInv'
<1>1. UNCHANGED <<projects, repo, services, env, offered, doubt>> /\ job[j].at = "post"
  BY DEF DeployAnswered, Answered, rows
<1>2. j \in Jobs /\ j \notin Writers /\ j # "callback"
  BY JobNames, Names DEF Deployers
<1>3. ScreenTyped /\ CacheTyped /\ JobsTyped /\ DoubtTyped /\ CallbackAlone
  BY Facts
<1>4. CASE GoTo("deployments", FALSE, End(j), Unset(j, {"deploy"}), query, dialog)
  <2>1. job["callback"].at = "idle" /\ Deploying
    BY <1>1, <1>2, <1>3 DEF CallbackAlone, Deploying
  <2>2. "deployments" \in Pages \ {"callback"}
    BY DEF Pages, Tabs
  <2>. QED  BY <1>1, <1>2, <1>3, <1>4, <2>1, <2>2, CacheSame, GoToStep
<1>5. CASE /\ job' = End(j) /\ UNCHANGED <<page, dialog, form, service, query>>
           /\ confirm' \in {confirm, Unasked}
  <2>1. JobsSettle /\ WritesKept
    BY <1>2, <1>3, <1>5, EndSettles, EndWrites
  <2>2. CacheStaler /\ DoubtTyped'
    BY <1>1, <1>3, <1>5, SameCache DEF DoubtTyped
  <2>3. ScreenTyped'
    BY <1>1, <1>3, <1>5, LocalTypes DEF ScreenTyped
  <2>. QED  BY <1>1, <1>5, <2>1, <2>2, <2>3, StayStep
<1>. QED  BY <1>4, <1>5 DEF DeployAnswered, cache

LEMMA CallbackKeepsInv ==
  ASSUME PagesInv, CallbackAnswered
  PROVE  PagesInv'
<1>1. /\ UNCHANGED <<projects, repo, services, env, confirm, form, service, doubt>>
      /\ job' = End("callback") /\ job["callback"].at = "post"
  BY DEF CallbackAnswered, Answered, rows
<1>2. "callback" \in Jobs /\ "callback" \notin Writers
  BY JobNames, Names DEF Writers, Creators, Savers, EnvWriters
<1>3. ScreenTyped /\ CacheTyped /\ JobsTyped /\ DoubtTyped /\ page = "callback"
  BY <1>1, Facts DEF CallbackAlone
<1>4. JobsSettle /\ WritesKept
  BY <1>1, <1>2, <1>3, EndSettles, EndWrites
<1>5. job'["callback"].at = "idle"
  BY <1>1, <1>2, <1>3, IdleTypes DEF End, JobsTyped
<1>6. page' \in {"overview", "dashboard"}
  BY DEF CallbackAnswered
<1>7. CacheStaler
  <2>1. CASE \E K : Mount(query, K)
    BY <1>3, <2>1, CacheSame, MountStaler
  <2>2. CASE UNCHANGED query
    BY <1>3, <2>2, SameCache
  <2>. QED  BY <2>1, <2>2 DEF CallbackAnswered
<1>8. offered' \subseteq Repos /\ dialog' \in Dialogs
  <2>1. CASE UNCHANGED <<offered, dialog>>
    BY <1>3, <2>1 DEF ScreenTyped, Dialogs
  <2>2. CASE /\ offered' \in SUBSET Repos
             /\ dialog' = [OpenDialog EXCEPT !.list = offered',
                  !.repo = IF Cardinality(offered') = 1 THEN First(offered') ELSE NoRepo]
    <3>1. OpenDialog \in Dialogs
      BY <1>3, LocalTypes DEF ScreenTyped
    <3>2. (IF Cardinality(offered') = 1 THEN First(offered') ELSE NoRepo) \in Repos \cup {NoRepo}
      BY <2>2, OneIsSome
    <3>. QED  BY <2>2, <3>1, <3>2 DEF Dialogs
  <2>. QED  BY <2>1, <2>2 DEF CallbackAnswered
<1>9. ScreenTyped'
  <2>1. page' \in Pages
    BY <1>6 DEF Pages, Tabs
  <2>. QED  BY <1>1, <1>3, <1>8, <2>1 DEF ScreenTyped, Dialogs
<1>10. UntouchedFormIsCurrent' /\ PageMoves /\ DoubtTyped'
  BY <1>1, <1>3, <1>5, <1>6 DEF UntouchedFormIsCurrent, PageMoves, DoubtTyped
<1>. QED  BY <1>1, <1>4, <1>7, <1>9, <1>10, SettlingStep

\* The list is refetched by who created a project: the form waits for it, the
\* invitation goes on.
LEMMA RefetchStaler ==
  ASSUME CacheTyped, NEW k \in Keys
  PROVE  LET Q == [query EXCEPT ![k] = Refetch(@)] IN
         /\ \A i \in Keys : Staler(query[i], Q[i], Kind(i))
         /\ ~Fetching(query[k]) => Q[k].at = "sent"
<1>1. \A i \in Keys : Staler(query[i], query[i], Kind(i)) /\ Staler(query[i], Refetch(query[i]), Kind(i))
  BY CacheSteps DEF CacheTyped
<1>2. ASSUME ~Fetching(query[k])  PROVE Refetch(query[k]).at = "sent"
  BY <1>2 DEF CacheTyped, Refetch, Fetch, QueryOf
<1>. QED  BY <1>1, <1>2 DEF CacheTyped

LEMMA ListedKeepsInv ==
  ASSUME PagesInv, NEW j \in Creators, CreateListed(j)
  PROVE  PagesInv'
<1>. DEFINE Q == [query EXCEPT !["projects"] = Refetch(@)]
<1>1. UNCHANGED <<projects, repo, services, env, offered, doubt>>
  BY DEF CreateListed, rows
<1>2. ScreenTyped /\ CacheTyped /\ JobsTyped /\ DoubtTyped /\ j \in Jobs /\ "projects" \in Keys
  BY Facts, JobNames, Names
<1>3. ~Handling(j) /\ job[j].at = "projects" /\ Past(job[j]) /\ ~Fetching(query["projects"])
  <2>1. PICK k \in Keys : Awaited(j, k)
    BY DEF CreateListed, LastKey
  <2>2. ~Handling(j) /\ job[j].at # "idle" /\ Past(job[j])
    BY <1>2, <2>1, AwaitsKey DEF Awaited
  <2>3. k = "projects"
    BY <1>2, <2>1, <2>2, JobFacts, Names DEF Awaited, Carries, Waits
  <2>. QED  BY <2>1, <2>2, <2>3 DEF Awaited
<1>4. ASSUME UNCHANGED <<page, local>>  PROVE ScreenTyped'
  BY <1>1, <1>2, <1>4, ScreenSame DEF local
<1>5. DoubtTyped'
  BY <1>1, <1>2 DEF DoubtTyped
<1>6. \A i \in Keys : Staler(query[i], Q[i], Kind(i))
  BY <1>2, RefetchStaler
<1>7. Q["projects"].at = "sent"
  BY <1>2, <1>3, RefetchStaler
<1>8. ASSUME Stay(End(j), busy), UNCHANGED query  PROVE PagesInv'
  <2>1. UNCHANGED <<page, form>> /\ job' = End(j) /\ ScreenTyped'
    BY <1>4, <1>8 DEF Stay, local
  <2>2. JobsSettle /\ WritesKept
    BY <1>2, <1>3, <2>1, EndSettles, EndWrites
  <2>3. CacheStaler
    BY <1>2, <1>8, SameCache
  <2>. QED  BY <1>1, <1>5, <2>1, <2>2, <2>3, StayStep
<1>9. ASSUME j = "form", Stay(Await(j, "relist"), busy), query' = Q  PROVE PagesInv'
  <2>. DEFINE r == Waiting(j, "relist")
  <2>1. UNCHANGED <<page, form>> /\ job' = Await(j, "relist") /\ ScreenTyped'
    BY <1>4, <1>9 DEF Stay, local
  <2>2. /\ r \in JobType /\ r.at = "relist" /\ r.status = "none"
        /\ r.value = job[j].value /\ r.key = job[j].key
        /\ job' = [job EXCEPT ![j] = r]
    BY <1>2, <2>1, AwaitTypes DEF Times, Waits
  <2>. HIDE DEF r
  <2>3. Carries(j, r)
    BY <1>9, <2>2 DEF Carries, Savers, EnvWriters
  <2>4. query'["projects"].at = "sent"
    BY <1>7, <1>9
  <2>5. JobsSettle
    BY <1>2, <1>3, <2>2, <2>3, <2>4, OneJobSettles
  <2>6. WritesKept
    BY <1>2, <1>3, <2>2, OneJobWrites
  <2>7. CacheStaler
    BY <1>2, <1>6, <1>9 DEF CacheStaler, CacheTyped
  <2>. QED  BY <1>1, <1>5, <2>1, <2>5, <2>6, <2>7, StayStep
<1>10. ASSUME GoTo("overview", TRUE, End(j), Unset(j, {j}), Q, dialog), j = "cta"
       PROVE  PagesInv'
  <2>1. "form" \in Creators /\ "form" \in Jobs /\ "cta" \in Creators
    BY JobNames
  <2>2. job["callback"].at = "idle"
    BY <1>2, <1>3, <1>10, Facts DEF CallbackAlone
  <2>3. Project \in projects /\ job["form"].at = "idle"
    BY <1>3, <1>10, <2>1, Facts DEF ProjectThere
  <2>4. End(j)["form"].at = "idle"
    BY <1>2, <1>10, <2>1, <2>3 DEF End, JobsTyped
  <2>5. "overview" \in Pages \ {"callback"}
    BY DEF Pages, Tabs
  <2>6. \E i \in Jobs : End(j) = End(i) /\ (i \notin Writers \/ ~Handling(i))
    BY <1>2, <1>3
  <2>. QED  BY <1>1, <1>6, <1>10, <2>2, <2>3, <2>4, <2>5, <2>6, GoToStep
<1>. QED  BY <1>8, <1>9, <1>10 DEF CreateListed, cache

\* The answer of a write: its key is invalidated, or the write is in doubt.
LEMMA AnsweredKeys ==
  ASSUME JobsTyped, NEW j \in Writers, job[j].at # "idle"
  PROVE  /\ FirstKey(j) \in Keys
         /\ j \in Creators => FirstKey(j) = "projects" /\ Written(j) = {"projects"}
         /\ j \notin EnvWriters => Written(j) = {FirstKey(j)}
         /\ j \in EnvWriters => FirstKey(j) = job[j].key /\ job[j].key \in Services
<1>1. j \in EnvWriters => job[j].key \in Services
  BY JobFacts, JobNames DEF Carries
<1>. QED  BY <1>1, Names DEF FirstKey, Written, Writers, Creators, Savers, EnvWriters

LEMMA AnsweredKeepsInv ==
  ASSUME PagesInv, NEW j \in Writers, WriteAnswered(j)
  PROVE  PagesInv'
<1>. DEFINE k == FirstKey(j)
            Q == InvalidateKey(k)
            opened == j \in {"form", "cta"}
<1>1. /\ UNCHANGED <<projects, repo, services, env, page, dialog, confirm, service, offered>>
      /\ job[j].at \in {"post", "install"} /\ job[j].status = "ok" /\ job' = Await(j, k)
      /\ form' = IF opened /\ page = "settings" THEN FormOf(NoRepo) ELSE form
      /\ doubt' = doubt \cup Doubted(j)
      /\ query' = CASE j = "demo" -> [query EXCEPT ![k] = Refetch(@)]
                    [] opened -> [Q EXCEPT !["project"] = WithData(@, NoRepo)]
                    [] OTHER -> Q
  BY DEF WriteAnswered, Answered, rows
<1>2. /\ RowsTyped /\ ScreenTyped /\ CacheTyped /\ JobsTyped /\ RoomLeft /\ DoubtTyped
      /\ Current /\ UntouchedFormIsCurrent /\ ListGrows /\ ProjectThere /\ FormLists /\ CallbackAlone
  BY Facts
<1>3. j \in Jobs /\ "project" \in Keys /\ "projects" \in Keys
  BY JobNames, Names
<1>4. /\ k \in Keys /\ Written(j) \subseteq Keys
      /\ opened => k = "projects" /\ j # "demo"
      /\ j \notin EnvWriters => Written(j) = {k}
      /\ j \in EnvWriters => k = job[j].key
  BY <1>1, <1>2, AnsweredKeys, WrittenKeys DEF Creators
\* The jobs.
<1>5. JobsSettle
  <2>. DEFINE r == Waiting(j, k)
  <2>1. /\ r \in JobType /\ r.at = k /\ r.status = "none"
        /\ r.value = job[j].value /\ r.key = job[j].key
        /\ job' = [job EXCEPT ![j] = r]
    BY <1>1, <1>2, <1>3, <1>4, AwaitTypes DEF Times
  <2>. HIDE DEF r
  <2>2. k \notin Waits
    BY <1>4, Names
  <2>3. Carries(j, r)
    <3>1. Carries(j, job[j])
      BY <1>1, <1>2, <1>3, JobFacts
    <3>2. j \in Creators => k = "projects"
      BY <1>1, <1>2, AnsweredKeys
    <3>. QED  BY <2>1, <3>1, <3>2 DEF Carries
  <2>4. Past(job[j]) /\ job[j].at # "idle"
    BY <1>1 DEF Past
  <2>. QED  BY <1>2, <1>3, <2>1, <2>2, <2>3, <2>4, OneJobSettles DEF Waits
<1>6. ASSUME NEW i \in Keys, Writing(i), ~Writing(i)'  PROVE i \in Written(j)
  <2>1. PICK h \in Writers : Handling(h) /\ i \in Written(h)
    BY <1>6 DEF Writing, Handling
  <2>2. CASE h # j
    <3>1. job'[h] = job[h]
      BY <1>1, <1>2, <2>2, JobNames DEF Await, JobsTyped
    <3>2. Written(h)' = Written(h)
      BY <3>1 DEF Written
    <3>. QED  BY <1>6, <2>1, <3>1, <3>2 DEF Writing, Handling
  <2>. QED  BY <2>1, <2>2
\* The cache.
<1>7. /\ DOMAIN Q = Keys /\ Q[k] = Invalidate(query[k], k \in Watched(page, service))
      /\ \A i \in Keys : Staler(query[i], Q[i], Kind(i))
  <2>1. \A i \in Keys : Staler(query[i], query[i], Kind(i))
    BY <1>2, CacheSame
  <2>2. \A w : Staler(query[k], Invalidate(query[k], w), Kind(k))
    BY <1>2, <1>4, CacheSteps DEF CacheTyped
  <2>. QED  BY <1>2, <1>4, <2>1, <2>2 DEF InvalidateKey, CacheTyped
<1>8. j = "demo" => query' = [query EXCEPT ![k] = Refetch(@)]
  BY <1>1
<1>9. opened => query' = [Q EXCEPT !["project"] = WithData(query["project"], NoRepo)]
  <2>1. opened => Q["project"] = query["project"]
    BY <1>2, <1>3, <1>4 DEF InvalidateKey, CacheTyped
  <2>. QED  BY <1>1, <1>4, <2>1
<1>10. j # "demo" /\ ~opened => query' = Q
  BY <1>1
<1>. HIDE DEF Q, opened
<1>11. ~opened => CacheStaler
  <2>1. CASE j = "demo"
    <3>1. Staler(query[k], Refetch(query[k]), Kind(k))
      BY <1>2, <1>4, CacheSteps DEF CacheTyped
    <3>. QED  BY <1>2, <1>4, <1>8, <2>1, <3>1, OneKeyStaler
  <2>2. CASE j # "demo"
    BY <1>7, <1>10, <2>2 DEF CacheStaler
  <2>. QED  BY <2>1, <2>2
<1>12. \A i \in Keys \ {"project"} : Staler(query[i], query'[i], Kind(i))
  <2>1. CASE opened
    BY <1>3, <1>7, <1>9, <2>1
  <2>. QED  BY <1>11, <2>1 DEF CacheStaler
<1>13. opened => /\ query'["project"] = WithData(query["project"], NoRepo)
                 /\ DOMAIN query' = Keys
  BY <1>3, <1>7, <1>9
<1>14. CacheTyped'
  <2>1. CASE ~opened
    BY <1>2, <1>11, <2>1, StalerTyped
  <2>2. CASE opened
    <3>1. query["project"] \in QueryOf(Kind("project")) /\ NoRepo \in Kind("project")
      BY <1>2, <1>3 DEF CacheTyped, Kind
    <3>2. /\ query'["project"] \in QueryOf(Kind("project"))
          /\ query'["project"].at = query["project"].at
          /\ query'["project"].answer = query["project"].answer
      BY <1>13, <2>2, <3>1 DEF WithData, QueryOf
    <3>. QED  BY <1>2, <1>3, <1>12, <1>13, <2>2, <3>2 DEF CacheTyped, Staler
  <2>. QED  BY <2>1, <2>2
<1>15. ListStaler
  BY <1>3, <1>12 DEF ListStaler
\* What is fresh is still what the API holds.
<1>16. ASSUME NEW i \in Keys \ doubt', ~Writing(i)'
       PROVE  /\ query'[i].fresh => Data(i)' = Value(i)'
              /\ query'[i].at = "served" => query'[i].answer = Value(i)'
  <2>1. i \notin doubt /\ i \notin Doubted(j) /\ Value(i)' = Value(i)
    BY <1>1, ValueSame
  <2>2. CASE i \in Written(j)
    <3>1. /\ j # "demo" /\ i = k
          /\ ~(Fetching(query[k]) /\ (Data(k) = None \/ k \notin Watched(page, service)))
      BY <1>4, <2>1, <2>2 DEF Doubted
    <3>2. query'[k] = Invalidate(query[k], k \in Watched(page, service))
      <4>1. CASE opened
        BY <1>4, <1>7, <1>9, <2>1, <2>2, <4>1 DEF opened
      <4>. QED  BY <1>7, <1>10, <3>1, <4>1
    <3>3. /\ query'[k].fresh = FALSE
          /\ query'[k].at = "served" =>
               query[k].at = "served" /\ (Data(k) = None \/ k \notin Watched(page, service))
      <4>. DEFINE w == k \in Watched(page, service)
      <4>1. query[k] \in QueryOf(Kind(k)) /\ query'[k] = Invalidate(query[k], w)
        BY <1>2, <1>4, <3>2 DEF CacheTyped
      <4>2. /\ Invalidate(query[k], w).fresh = FALSE
            /\ Invalidate(query[k], w).at = "served" =>
                 query[k].at = "served" /\ (query[k].data = None \/ ~w)
        BY <4>1, InvalidatedEntry
      <4>. QED  BY <4>1, <4>2 DEF Data
    <3>. QED  BY <3>1, <3>3 DEF Fetching
  <2>3. CASE i \notin Written(j)
    <3>1. /\ query[i].fresh => Data(i) = Value(i)
          /\ query[i].at = "served" => query[i].answer = Value(i)
      BY <1>2, <1>6, <1>16, <2>1, <2>3 DEF Current
    <3>2. CASE i = "project" /\ opened
      <4>1. repo = NoRepo
        BY <2>1, <3>2 DEF Doubted, opened
      <4>2. Value("project") = repo
        BY DEF Value
      <4>3. /\ query'["project"].data = NoRepo
            /\ query'["project"].at = query["project"].at
            /\ query'["project"].answer = query["project"].answer
        BY <1>2, <1>3, <1>13, <3>2 DEF WithData, CacheTyped, QueryOf
      <4>. QED  BY <2>1, <3>1, <3>2, <4>1, <4>2, <4>3 DEF Data
    <3>3. CASE i # "project" \/ ~opened
      <4>1. Staler(query[i], query'[i], Kind(i))
        BY <1>11, <1>12, <3>3 DEF CacheStaler
      <4>. QED  BY <2>1, <3>1, <4>1 DEF Staler, Data
    <3>. QED  BY <3>2, <3>3
  <2>. QED  BY <2>2, <2>3
<1>17. Current'
  BY <1>16 DEF Current
<1>18. UntouchedFormIsCurrent'
  <2>1. CASE ~opened
    BY <1>1, <1>2, <1>11, <2>1, FormKept
  <2>2. CASE opened
    <3>1. Data("project")' = NoRepo
      BY <1>2, <1>3, <1>13, <2>2 DEF WithData, CacheTyped, QueryOf, Data
    <3>2. page = "settings" => form'.repo = NoRepo
      <4>1. FormOf(NoRepo).repo = NoRepo
        BY DEF FormOf
      <4>. QED  BY <1>1, <2>2, <4>1 DEF opened
    <3>. QED  BY <1>1, <3>1, <3>2 DEF UntouchedFormIsCurrent
  <2>. QED  BY <2>1, <2>2
\* The rest.
<1>19. DoubtTyped'
  BY <1>1, <1>2, <1>3, <1>4 DEF DoubtTyped, Doubted
<1>20. ScreenTyped'
  <2>1. form' \in Forms
    BY <1>1, <1>2, LocalTypes DEF ScreenTyped, Forms
  <2>. QED  BY <1>1, <1>2, <2>1 DEF ScreenTyped, Forms
<1>21. RowsTyped' /\ RoomLeft' /\ JobsTyped'
  BY <1>1, <1>2, <1>5 DEF RowsTyped, RoomLeft, JobsSettle
<1>22. ListGrows' /\ ProjectThere' /\ FormLists' /\ CallbackAlone'
  BY <1>1, <1>2, <1>5, <1>15, StayMoves, ListKept, ThereKept, FormListsKept, CallbackKept
<1>. QED  BY <1>14, <1>17, <1>18, <1>19, <1>20, <1>21, <1>22, FactsNext

\* A document's cache: nothing is read yet.
LEMMA FreshCache ==
  ASSUME NEW p, NEW k \in Keys
  PROVE  /\ Fresh(p)[k] \in QueryOf(Kind(k)) /\ ~Fresh(p)[k].fresh
         /\ Fresh(p)[k].at # "served" /\ Fresh(p)[k].data = None
<1>1. Fresh(p)[k] = Fetch(NoQuery) \/ Fresh(p)[k] = NoQuery
  BY DEF Fresh
<1>2. NoQuery \in QueryOf(Kind(k))
  BY DEF NoQuery, QueryOf
<1>3. Fetch(NoQuery) = [NoQuery EXCEPT !.at = "sent"]
  BY DEF Fetch, Fetching, NoQuery
<1>4. ~NoQuery.fresh /\ NoQuery.at = "idle" /\ NoQuery.data = None
  BY DEF NoQuery
<1>. QED  BY <1>1, <1>2, <1>3, <1>4 DEF QueryOf

\* The document is left for GitHub, from a page of the project.
LEMMA BrowseKeepsInv ==
  ASSUME PagesInv, BrowseGitHub
  PROVE  PagesInv'
<1>1. /\ UNCHANGED <<projects, repo, services, env, offered>> /\ page \in Tabs
      /\ page' \in {"callback", "dashboard"} /\ query' = Fresh(page')
      /\ job' = IF page' = "callback" THEN [NoJobs EXCEPT !["callback"] = Begun(None, None)]
                ELSE NoJobs
      /\ dialog' = Closed /\ confirm' = Unasked /\ form' = FormOf(None) /\ service' = None
      /\ doubt' = {}
  BY DEF BrowseGitHub, DialogShown, Shown, rows
<1>2. RowsTyped /\ ScreenTyped /\ ProjectThere
  BY Facts
<1>3. None \in Values
  BY DEF Values
<1>4. \A j \in Jobs : \/ job'[j] = Idle
                      \/ j = "callback" /\ job'[j] = Begun(None, None) /\ page' = "callback"
  BY <1>1 DEF NoJobs
<1>5. Begun(None, None) \in JobType
  BY <1>3, BegunTypes
<1>6. job' \in [Jobs -> JobType]
  <2>1. NoJobs \in [Jobs -> JobType]
    BY IdleTypes DEF NoJobs
  <2>. QED  BY <1>1, <1>5, <2>1
<1>7. \A j \in Jobs \ {"callback"} : job'[j].at = "idle" /\ job'[j].status = "none"
  BY <1>4, IdleTypes DEF Idle
<1>8. /\ "callback" \notin Writers /\ "callback" \notin Deployers
      /\ "form" \in Jobs \ {"callback"} /\ "addService" \in Jobs \ {"callback"}
      /\ Creators \subseteq Jobs \ {"callback"} /\ Deployers \subseteq Jobs \ {"callback"}
  BY JobNames, Names DEF Writers, Creators, Savers, EnvWriters, Deployers
<1>9. JobsTyped' /\ RoomLeft'
  <2>1. Carries("callback", job'["callback"])
    BY <1>8, JobNames DEF Carries
  <2>. QED  BY <1>6, <1>7, <1>8, <2>1 DEF JobsTyped, RoomLeft, Requesting
<1>10. \A k \in Keys : /\ query'[k] \in QueryOf(Kind(k)) /\ ~query'[k].fresh
                       /\ query'[k].at # "served" /\ query'[k].data = None
  BY <1>1, FreshCache
<1>11. CacheTyped'
  <2>1. DOMAIN query' = Keys
    BY <1>1 DEF Fresh
  <2>. QED  BY <1>10, <2>1 DEF CacheTyped
<1>12. RowsTyped' /\ DoubtTyped' /\ ScreenTyped'
  <2>1. page' \in Pages /\ page' # "settings"
    BY <1>1 DEF Pages
  <2>. QED  BY <1>1, <1>2, <2>1, LocalTypes DEF RowsTyped, DoubtTyped, ScreenTyped, Dialogs, Forms
<1>13. Current' /\ UntouchedFormIsCurrent' /\ ListGrows'
  <2>1. "projects" \in Keys
    BY Names
  <2>. QED  BY <1>1, <1>10, <2>1 DEF Current, UntouchedFormIsCurrent, ListGrows, List, Data
<1>14. ProjectThere' /\ FormLists' /\ CallbackAlone'
  <2>1. Project \in projects
    BY <1>1, <1>2 DEF ProjectThere, Tabs
  <2>2. ProjectThere'
    BY <1>1, <1>7, <1>8, <2>1 DEF ProjectThere
  <2>3. FormLists'
    BY <1>7, <1>8 DEF FormLists
  <2>4. CallbackAlone'
    BY <1>4, <1>7, JobNames, IdleTypes DEF CallbackAlone
  <2>. QED  BY <2>2, <2>3, <2>4
<1>. QED  BY <1>9, <1>11, <1>12, <1>13, <1>14, FactsNext

-----------------------------------------------------------------------------
(* The inductive invariant *)

LEMMA InitInv == Init => PagesInv
<1>. SUFFICES ASSUME Init  PROVE PagesInv
  OBVIOUS
<1>1. /\ page \in {"projects", "overview"} /\ dialog \in {Closed, OpenDialog} /\ offered = {}
      /\ projects \subseteq {Project} /\ (page = "overview" => projects = {Project})
      /\ repo \in Repos \cup {NoRepo} /\ services \in {{}, {First(Services)}}
      /\ env = [s \in Services |-> {}]
      /\ confirm = Unasked /\ form = FormOf(None) /\ service = None
      /\ query = Fresh(page) /\ job = NoJobs /\ doubt = {}
  BY DEF Init
<1>2. First(Services) \in Services
  BY FirstMember, NamesAssumption
<1>3. \A j \in Jobs : job[j] = Idle /\ job[j].at = "idle" /\ job[j].status = "none"
  BY <1>1 DEF NoJobs, Idle
<1>4. JobsTyped /\ RoomLeft
  <2>1. job \in [Jobs -> JobType]
    BY <1>1, IdleTypes DEF NoJobs
  <2>. QED  BY <1>3, <2>1, JobNames DEF JobsTyped, RoomLeft, Requesting
<1>5. CacheTyped
  BY <1>1, FreshCache DEF CacheTyped, Fresh
<1>6. RowsTyped /\ DoubtTyped /\ ScreenTyped
  <2>1. page \in Pages
    BY <1>1 DEF Pages, Tabs
  <2>2. env \in [Services -> SUBSET Variables]
    BY <1>1
  <2>. QED  BY <1>1, <1>2, <2>1, <2>2, LocalTypes DEF RowsTyped, DoubtTyped, ScreenTyped, Dialogs, Forms
<1>7. Current /\ UntouchedFormIsCurrent /\ ListGrows
  BY <1>1, FreshCache, Names DEF Current, UntouchedFormIsCurrent, ListGrows, List, Data
<1>8. ProjectThere
  <2>1. ~Deploying
    BY <1>3, JobNames DEF Deploying
  <2>. QED  BY <1>1, <1>3, <2>1, JobNames DEF ProjectThere
<1>9. FormLists /\ CallbackAlone
  BY <1>3, JobNames DEF FormLists, CallbackAlone
<1>. QED  BY <1>4, <1>5, <1>6, <1>7, <1>8, <1>9, TypeParts DEF PagesInv

LEMMA StutterKeepsInv ==
  ASSUME PagesInv, UNCHANGED vars
  PROVE  PagesInv'
<1>1. UNCHANGED <<projects, repo, services, env, page, dialog, confirm, form, service, offered,
                  query, job, doubt>>
  BY DEF vars, rows, local, cache
<1>2. ScreenTyped /\ CacheTyped /\ UntouchedFormIsCurrent
  BY Facts
<1>. QED  BY <1>1, <1>2, ScreenSame, SameCache, FormKept, ScreenStep

\* The types, that fresh data is what the API holds, that the form follows the
\* cache, and what makes the new project appear in the list: an inductive invariant,
\* whatever the services and repositories, the commands, the answers and their order.
THEOREM PagesInvariant == Spec => []PagesInv
<1>1. Init => PagesInv
  BY InitInv
<1>2. PagesInv /\ [Next]_vars => PagesInv'
  <2>. SUFFICES ASSUME PagesInv, [Next]_vars  PROVE PagesInv'
    OBVIOUS
  <2>1. CASE Environment
    <3>1. CASE Command
      BY <3>1, VisitKeepsInv, CreateKeepsInv, DialogKeepsInv, EditKeepsInv, DeployKeepsInv,
         ServiceKeepsInv, VariableKeepsInv, ConnectKeepsInv, BrowseKeepsInv, AddServiceKeepsInv,
         SaveKeepsInv DEF Command
    <3>2. CASE FocusWindow \/ Revoke
      BY <3>2, QuietKeepsInv
    <3>. QED  BY <2>1, <3>1, <3>2 DEF Environment
  <2>2. CASE Request
    BY <2>2, ServeKeepsInv, RefuseKeepsInv DEF Request
  <2>3. CASE Continue
    BY <2>3, AnsweredKeepsInv, WriteFailedKeepsInv, DeployAnsweredKeepsInv, InstallKeepsInv,
       AnalyzedKeepsInv, CallbackKeepsInv DEF Continue
  <2>4. CASE KeyAwaited
    BY <2>4, InvalidateKeepsInv, WriteDoneKeepsInv, ListedKeepsInv, OpenedKeepsInv DEF KeyAwaited
  <2>5. CASE FirstService \/ AccessGuard
    BY <2>5, ServiceKeepsInv, GuardKeepsInv
  <2>6. CASE \E k \in Keys : FetchStep(k)
    BY <2>6, ServeFetchKeepsInv, QuietKeepsInv, SettleFetchKeepsInv DEF FetchStep
  <2>7. CASE UNCHANGED vars
    BY <2>7, StutterKeepsInv
  <2>. QED  BY <2>1, <2>2, <2>3, <2>4, <2>5, <2>6, <2>7 DEF Next
<1>. QED  BY <1>1, <1>2, PTL DEF Spec

\* Every variable of the tab and every row keeps its type: no dialog, form or answer
\* holds something that is not a repository, a service or nothing.
THEOREM PagesTypeCorrect == Spec => []TypeOK
<1>1. PagesInv => TypeOK
  BY DEF PagesInv, TypesInv
<1>. QED  BY <1>1, PagesInvariant, PTL

\* What the cache holds as fresh is what the API holds, but for the writes in doubt
\* (invalidateQueries in every handler of the pages).
THEOREM CacheIsCurrent == Spec => []CacheCurrent
<1>1. PagesInv => CacheCurrent
  BY DEF PagesInv, Current, CacheCurrent
<1>. QED  BY <1>1, PagesInvariant, PTL

\* A settings form the user has not touched shows the cached project
\* (settings/page.tsx:31-37).
THEOREM FormIsCurrent == Spec => []UntouchedFormIsCurrent
<1>1. PagesInv => UntouchedFormIsCurrent
  BY DEF PagesInv
<1>. QED  BY <1>1, PagesInvariant, PTL

-----------------------------------------------------------------------------
(* One job at a time *)

\* Only the job i may wait for something else after a step.
Alone(i) == \A j \in Jobs : j # i => job'[j].at = job[j].at

NoneMoves == \A j \in Jobs : job'[j].at = job[j].at

LEMMA PostAlone ==
  ASSUME JobsTyped, NEW i \in Jobs, NEW v, NEW key, NEW B, Post(i, v, key, B)
  PROVE  job[i].at = "idle" /\ Alone(i)
  BY DEF Post, Stay, JobsTyped, Alone

LEMMA EndAlone ==
  ASSUME JobsTyped, NEW i \in Jobs, NEW J, J = End(i),
         \A j \in Jobs : job'[j].at = J[j].at
  PROVE  job'[i].at = "idle" /\ Alone(i)
  BY IdleTypes DEF End, JobsTyped, Alone

LEMMA AwaitAlone ==
  ASSUME JobsTyped, NEW i \in Jobs, NEW at, job' = Await(i, at)
  PROVE  job'[i].at = at /\ Alone(i)
<1>1. job[i] \in JobType
  BY JobFacts
<1>. QED  BY <1>1 DEF Await, JobsTyped, JobType, Alone

\* Who is begun, and who goes on or ends.
Begins ==
  \/ \E i \in Jobs \ Services : job[i].at = "idle" /\ Alone(i)
  \/ \E s \in Services : Alone(s) /\ (Warns => confirm.open /\ confirm.pending = s)

GoesOn ==
  \E i \in Jobs : /\ Alone(i) /\ job'[i].at # "post"
                  /\ i = "form" /\ job'[i].at = "idle" => CreateOpened \/ job[i].at \in {"post", "install"}

LEMMA CommandMoves ==
  ASSUME PagesInv, Command, ~BrowseGitHub
  PROVE  NoneMoves \/ Begins
<1>1. JobsTyped
  BY Facts
<1>2. ASSUME NEW j \in Writers \cup {"analyze", "deployNow"}, NEW v, NEW key, NEW B, Post(j, v, key, B)
      PROVE  Begins
  <2>1. j \in Jobs \ Services
    BY JobNames, Names
  <2>. QED  BY <1>1, <1>2, <2>1, PostAlone DEF Begins
<1>3. ASSUME NEW s \in Services, StartDeploy(s), Warns => confirm.open /\ confirm.pending = s
      PROVE  Begins
  BY <1>1, <1>3, JobNames, PostAlone DEF Begins, StartDeploy
<1>4. CASE UNCHANGED job
  BY <1>4 DEF NoneMoves
<1>5. CASE \E p \in Pages : Visit(p)
  <2>1. Leaves(job)
    BY <1>5 DEF Visit, GoTo, Leaves
  <2>. QED  BY <1>1, <2>1, GoToJobs DEF NoneMoves
<1>6. CASE \E j \in Creators : CreateProject(j)
  BY <1>2, <1>6, JobNames DEF CreateProject
<1>7. CASE \/ \E r \in Repos \cup {NoRepo} : TypeRepo(r) \/ EditSettings(r)
           \/ \E r \in Repos : PickRepo(r)
           \/ CancelConnect \/ CancelDeploy
  BY <1>4, <1>7 DEF TypeRepo, EditSettings, PickRepo, CancelConnect, CancelDeploy, Ask
<1>8. CASE \E s \in Services : RequestDeploy(s)
  BY <1>3, <1>4, <1>8 DEF RequestDeploy, Ask
<1>9. CASE \E s \in Services : SelectService(s)
  BY <1>9 DEF SelectService, Choose, NoneMoves
<1>10. CASE \E v \in Variables : AddVar(v) \/ DeleteVar(v)
  BY <1>2, <1>10 DEF AddVar, DeleteVar, Writers, EnvWriters
<1>11. CASE AnalyzeRepo \/ SubmitConnect \/ AddService \/ DeployNow \/ SaveSettings
  BY <1>2, <1>11 DEF AnalyzeRepo, SubmitConnect, AddService, DeployNow, SaveSettings, Writers, Savers
<1>12. CASE DeployAnyway
  <2>1. confirm.pending \in Services
    BY <1>12, Facts DEF DeployAnyway, ScreenTyped
  <2>. QED  BY <1>3, <1>12, <2>1 DEF DeployAnyway
<1>. QED  BY <1>5, <1>6, <1>7, <1>8, <1>9, <1>10, <1>11, <1>12 DEF Command

LEMMA JobMoves ==
  ASSUME PagesInv, [Next]_vars, ~BrowseGitHub
  PROVE  NoneMoves \/ Begins \/ GoesOn
<1>1. JobsTyped
  BY Facts
<1>2. CASE UNCHANGED job
  BY <1>2 DEF NoneMoves
<1>3. ASSUME NEW i \in Jobs, NEW J, J = End(i), \A j \in Jobs : job'[j].at = J[j].at,
             i = "form" => CreateOpened \/ job[i].at \in {"post", "install"}
      PROVE  GoesOn
  <2>1. job'[i].at = "idle" /\ Alone(i)
    BY <1>1, <1>3, EndAlone
  <2>. QED  BY <1>3, <2>1 DEF GoesOn
<1>4. ASSUME NEW i \in Jobs, NEW at, job' = Await(i, at), at \notin {"idle", "post"}
      PROVE  GoesOn
  BY <1>1, <1>4, AwaitAlone DEF GoesOn
<1>5. CASE Command
  BY <1>5, CommandMoves
<1>6. CASE FocusWindow \/ Revoke \/ (\E k \in Keys : FetchStep(k)) \/ UNCHANGED vars
  BY <1>2, <1>6 DEF FocusWindow, Revoke, FetchStep, ServeFetch, RefuseFetch, SettleFetch, vars
<1>7. CASE Request
  <2>1. PICK i \in Jobs, status \in {"ok", "error"} : job' = [job EXCEPT ![i].status = status]
    BY <1>7 DEF Request, Serve, Refuse, Reply
  <2>. QED  BY <1>1, <2>1 DEF NoneMoves, JobsTyped, JobType
<1>8. CASE Continue
  <2>1. ASSUME NEW j \in Writers, WriteAnswered(j)  PROVE GoesOn
    <3>1. job' = Await(j, FirstKey(j)) /\ job[j].at # "idle" /\ j \in Jobs
      BY <2>1, JobNames DEF WriteAnswered, Answered
    <3>2. FirstKey(j) \notin {"idle", "post"}
      BY <1>1, <3>1, AnsweredKeys, Names DEF Waits
    <3>. QED  BY <1>4, <3>1, <3>2
  <2>2. ASSUME NEW j \in Writers, WriteFailed(j)  PROVE GoesOn
    BY <1>3, <2>2, JobNames DEF WriteFailed, Answered, Stay
  <2>3. ASSUME NEW j \in Deployers, DeployAnswered(j)  PROVE GoesOn
    <3>1. j \in Jobs /\ j # "form"
      BY JobNames, Names
    <3>2. CASE job' = End(j)
      BY <1>3, <3>1, <3>2
    <3>3. CASE GoTo("deployments", FALSE, End(j), Unset(j, {"deploy"}), query, dialog)
      <4>1. Leaves(End(j))
        BY <3>3 DEF GoTo, Leaves
      <4>2. \A i \in Jobs : job'[i].at = End(j)[i].at
        BY <1>1, <3>1, <4>1, GoToJobs
      <4>. QED  BY <1>3, <3>1, <4>2
    <3>. QED  BY <2>3, <3>2, <3>3 DEF DeployAnswered
  <2>4. InstallNext => GoesOn
    BY <1>4, JobNames DEF InstallNext, Stay
  <2>5. Analyzed \/ CallbackAnswered => GoesOn
    BY <1>3, JobNames DEF Analyzed, CallbackAnswered
  <2>. QED  BY <1>8, <2>1, <2>2, <2>3, <2>4, <2>5 DEF Continue
<1>9. CASE KeyAwaited
  <2>1. ASSUME NEW j \in Writers, InvalidateNext(j)  PROVE GoesOn
    BY <1>4, <2>1, JobNames DEF InvalidateNext, Stay, NextKey
  <2>2. ASSUME NEW j \in Writers, WriteDone(j)  PROVE GoesOn
    BY <1>3, <2>2, JobNames DEF WriteDone
  <2>3. ASSUME NEW j \in Creators, CreateListed(j)  PROVE GoesOn
    <3>1. j \in Jobs
      BY JobNames
    <3>2. CASE j = "demo"
      BY <1>3, <2>3, <3>1, <3>2 DEF CreateListed, Stay
    <3>3. CASE j = "form"
      BY <1>4, <2>3, <3>1, <3>3 DEF CreateListed, Stay
    <3>4. CASE j = "cta"
      <4>1. Leaves(End(j))
        BY <2>3, <3>4 DEF CreateListed, GoTo, Leaves
      <4>2. \A i \in Jobs : job'[i].at = End(j)[i].at
        BY <1>1, <3>1, <4>1, GoToJobs
      <4>. QED  BY <1>3, <3>1, <3>4, <4>2
    <3>. QED  BY <3>2, <3>3, <3>4 DEF Creators
  <2>4. CreateOpened => GoesOn
    <3>1. SUFFICES ASSUME CreateOpened  PROVE GoesOn
      OBVIOUS
    <3>2. Leaves(End("form")) /\ "form" \in Jobs
      BY <3>1, JobNames DEF CreateOpened, GoTo, Leaves
    <3>3. \A i \in Jobs : job'[i].at = End("form")[i].at
      BY <1>1, <3>2, GoToJobs
    <3>. QED  BY <1>3, <3>1, <3>2, <3>3
  <2>. QED  BY <1>9, <2>1, <2>2, <2>3, <2>4 DEF KeyAwaited
<1>10. CASE FirstService
  BY <1>10 DEF FirstService, Choose, NoneMoves
<1>11. CASE AccessGuard
  <2>1. Leaves(job)
    BY <1>11 DEF AccessGuard, GoTo, Leaves
  <2>. QED  BY <1>1, <2>1, GoToJobs DEF NoneMoves
<1>. QED  BY <1>5, <1>6, <1>7, <1>8, <1>9, <1>10, <1>11 DEF Next, Environment

\* The overview requests a deployment under warnings only for the service its
\* question is about, whatever answers and continuations came in between
\* (projects/[id]/page.tsx:58-69).
THEOREM WarnedDeploymentIsConfirmed == Spec => WarnedIsConfirmed
<1>1. ASSUME PagesInv, [Next]_vars, NEW s \in Services,
             job[s].at = "idle", job'[s].at = "post", Warns
      PROVE  confirm = [open |-> TRUE, pending |-> s]
  <2>1. s \in Jobs /\ ~BrowseGitHub
    <3>1. s \in Jobs /\ s # "callback"
      BY JobNames, Names
    <3>2. BrowseGitHub => job'[s].at = "idle"
      BY <3>1, IdleTypes DEF BrowseGitHub, NoJobs
    <3>. QED  BY <1>1, <3>1, <3>2
  <2>2. confirm.open /\ confirm.pending = s
    BY <1>1, <2>1, JobMoves DEF NoneMoves, Begins, GoesOn, Alone
  <2>. QED  BY <1>1, <2>2, Facts DEF ScreenTyped
<1>2. PagesInv /\ [Next]_vars =>
        [\A s \in Services : job[s].at = "idle" /\ job'[s].at = "post" /\ Warns
           => confirm = [open |-> TRUE, pending |-> s]]_vars
  BY <1>1
<1>. QED  BY <1>2, PagesInvariant, PTL DEF Spec, WarnedIsConfirmed

\* The form opens a project that its organization's list shows, or the list could
\* not be read (projects/page.tsx:150-156).
THEOREM CreatedIsListed == Spec => NewProjectIsListed
<1>1. ASSUME PagesInv, [Next]_vars,
             job["form"].at \in {"projects", "relist"}, job'["form"].at = "idle"
      PROVE  Project \in List("projects") \/ query["projects"].at = "failed"
  <2>1. "form" \in Jobs /\ FormLists /\ job["form"].at # "idle"
    BY <1>1, Facts, JobNames
  <2>2. CASE BrowseGitHub
    BY <2>1, <2>2 DEF BrowseGitHub, DialogShown, Shown, Tabs, FormLists
  <2>3. CASE CreateOpened
    <3>1. query["projects"].at \in {"idle", "sent", "served", "failed"}
      BY <1>1, Facts, Names DEF CacheTyped, QueryOf
    <3>. QED  BY <2>1, <2>3, <3>1 DEF CreateOpened, Fetching, FormLists
  <2>4. CASE ~BrowseGitHub /\ ~CreateOpened
    <3>1. NoneMoves \/ Begins \/ GoesOn
      BY <1>1, <2>4, JobMoves
    <3>2. "form" \notin Services
      BY Names, JobNames
    <3>. QED  BY <1>1, <2>1, <2>4, <3>1, <3>2 DEF NoneMoves, Begins, GoesOn, Alone
  <2>. QED  BY <2>2, <2>3, <2>4
<1>2. PagesInv /\ [Next]_vars =>
        [job["form"].at \in {"projects", "relist"} /\ job'["form"].at = "idle"
           => Project \in List("projects") \/ query["projects"].at = "failed"]_vars
  BY <1>1
<1>. QED  BY <1>2, PagesInvariant, PTL DEF Spec, NewProjectIsListed
=============================================================================
