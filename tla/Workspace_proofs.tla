--------------------------- MODULE Workspace_proofs ---------------------------
(***************************************************************************)
(* Proofs about the tab between sign-in and project, for any users and      *)
(* organizations and any number of commands and failures: types, the busy   *)
(* flags of the mounted page, and the session no document load verifies.    *)
(*                                                                         *)
(* WorkspaceInv is inductive. Every action changes at most one job and the  *)
(* page, so the proofs know three changes of the jobs (one begins, goes on, *)
(* ends) and two of the page (it stays, it goes where the gate lets it).    *)
(***************************************************************************)
EXTENDS Workspace, TLAPS

Lists == QueryOf(SUBSET Orgs)

-----------------------------------------------------------------------------
(* The cached list *)

\* Every operation of the cache keeps a list of organizations.
LEMMA CacheTypes ==
  ASSUME NEW e \in Lists
  PROVE  /\ Fetch(e) \in Lists /\ Refetch(e) \in Lists
         /\ \A old : Refresh(e, old) \in Lists
         /\ \A w : Invalidate(e, w) \in Lists
         /\ Failed(e) \in Lists /\ Settled(e) \in Lists
         /\ \A v \in SUBSET Orgs : Served(e, v) \in Lists
<1>1. ASSUME NEW q \in Lists  PROVE Fetch(q) \in Lists
  BY <1>1 DEF Lists, QueryOf, Fetch
<1>2. ASSUME NEW q \in Lists  PROVE Refetch(q) \in Lists
  BY <1>1, <1>2 DEF Lists, QueryOf, Refetch
<1>3. \A old : Refresh(e, old) \in Lists
  BY <1>1 DEF Refresh
<1>4. \A w : Invalidate(e, w) \in Lists
  <2>1. [e EXCEPT !.fresh = FALSE] \in Lists
    BY DEF Lists, QueryOf
  <2>. QED  BY <1>2, <2>1 DEF Invalidate
<1>5. Failed(e) \in Lists
  BY DEF Lists, QueryOf, Failed
<1>6. Settled(e) \in Lists
  BY DEF Lists, QueryOf, Settled, WithData
<1>7. \A v \in SUBSET Orgs : Served(e, v) \in Lists
  BY DEF Lists, QueryOf, Served
<1>. QED  BY <1>1, <1>2, <1>3, <1>4, <1>5, <1>6, <1>7

LEMMA NoQueryTypes == NoQuery \in Lists /\ Fetch(NoQuery) \in Lists
<1>1. NoQuery \in Lists
  BY DEF NoQuery, Lists, QueryOf
<1>. QED  BY <1>1, CacheTypes

LEMMA ObserveTypes ==
  ASSUME NEW Q \in Lists, Observe(Q)
  PROVE  query' \in Lists
  BY CacheTypes DEF Observe

-----------------------------------------------------------------------------
(* The parts of the invariant *)

Pages == Dashboard \cup {SignIn}
AllFlags == {"submitting", "bootstrapBusy", "projectBusy"}
Values == (SUBSET Orgs) \cup Users \cup Orgs \cup {None}
Places == Requests \cup {"idle", "refetch", "refresh", "refresh2"}
Statuses == {"none", "ok", "error", "conflict", "membership"}
JobType == [at : Places, status : Statuses, live : BOOLEAN, value : Values]

JobsGood(J) == J \in [Jobs -> JobType] /\ \A k \in Jobs : Carries(J[k])

\* B is left to the jobs J.
FlagsGood(J, B) ==
  /\ B \subseteq AllFlags
  /\ \A k \in Jobs : B \cap Flags(k) # {} => J[k].at # "idle" /\ J[k].live

\* No session verification begins with J.
Unverified(J) == job["me"].at = "idle" => J["me"].at = "idle"

DataOK ==
  /\ orgs \in [Users -> SUBSET Orgs]
  /\ cookie \in Users \cup {None} /\ user \in Users \cup {None}
  /\ selected \in Orgs \cup {None}
  /\ query \in Lists

ScreenOK ==
  /\ page \in Pages /\ arrival \in {"none", "document", "client"}
  /\ JobsGood(job) /\ FlagsGood(job, busy) /\ OnlyClientArrivalsVerify

LEMMA Parts == WorkspaceInv <=> DataOK /\ ScreenOK
<1>1. TypeOK <=> /\ DataOK /\ page \in Pages /\ arrival \in {"none", "document", "client"}
                 /\ busy \subseteq AllFlags /\ DOMAIN job = Jobs
  BY DEF TypeOK, DataOK, Pages, AllFlags, Lists
<1>2. JobsInv <=> JobsGood(job)
  BY DEF JobsInv, JobsGood, JobType, Values, Places, Statuses
<1>3. FlagsInv /\ busy \subseteq AllFlags <=> FlagsGood(job, busy)
  BY DEF FlagsInv, FlagsGood
<1>4. JobsGood(job) => DOMAIN job = Jobs
  BY DEF JobsGood
<1>. QED  BY <1>1, <1>2, <1>3, <1>4 DEF WorkspaceInv, ScreenOK

LEMMA PartsNext == WorkspaceInv' <=> DataOK' /\ ScreenOK'
  BY Parts, PTL

LEMMA NoneIsAlone ==
  None \notin Users /\ None \notin Orgs
  BY WorkspaceAssumption

LEMMA FirstMember ==
  ASSUME NEW S, S # {}
  PROVE  First(S) \in S
  BY DEF First

\* What the list shows is a set of organizations.
LEMMA OrgListTypes ==
  ASSUME DataOK
  PROVE  OrgList \in SUBSET Orgs
  BY DEF DataOK, OrgList, Lists, QueryOf

-----------------------------------------------------------------------------
(* One job changes *)

LEMMA IdleTypes ==
  /\ Idle \in JobType /\ Carries(Idle) /\ Idle.at = "idle"
  /\ NoJobs \in [Jobs -> JobType] /\ \A k \in Jobs : NoJobs[k] = Idle
<1>1. Idle \in JobType /\ Idle.at = "idle"
  BY DEF Idle, JobType, Values, Places, Statuses
<1>2. Carries(Idle)
  BY DEF Idle, Carries
<1>. QED  BY <1>1, <1>2 DEF NoJobs

LEMMA BegunTypes ==
  ASSUME NEW at \in Places, NEW v \in Values,
         at # "refetch", at \in {"register", "login"} => v \in Users
  PROVE  Begun(at, v) \in JobType /\ Carries(Begun(at, v))
         /\ Begun(at, v).at = at /\ Begun(at, v).live
<1>1. Begun(at, v) \in JobType /\ Begun(at, v).at = at /\ Begun(at, v).live
  BY DEF Begun, JobType, Places, Statuses
<1>2. Begun(at, v).status = "none" /\ Begun(at, v).value = v
  BY DEF Begun
<1>. QED  BY <1>1, <1>2 DEF Carries

LEMMA OneJob ==
  ASSUME ScreenOK, NEW k \in Jobs, NEW r \in JobType, Carries(r)
  PROVE  JobsGood([job EXCEPT ![k] = r])
  BY DEF ScreenOK, JobsGood

\* A job begins, with its flags.
LEMMA JobBegins ==
  ASSUME ScreenOK, NEW k \in Jobs \ {"me"}, NEW r \in JobType, Carries(r),
         r.at # "idle", r.live, NEW B, B \subseteq busy \cup Flags(k)
  PROVE  /\ JobsGood([job EXCEPT ![k] = r]) /\ FlagsGood([job EXCEPT ![k] = r], B)
         /\ Unverified([job EXCEPT ![k] = r])
<1>1. JobsGood([job EXCEPT ![k] = r])
  BY OneJob
<1>2. B \subseteq AllFlags
  BY DEF ScreenOK, FlagsGood, AllFlags, Flags
<1>3. ASSUME NEW j \in Jobs, j # k, B \cap Flags(j) # {}
      PROVE  busy \cap Flags(j) # {}
  BY <1>3 DEF Flags
<1>4. job \in [Jobs -> JobType]
  BY DEF ScreenOK, JobsGood
<1>5. FlagsGood([job EXCEPT ![k] = r], B)
  BY <1>2, <1>3, <1>4 DEF FlagsGood, ScreenOK
<1>6. Unverified([job EXCEPT ![k] = r])
  BY <1>4 DEF Unverified
<1>. QED  BY <1>1, <1>5, <1>6

\* A job goes on to wait for something else.
LEMMA JobGoesOn ==
  ASSUME ScreenOK, NEW k \in Jobs, NEW r \in JobType, Carries(r),
         r.at # "idle", job[k].at # "idle", r.live = job[k].live
  PROVE  /\ JobsGood([job EXCEPT ![k] = r]) /\ FlagsGood([job EXCEPT ![k] = r], busy)
         /\ Unverified([job EXCEPT ![k] = r])
<1>1. JobsGood([job EXCEPT ![k] = r])
  BY OneJob
<1>2. job \in [Jobs -> JobType]
  BY DEF ScreenOK, JobsGood
<1>3. FlagsGood([job EXCEPT ![k] = r], busy)
  BY <1>2 DEF FlagsGood, ScreenOK
<1>4. Unverified([job EXCEPT ![k] = r])
  BY <1>2 DEF Unverified
<1>. QED  BY <1>1, <1>3, <1>4

\* A job ends and frees its flags, or has none to free.
LEMMA JobEnds ==
  ASSUME ScreenOK, NEW k \in Jobs, NEW B, B = Freed(k) \/ (B = busy /\ Flags(k) = {})
  PROVE  JobsGood(End(k)) /\ FlagsGood(End(k), B) /\ Unverified(End(k))
<1>1. JobsGood(End(k))
  BY OneJob, IdleTypes DEF End
<1>2. job \in [Jobs -> JobType] /\ busy \subseteq AllFlags
  BY DEF ScreenOK, JobsGood, FlagsGood
<1>3. B \subseteq busy
  BY DEF Freed
<1>4. B \cap Flags(k) = {}
  BY DEF Freed, ScreenOK, FlagsGood
<1>5. ASSUME NEW j \in Jobs, B \cap Flags(j) # {}
      PROVE  End(k)[j].at # "idle" /\ End(k)[j].live
  <2>1. j # k /\ busy \cap Flags(j) # {}
    BY <1>3, <1>4, <1>5
  <2>2. End(k)[j] = job[j]
    BY <1>2, <2>1 DEF End
  <2>. QED  BY <2>1, <2>2 DEF ScreenOK, FlagsGood
<1>6. Unverified(End(k))
  BY <1>2, IdleTypes DEF Unverified, End
<1>. QED  BY <1>1, <1>2, <1>3, <1>5, <1>6 DEF FlagsGood

-----------------------------------------------------------------------------
(* The page *)

LEMMA StayScreen ==
  ASSUME ScreenOK, NEW J, NEW B, JobsGood(J), FlagsGood(J, B), Unverified(J), Stay(J, B)
  PROVE  ScreenOK'
<1>1. job' = J /\ busy' = B /\ page' = page /\ arrival' = arrival
  BY DEF Stay
<1>2. OnlyClientArrivalsVerify'
  BY <1>1 DEF ScreenOK, OnlyClientArrivalsVerify, Unverified
<1>3. JobsGood(job') /\ FlagsGood(job', busy')
  BY <1>1
<1>. QED  BY <1>1, <1>2, <1>3 DEF ScreenOK, JobsGood, FlagsGood

\* Where the gate leads.
LEMMA GateTypes ==
  ASSUME NEW p \in Pages, NEW who
  PROVE  Gate(p, who) \in Pages
  BY DEF Gate, Pages, Dashboard, SignIn

LEMMA UnmountGood ==
  ASSUME NEW J, JobsGood(J), NEW gone
  PROVE  /\ JobsGood(Unmount(J, gone))
         /\ \A k \in Jobs : Unmount(J, gone)[k].at = J[k].at
         /\ \A k \in Jobs \ gone : Unmount(J, gone)[k] = J[k]
<1>. DEFINE U == Unmount(J, gone)
<1>1. ASSUME NEW k \in Jobs
      PROVE  U[k] \in JobType /\ Carries(U[k]) /\ U[k].at = J[k].at
  <2>1. U[k] = J[k] \/ U[k] = [J[k] EXCEPT !.live = FALSE]
    BY DEF Unmount
  <2>2. J[k] \in JobType /\ Carries(J[k])
    BY DEF JobsGood
  <2>3. CASE U[k] = [J[k] EXCEPT !.live = FALSE]
    <3>1. /\ U[k] \in JobType
          /\ U[k].at = J[k].at /\ U[k].status = J[k].status /\ U[k].value = J[k].value
      BY <2>2, <2>3 DEF JobType
    <3>. QED  BY <2>2, <3>1 DEF Carries
  <2>. QED  BY <2>1, <2>2, <2>3
<1>2. U \in [Jobs -> JobType]
  BY <1>1 DEF Unmount
<1>3. \A k \in Jobs \ gone : U[k] = J[k]
  BY DEF Unmount
<1>. QED  BY <1>1, <1>2, <1>3 DEF JobsGood

\* Navigation leaves the jobs, the flags of the page that stays, and no layout that
\* came up with the document verifies the session.
LEMMA GoToScreen ==
  ASSUME ScreenOK, NEW p \in Pages, NEW J, NEW B, NEW who, NEW present,
         JobsGood(J), FlagsGood(J, B), Unverified(J), GoTo(p, J, B, who, present)
  PROVE  ScreenOK'
<1>. DEFINE q == Gate(p, who)
            mounts == page \notin Dashboard /\ q \in Dashboard
            gone == (IF page # q THEN PageJobs ELSE {}) \cup (IF q \in Dashboard THEN {} ELSE {"me"})
            left == Unmount(J, gone)
<1>1. q \in Pages
  BY GateTypes
<1>2. /\ page' = q
      /\ busy' = IF page # q THEN {} ELSE B
      /\ arrival' = IF mounts THEN "client" ELSE IF q \in Dashboard THEN arrival ELSE "none"
  BY DEF GoTo
<1>3. JobsGood(left) /\ \A k \in Jobs : left[k].at = J[k].at
  BY UnmountGood
<1>4. /\ JobsGood(job')
      /\ ~mounts => job' = left
  <2>1. CASE mounts
    <3>1. PICK follow \in BOOLEAN :
            job' = VerifySession([left EXCEPT !["me"] = IF follow THEN @ ELSE Idle], present)
      BY <2>1 DEF GoTo
    <3>. DEFINE K == [left EXCEPT !["me"] = IF follow THEN @ ELSE Idle]
    <3>2. JobsGood(K)
      BY <1>3, IdleTypes DEF JobsGood
    <3>3. JobsGood([K EXCEPT !["me"] = Begun("me", None)])
      <4>1. Begun("me", None) \in JobType /\ Carries(Begun("me", None))
        BY BegunTypes DEF Values, Places, Requests
      <4>. HIDE DEF K
      <4>. QED  BY <3>2, <4>1 DEF JobsGood
    <3>. QED  BY <2>1, <3>1, <3>2, <3>3 DEF VerifySession
  <2>2. CASE ~mounts
    BY <1>3, <2>2 DEF GoTo
  <2>. QED  BY <2>1, <2>2
<1>5. FlagsGood(job', busy')
  <2>1. CASE page # q
    BY <1>2, <2>1 DEF FlagsGood
  <2>2. CASE page = q
    <3>1. job' = left /\ busy' = B
      BY <1>2, <1>4, <2>2
    <3>2. \A k \in Jobs \ {"me"} : left[k] = J[k]
      BY <2>2, UnmountGood
    <3>3. Flags("me") = {}
      BY DEF Flags
    <3>. QED  BY <3>1, <3>2, <3>3 DEF FlagsGood
  <2>. QED  BY <2>1, <2>2
<1>6. OnlyClientArrivalsVerify'
  <2>1. SUFFICES ASSUME arrival' = "document"  PROVE job'["me"].at = "idle"
    BY DEF OnlyClientArrivalsVerify
  <2>2. ~mounts /\ arrival = "document"
    BY <1>2, <2>1
  <2>3. J["me"].at = "idle"
    BY <2>2 DEF ScreenOK, OnlyClientArrivalsVerify, Unverified
  <2>. QED  BY <1>3, <1>4, <2>2, <2>3 DEF Jobs
<1>7. arrival' \in {"none", "document", "client"}
  BY <1>2 DEF ScreenOK
<1>. QED  BY <1>1, <1>2, <1>4, <1>5, <1>6, <1>7 DEF ScreenOK, JobsGood, FlagsGood

LEMMA JobFacts ==
  ASSUME ScreenOK, NEW k \in Jobs
  PROVE  job \in [Jobs -> JobType] /\ job[k] \in JobType /\ Carries(job[k])
  BY DEF ScreenOK, JobsGood

-----------------------------------------------------------------------------
(* The server *)

LEMMA ReplyScreen ==
  ASSUME ScreenOK, NEW k \in Jobs, NEW status \in Statuses, NEW value \in Values,
         job[k].at # "idle", job[k].at # "refetch", Reply(k, status, value),
         \/ status = "error"
         \/ status \in {"conflict", "membership"} /\ job[k].at \notin {"register", "login"}
         \/ /\ status = "ok"
            /\ job[k].at \in {"register", "login", "me"} => value \in Users
            /\ job[k].at \in {"list", "relist"} => value \in SUBSET Orgs
            /\ job[k].at = "createOrg" => value \in Orgs
  PROVE  ScreenOK' /\ UNCHANGED <<cookie, user, selected, query>>
<1>. DEFINE r == [job[k] EXCEPT !.status = status, !.value = value]
<1>1. job[k] \in JobType
  BY JobFacts
<1>2. /\ r \in JobType
      /\ r.at = job[k].at /\ r.live = job[k].live /\ r.status = status /\ r.value = value
  BY <1>1 DEF JobType
<1>5. /\ job' = [job EXCEPT ![k] = r]
      /\ UNCHANGED <<page, arrival, busy>> /\ UNCHANGED <<cookie, user, selected, query>>
  BY DEF Reply, stores
<1>. HIDE DEF r
<1>4. Carries(r)
  BY <1>2 DEF Carries
<1>6. Stay([job EXCEPT ![k] = r], busy)
  BY <1>5 DEF Stay
<1>7. ScreenOK'
  BY <1>2, <1>4, <1>6, JobGoesOn, StayScreen
<1>. QED  BY <1>5, <1>7

LEMMA ServerKeepsInv ==
  ASSUME WorkspaceInv, NEW k \in Jobs, ServerStep(k)
  PROVE  WorkspaceInv'
<1>1. DataOK /\ ScreenOK
  BY Parts
<1>2. job[k] \in JobType /\ Carries(job[k])
  BY <1>1, JobFacts
<1>3. cookie # None => cookie \in Users /\ orgs[cookie] \in SUBSET Orgs
  BY <1>1 DEF DataOK
<1>4. CASE ServeRead(k)
  <2>1. SUFFICES ScreenOK' /\ UNCHANGED <<cookie, user, selected, query>>
    BY <1>1, <1>4, PartsNext DEF ServeRead, DataOK
  <2>2. CASE (Asks(k, "register") \/ Asks(k, "login")) /\ Reply(k, "ok", job[k].value)
    <3>1. job[k].value \in Users /\ job[k].at \in {"register", "login"}
      BY <1>2, <2>2 DEF Carries, Asks, Answered
    <3>. QED  BY <1>1, <2>2, <3>1, ReplyScreen DEF Values, Statuses
  <2>3. CASE Asks(k, "logout") /\ Reply(k, "ok", None)
    BY <1>1, <2>3, ReplyScreen DEF Values, Asks, Answered, Statuses
  <2>4. CASE Asks(k, "me") /\ cookie # None /\ Reply(k, "ok", cookie)
    BY <1>1, <1>3, <2>4, ReplyScreen DEF Values, Asks, Answered, Statuses
  <2>5. CASE (Asks(k, "list") \/ Asks(k, "relist")) /\ cookie # None /\ Reply(k, "ok", orgs[cookie])
    <3>1. orgs[cookie] \in SUBSET Orgs /\ job[k].at \in {"list", "relist"}
      BY <1>3, <2>5 DEF Asks, Answered
    <3>. QED  BY <1>1, <2>5, <3>1, ReplyScreen DEF Values, Statuses
  <2>. QED  BY <1>4, <2>2, <2>3, <2>4, <2>5 DEF ServeRead
<1>5. CASE ServeCreateOrg(k)
  <2>1. PICK o \in NewOrgs : orgs' = [orgs EXCEPT ![cookie] = @ \cup {o}] /\ Reply(k, "ok", o)
    BY <1>5 DEF ServeCreateOrg
  <2>2. o \in Orgs /\ cookie \in Users /\ job[k].at = "createOrg"
    BY <1>3, <1>5 DEF NewOrgs, ServeCreateOrg, Asks, Answered
  <2>3. ScreenOK' /\ UNCHANGED <<cookie, user, selected, query>>
    BY <1>1, <2>1, <2>2, ReplyScreen DEF Values, Statuses
  <2>4. orgs' \in [Users -> SUBSET Orgs]
    BY <1>1, <2>1, <2>2 DEF DataOK
  <2>. QED  BY <1>1, <2>3, <2>4, PartsNext DEF DataOK
<1>6. CASE ServeCreateProject(k)
  <2>1. /\ job[k].at = "createProject"
        /\ Reply(k, "ok", None) \/ Reply(k, "membership", None)
        /\ UNCHANGED orgs
    BY <1>6 DEF ServeCreateProject, Asks, Answered
  <2>2. ScreenOK' /\ UNCHANGED <<cookie, user, selected, query>>
    BY <1>1, <2>1, ReplyScreen DEF Values, Statuses
  <2>. QED  BY <1>1, <2>1, <2>2, PartsNext DEF DataOK
<1>7. CASE Refuse(k)
  <2>1. /\ job[k].at \notin {"idle", "refetch"} /\ UNCHANGED orgs
        /\ \/ Reply(k, "error", None)
           \/ job[k].at = "createOrg" /\ Reply(k, "conflict", None)
    BY <1>7 DEF Refuse, Asks, Answered
  <2>2. ScreenOK' /\ UNCHANGED <<cookie, user, selected, query>>
    BY <1>1, <2>1, ReplyScreen DEF Values, Statuses
  <2>. QED  BY <1>1, <2>1, <2>2, PartsNext DEF DataOK
<1>. QED  BY <1>4, <1>5, <1>6, <1>7 DEF ServerStep

-----------------------------------------------------------------------------
(* The list, the selection, and what changes nothing of the screen *)

LEMMA ScreenStays ==
  ASSUME ScreenOK, UNCHANGED screen
  PROVE  ScreenOK'
<1>1. Stay(job, busy)
  BY DEF Stay, screen
<1>2. JobsGood(job) /\ FlagsGood(job, busy) /\ Unverified(job)
  BY DEF ScreenOK, Unverified
<1>. QED  BY <1>1, <1>2, StayScreen

LEMMA FetchKeepsInv ==
  ASSUME WorkspaceInv, FetchStep \/ FocusWindow
  PROVE  WorkspaceInv'
<1>1. DataOK /\ ScreenOK
  BY Parts
<1>2. query \in Lists /\ (cookie # None => orgs[cookie] \in SUBSET Orgs)
  BY <1>1 DEF DataOK
<1>3. PICK e \in Lists : FetchOnly(e)
  <2>1. CASE ServeFetch
    BY <1>2, <2>1, CacheTypes DEF ServeFetch
  <2>2. CASE RefuseFetch
    BY <1>2, <2>2, CacheTypes DEF RefuseFetch
  <2>3. CASE SettleFetch
    BY <1>2, <2>3, CacheTypes DEF SettleFetch
  <2>4. CASE FocusWindow
    BY <1>2, <2>4, CacheTypes DEF FocusWindow
  <2>. QED  BY <2>1, <2>2, <2>3, <2>4 DEF FetchStep
<1>4. DataOK'
  BY <1>1, <1>3 DEF FetchOnly, DataOK, stores
<1>5. ScreenOK'
  BY <1>1, <1>3, ScreenStays DEF FetchOnly
<1>. QED  BY <1>4, <1>5, PartsNext

LEMMA SelectionKeepsInv ==
  ASSUME WorkspaceInv, SyncSelection \/ \E o \in Orgs : SelectOrg(o)
  PROVE  WorkspaceInv'
<1>1. DataOK /\ ScreenOK
  BY Parts
<1>2. UNCHANGED <<orgs, cookie, user>> /\ UNCHANGED screen /\ Observe(query)
  BY DEF SyncSelection, SelectOrg
<1>3. selected' \in Orgs \cup {None}
  <2>1. SyncChoice \in Orgs \cup {None}
    BY <1>1, OrgListTypes, FirstMember DEF SyncChoice, DataOK
  <2>. QED  BY <2>1 DEF SyncSelection, SelectOrg
<1>4. query' \in Lists
  BY <1>1, <1>2, ObserveTypes DEF DataOK
<1>. QED  BY <1>1, <1>2, <1>3, <1>4, ScreenStays, PartsNext DEF DataOK

LEMMA SessionLostKeepsInv ==
  ASSUME WorkspaceInv, SessionLost
  PROVE  WorkspaceInv'
<1>1. DataOK /\ ScreenOK
  BY Parts
<1>2. cookie' = None /\ UNCHANGED <<orgs, user, selected, query>> /\ UNCHANGED screen
  BY DEF SessionLost
<1>. QED  BY <1>1, <1>2, ScreenStays, PartsNext DEF DataOK

-----------------------------------------------------------------------------
(* Navigation, the document, the commands *)

LEMMA VisitKeepsInv ==
  ASSUME WorkspaceInv, NEW p \in Pages, Visit(p)
  PROVE  WorkspaceInv'
<1>1. DataOK /\ ScreenOK
  BY Parts
<1>2. /\ UNCHANGED <<orgs, cookie, user, selected>>
      /\ GoTo(p, job, busy, cookie, user # None) /\ Observe(query)
  BY DEF Visit, stores
<1>3. JobsGood(job) /\ FlagsGood(job, busy) /\ Unverified(job)
  BY <1>1 DEF ScreenOK, Unverified
<1>4. ScreenOK'
  BY <1>1, <1>2, <1>3, GoToScreen
<1>5. query' \in Lists
  BY <1>1, <1>2, ObserveTypes DEF DataOK
<1>. QED  BY <1>1, <1>2, <1>4, <1>5, PartsNext DEF DataOK

\* A document that has been loaded: no job, no flag.
LEMMA LoadScreen ==
  ASSUME NEW p \in Pages, NEW who
  PROVE  LET s == LoadState(p, who) IN
         /\ s.page \in Pages /\ s.arrival \in {"none", "document"}
         /\ s.user \in {who, None} /\ s.job = NoJobs
<1>1. VerifySession(NoJobs, FALSE) = NoJobs
  BY DEF VerifySession
<1>. QED  BY <1>1, GateTypes DEF LoadState

LEMMA NoJobsGood ==
  JobsGood(NoJobs) /\ FlagsGood(NoJobs, {}) /\ NoJobs["me"].at = "idle"
  BY IdleTypes DEF JobsGood, FlagsGood, Jobs

LEMMA LoadKeepsInv ==
  ASSUME WorkspaceInv, NEW p \in Pages, Load(p)
  PROVE  WorkspaceInv'
<1>1. DataOK /\ ScreenOK
  BY Parts
<1>. DEFINE s == LoadState(p, cookie)
<1>2. /\ s.page \in Pages /\ s.arrival \in {"none", "document"}
      /\ s.user \in {cookie, None} /\ s.job = NoJobs
  BY LoadScreen
<1>3. /\ page' = s.page /\ arrival' = s.arrival /\ user' = s.user /\ job' = s.job /\ busy' = {}
      /\ UNCHANGED <<orgs, cookie, selected>> /\ query' \in {Fetch(NoQuery), NoQuery}
  BY DEF Load
<1>. HIDE DEF s
<1>4. JobsGood(job') /\ FlagsGood(job', busy') /\ OnlyClientArrivalsVerify'
  BY <1>2, <1>3, NoJobsGood DEF OnlyClientArrivalsVerify
<1>5. ScreenOK'
  BY <1>2, <1>3, <1>4 DEF ScreenOK, JobsGood, FlagsGood
<1>6. DataOK'
  BY <1>1, <1>2, <1>3, NoQueryTypes DEF DataOK
<1>. QED  BY <1>5, <1>6, PartsNext

LEMMA InitInv ==
  ASSUME Init
  PROVE  WorkspaceInv
<1>. DEFINE s == LoadState("projects", cookie)
<1>1. cookie \in Users \cup {None} /\ selected \in Orgs \cup {None} /\ orgs \in [Users -> SUBSET Orgs]
  BY WorkspaceAssumption DEF Init
<1>2. /\ s.page \in Pages /\ s.arrival \in {"none", "document"}
      /\ s.user \in {cookie, None} /\ s.job = NoJobs
  BY LoadScreen DEF Pages, Dashboard
<1>3. /\ page = s.page /\ arrival = s.arrival /\ user = s.user /\ job = s.job /\ busy = {}
      /\ query \in {Fetch(NoQuery), NoQuery}
  BY DEF Init
<1>. HIDE DEF s
<1>4. JobsGood(job) /\ FlagsGood(job, busy) /\ OnlyClientArrivalsVerify
  BY <1>2, <1>3, NoJobsGood DEF OnlyClientArrivalsVerify
<1>5. ScreenOK
  BY <1>2, <1>3, <1>4 DEF ScreenOK
<1>6. DataOK
  BY <1>1, <1>2, <1>3, NoQueryTypes DEF DataOK
<1>. QED  BY <1>5, <1>6, Parts

\* A command begins a job of the page.
Begins ==
  \E k \in Jobs \ {"me"}, at \in Places \ {"idle", "refetch"}, v \in Values :
    /\ at \in {"register", "login"} => v \in Users
    /\ Stay([job EXCEPT ![k] = Begun(at, v)], busy \cup Flags(k))

LEMMA BeginScreen ==
  ASSUME ScreenOK, Begins
  PROVE  ScreenOK'
<1>1. PICK k \in Jobs \ {"me"}, at \in Places \ {"idle", "refetch"}, v \in Values :
        /\ at \in {"register", "login"} => v \in Users
        /\ Stay([job EXCEPT ![k] = Begun(at, v)], busy \cup Flags(k))
  BY DEF Begins
<1>. DEFINE r == Begun(at, v)
<1>2. r \in JobType /\ Carries(r) /\ r.at = at /\ r.live
  BY <1>1, BegunTypes
<1>3. Stay([job EXCEPT ![k] = r], busy \cup Flags(k))
  BY <1>1
<1>. HIDE DEF r
<1>. QED  BY <1>2, <1>3, JobBegins, StayScreen

LEMMA CommandKeepsInv ==
  ASSUME WorkspaceInv,
         \/ \E u \in Users : LoginForm(u) \/ RegisterForm(u)
         \/ ClickBootstrap \/ SubmitOrg \/ SubmitProject \/ ClickLogout
  PROVE  WorkspaceInv'
<1>1. DataOK /\ ScreenOK
  BY Parts
<1>2. UNCHANGED <<orgs, cookie, user, selected, query>>
  BY DEF LoginForm, RegisterForm, SubmitAuth, ClickBootstrap, SubmitOrg, SubmitProject,
     ClickLogout, Stay, stores
<1>3. Begins
  <2>1. ASSUME NEW u \in Users, LoginForm(u) \/ RegisterForm(u)  PROVE Begins
    <3>1. PICK at \in {"login", "register"} :
            Stay([job EXCEPT !["auth"] = Begun(at, u)], busy \cup {"submitting"})
      BY <2>1 DEF LoginForm, RegisterForm, SubmitAuth
    <3>2. Flags("auth") = {"submitting"} /\ "auth" \in Jobs \ {"me"}
      BY DEF Flags, Jobs, PageJobs
    <3>3. at \in Places \ {"idle", "refetch"} /\ u \in Values
      BY DEF Places, Requests, Values
    <3>. QED  BY <3>1, <3>2, <3>3 DEF Begins
  <2>2. CASE ClickBootstrap
    <3>1. Stay([job EXCEPT !["bootstrap"] = Begun("list", None)], busy \cup {"bootstrapBusy"})
      BY <2>2 DEF ClickBootstrap
    <3>2. Flags("bootstrap") = {"bootstrapBusy"} /\ "bootstrap" \in Jobs \ {"me"}
      BY DEF Flags, Jobs, PageJobs
    <3>3. "list" \in Places \ {"idle", "refetch"} /\ None \in Values
      BY DEF Places, Requests, Values
    <3>. QED  BY <3>1, <3>2, <3>3 DEF Begins
  <2>3. CASE SubmitOrg
    <3>1. Stay([job EXCEPT !["createOrg"] = Begun("createOrg", None)], busy)
      BY <2>3 DEF SubmitOrg
    <3>2. busy \cup Flags("createOrg") = busy /\ "createOrg" \in Jobs \ {"me"}
      BY DEF Flags, Jobs, PageJobs
    <3>3. "createOrg" \in Places \ {"idle", "refetch"} /\ None \in Values
      BY DEF Places, Requests, Values
    <3>. QED  BY <3>1, <3>2, <3>3 DEF Begins
  <2>4. CASE SubmitProject
    <3>1. Stay([job EXCEPT !["createProject"] = Begun("createProject", selected)],
               busy \cup {"projectBusy"})
      BY <2>4 DEF SubmitProject
    <3>2. Flags("createProject") = {"projectBusy"} /\ "createProject" \in Jobs \ {"me"}
      BY DEF Flags, Jobs, PageJobs
    <3>3. "createProject" \in Places \ {"idle", "refetch"} /\ selected \in Values
      BY <1>1 DEF Places, Requests, Values, DataOK
    <3>. QED  BY <3>1, <3>2, <3>3 DEF Begins
  <2>5. CASE ClickLogout
    <3>1. Stay([job EXCEPT !["logout"] = Begun("logout", None)], busy)
      BY <2>5 DEF ClickLogout
    <3>2. busy \cup Flags("logout") = busy /\ "logout" \in Jobs \ {"me"}
      BY DEF Flags, Jobs, PageJobs
    <3>3. "logout" \in Places \ {"idle", "refetch"} /\ None \in Values
      BY DEF Places, Requests, Values
    <3>. QED  BY <3>1, <3>2, <3>3 DEF Begins
  <2>. QED  BY <2>1, <2>2, <2>3, <2>4, <2>5
<1>4. ScreenOK'
  BY <1>1, <1>3, BeginScreen
<1>. QED  BY <1>1, <1>2, <1>4, PartsNext DEF DataOK

-----------------------------------------------------------------------------
(* The continuations *)

LEMMA GoesOnScreen ==
  ASSUME ScreenOK, NEW k \in Jobs, NEW at \in Places \ {"idle", "refetch", "register", "login"},
         job[k].at # "idle", Stay(Go(k, at), busy)
  PROVE  ScreenOK'
<1>. DEFINE r == [job[k] EXCEPT !.at = at, !.status = "none", !.value = None]
<1>1. job[k] \in JobType
  BY JobFacts
<1>2. /\ r \in JobType
      /\ r.at = at /\ r.live = job[k].live /\ r.status = "none"
  BY <1>1 DEF JobType, Values, Statuses
<1>3. Stay([job EXCEPT ![k] = r], busy)
  BY DEF Go
<1>. HIDE DEF r
<1>4. Carries(r)
  BY <1>2 DEF Carries
<1>. QED  BY <1>2, <1>3, <1>4, JobGoesOn, StayScreen

\* A job waits for the list.
LEMMA AwaitsScreen ==
  ASSUME ScreenOK, NEW k \in Jobs, NEW at \in {"refetch", "refresh", "refresh2"},
         job[k].at # "idle", at = "refetch" => job[k].value \in Orgs \cup SUBSET Orgs,
         Stay([job EXCEPT ![k].at = at], busy)
  PROVE  ScreenOK'
<1>. DEFINE r == [job[k] EXCEPT !.at = at]
<1>1. job[k] \in JobType
  BY JobFacts
<1>2. /\ r \in JobType
      /\ r.at = at /\ r.live = job[k].live /\ r.value = job[k].value
  BY <1>1 DEF JobType, Places
<1>3. Stay([job EXCEPT ![k] = r], busy)
  OBVIOUS
<1>. HIDE DEF r
<1>4. Carries(r)
  BY <1>2 DEF Carries
<1>. QED  BY <1>2, <1>3, <1>4, JobGoesOn, StayScreen

LEMMA EndsScreen ==
  ASSUME ScreenOK, NEW k \in Jobs, Stay(End(k), Freed(k)) \/ (Stay(End(k), busy) /\ Flags(k) = {})
  PROVE  ScreenOK'
<1>1. PICK B : Stay(End(k), B) /\ (B = Freed(k) \/ (B = busy /\ Flags(k) = {}))
  OBVIOUS
<1>. QED  BY <1>1, JobEnds, StayScreen

LEMMA EndsElsewhere ==
  ASSUME ScreenOK, NEW k \in Jobs, NEW p \in Pages, NEW who, NEW present,
         \/ GoTo(p, End(k), Freed(k), who, present)
         \/ GoTo(p, End(k), busy, who, present) /\ Flags(k) = {}
  PROVE  ScreenOK'
<1>1. PICK B : /\ GoTo(p, End(k), B, who, present)
               /\ B = Freed(k) \/ (B = busy /\ Flags(k) = {})
  OBVIOUS
<1>. QED  BY <1>1, JobEnds, GoToScreen

LEMMA WatchedList ==
  ASSUME DataOK
  PROVE  query \in Lists /\ InvalidateOrgs \in Lists
  BY CacheTypes DEF DataOK, InvalidateOrgs

LEMMA EnsureReturnsScreen ==
  ASSUME DataOK, ScreenOK, NEW k \in EnsureJobs, EnsureReturns(k),
         job[k].at # "idle", job[k].value \in Orgs \cup SUBSET Orgs
  PROVE  ScreenOK' /\ query' \in Lists
<1>1. CASE k = "auth"
  <2>1. PICK next \in {"dashboard", "projects"} :
          GoTo(next, End("auth"), Freed("auth"), cookie, user # None)
    BY <1>1 DEF EnsureReturns
  <2>2. next \in Pages /\ "auth" \in Jobs
    BY DEF Pages, Dashboard, Jobs, PageJobs
  <2>3. ScreenOK'
    BY <2>1, <2>2, EndsElsewhere
  <2>4. Observe(query)
    BY <1>1 DEF EnsureReturns
  <2>. QED  BY <2>3, <2>4, WatchedList, ObserveTypes
<1>2. CASE k = "me"
  <2>1. Stay(End("me"), busy) /\ Observe(InvalidateOrgs)
    BY <1>2 DEF EnsureReturns
  <2>2. Flags("me") = {} /\ "me" \in Jobs
    BY DEF Flags, Jobs
  <2>. QED  BY <2>1, <2>2, EndsScreen, WatchedList, ObserveTypes
<1>3. CASE k = "bootstrap"
  <2>1. Stay([job EXCEPT !["bootstrap"].at = "refetch"], busy) /\ Observe(InvalidateOrgs)
    BY <1>3 DEF EnsureReturns
  <2>2. "bootstrap" \in Jobs
    BY DEF Jobs, PageJobs
  <2>. QED  BY <1>3, <2>1, <2>2, AwaitsScreen, WatchedList, ObserveTypes
<1>. QED  BY <1>1, <1>2, <1>3 DEF EnsureJobs

LEMMA EnsureGoesOnScreen ==
  ASSUME DataOK, ScreenOK, NEW k \in EnsureJobs, NEW at \in {"createOrg", "relist"},
         job[k].at # "idle", EnsureGoesOn(k, at)
  PROVE  ScreenOK' /\ UNCHANGED <<selected, query>>
<1>1. k \in Jobs /\ at \in Places \ {"idle", "refetch", "register", "login"}
  BY DEF EnsureJobs, Jobs, PageJobs, Places, Requests
<1>2. Stay(Go(k, at), busy) /\ UNCHANGED <<selected, query>>
  BY DEF EnsureGoesOn
<1>. QED  BY <1>1, <1>2, GoesOnScreen

LEMMA EnsureKeepsInv ==
  ASSUME WorkspaceInv, NEW k \in EnsureJobs, EnsureStep(k)
  PROVE  WorkspaceInv'
<1>1. DataOK /\ ScreenOK /\ k \in Jobs
  BY Parts DEF EnsureJobs, Jobs, PageJobs
<1>2. job[k] \in JobType /\ Carries(job[k])
  BY <1>1, JobFacts
<1>3. UNCHANGED <<orgs, cookie, user>>
  BY DEF EnsureStep, EnsureListed, EnsureCreated, EnsureThrows, stores
<1>4. SUFFICES ScreenOK' /\ query' \in Lists /\ selected' \in Orgs \cup {None}
  BY <1>1, <1>3, PartsNext DEF DataOK
<1>5. selected \in Orgs \cup {None} /\ query \in Lists
  BY <1>1 DEF DataOK
<1>6. CASE EnsureListed(k)
  <2>1. job[k].at # "idle" /\ job[k].value \in SUBSET Orgs
    BY <1>2, <1>6 DEF EnsureListed, Answered, Carries
  <2>2. CASE job[k].value = {}
    <3>1. EnsureGoesOn(k, "createOrg")
      BY <1>6, <2>2 DEF EnsureListed
    <3>. QED  BY <1>1, <1>5, <2>1, <3>1, EnsureGoesOnScreen
  <2>3. CASE job[k].value # {}
    <3>1. /\ EnsureReturns(k)
          /\ selected' \in {selected, First(job[k].value)}
      BY <1>6, <2>3 DEF EnsureListed
    <3>2. selected' \in Orgs \cup {None}
      BY <1>5, <2>1, <2>3, <3>1, FirstMember
    <3>. QED  BY <1>1, <2>1, <3>1, <3>2, EnsureReturnsScreen
  <2>. QED  BY <2>2, <2>3
<1>7. CASE EnsureCreated(k)
  <2>1. CASE Answered(k, "createOrg", "ok") /\ selected' = job[k].value /\ EnsureReturns(k)
    <3>1. job[k].at # "idle" /\ job[k].value \in Orgs
      BY <1>2, <2>1 DEF Answered, Carries
    <3>. QED  BY <1>1, <2>1, <3>1, EnsureReturnsScreen
  <2>2. CASE Answered(k, "createOrg", "conflict") /\ EnsureGoesOn(k, "relist")
    BY <1>1, <1>5, <2>2, EnsureGoesOnScreen DEF Answered
  <2>3. CASE /\ Answered(k, "relist", "ok")
             /\ selected' = IF job[k].value = {} THEN selected ELSE First(job[k].value)
             /\ EnsureReturns(k)
    <3>1. job[k].at # "idle" /\ job[k].value \in SUBSET Orgs
      BY <1>2, <2>3 DEF Answered, Carries
    <3>2. selected' \in Orgs \cup {None}
      BY <1>5, <2>3, <3>1, FirstMember
    <3>. QED  BY <1>1, <2>3, <3>1, <3>2, EnsureReturnsScreen
  <2>. QED  BY <1>7, <2>1, <2>2, <2>3 DEF EnsureCreated
<1>8. CASE EnsureThrows(k)
  <2>1. Stay(End(k), Freed(k)) /\ UNCHANGED <<selected, query>>
    BY <1>8 DEF EnsureThrows, stores
  <2>. QED  BY <1>1, <1>5, <2>1, EndsScreen
<1>. QED  BY <1>6, <1>7, <1>8 DEF EnsureStep

LEMMA BootstrapKeepsInv ==
  ASSUME WorkspaceInv, BootstrapDone
  PROVE  WorkspaceInv'
<1>. DEFINE list == job["bootstrap"].value
<1>1. DataOK /\ ScreenOK /\ "bootstrap" \in Jobs
  BY Parts DEF Jobs, PageJobs
<1>2. list \in Orgs \cup SUBSET Orgs
  BY <1>1, JobFacts DEF BootstrapDone, Carries
<1>3. UNCHANGED <<orgs, cookie, user>>
  BY DEF BootstrapDone
<1>4. selected' \in Orgs \cup {None}
  <2>1. selected' = IF list \in Orgs THEN list ELSE IF list = {} THEN selected ELSE First(list)
    BY DEF BootstrapDone
  <2>2. selected \in Orgs \cup {None}
    BY <1>1 DEF DataOK
  <2>3. list \notin Orgs /\ list # {} => First(list) \in Orgs
    BY <1>2, FirstMember
  <2>. HIDE DEF list
  <2>. QED  BY <2>1, <2>2, <2>3
<1>5. Stay(End("bootstrap"), Freed("bootstrap")) /\ Observe(query)
  BY DEF BootstrapDone
<1>6. ScreenOK' /\ query' \in Lists
  BY <1>1, <1>5, EndsScreen, WatchedList, ObserveTypes
<1>. QED  BY <1>1, <1>3, <1>4, <1>6, PartsNext DEF DataOK

LEMMA AccountKeepsInv ==
  ASSUME WorkspaceInv, AccountStep
  PROVE  WorkspaceInv'
<1>1. DataOK /\ ScreenOK /\ {"auth", "me", "logout"} \subseteq Jobs
  BY Parts DEF Jobs, PageJobs
<1>2. ASSUME NEW k \in {"auth", "me", "logout"}
      PROVE  k \in Jobs /\ job \in [Jobs -> JobType] /\ job[k] \in JobType /\ Carries(job[k])
  BY <1>1, JobFacts
<1>3. query \in Lists
  BY <1>1 DEF DataOK
<1>4. CASE Registered
  <2>. DEFINE r == [job["auth"] EXCEPT !.at = "login", !.status = "none"]
  <2>1. /\ job["auth"].at = "register" /\ job["auth"].status = "ok"
        /\ Stay([job EXCEPT !["auth"] = r], busy)
        /\ UNCHANGED <<orgs, cookie, user, selected, query>>
    BY <1>4 DEF Registered, Answered, stores
  <2>2. job["auth"].value \in Users
    BY <1>2, <2>1 DEF Carries
  <2>3. /\ r \in JobType /\ r.at = "login" /\ r.status = "none"
        /\ r.live = job["auth"].live /\ r.value \in Users
    BY <1>2, <2>2 DEF JobType, Places, Requests, Statuses
  <2>. HIDE DEF r
  <2>4. Carries(r)
    BY <2>3 DEF Carries
  <2>5. ScreenOK'
    BY <1>1, <2>1, <2>3, <2>4, JobGoesOn, StayScreen
  <2>. QED  BY <1>1, <2>1, <2>5, PartsNext DEF DataOK
<1>5. CASE LoggedIn
  <2>1. /\ job["auth"].at = "login" /\ job["auth"].status = "ok"
        /\ Stay(Go("auth", "list"), busy)
        /\ cookie' = job["auth"].value /\ user' = job["auth"].value
        /\ UNCHANGED <<orgs, selected, query>>
    BY <1>5 DEF LoggedIn, Answered
  <2>2. job["auth"].value \in Users
    BY <1>2, <2>1 DEF Carries
  <2>3. ScreenOK'
    BY <1>1, <2>1, GoesOnScreen DEF Places, Requests
  <2>. QED  BY <1>1, <2>1, <2>2, <2>3, PartsNext DEF DataOK
<1>6. CASE AuthRefused
  <2>1. Stay(End("auth"), Freed("auth")) /\ UNCHANGED <<orgs, cookie, user, selected, query>>
    BY <1>6 DEF AuthRefused, stores
  <2>. QED  BY <1>1, <2>1, EndsScreen, PartsNext DEF DataOK
<1>7. CASE MeAnswered
  <2>1. /\ job["me"].at = "me" /\ job["me"].status = "ok"
        /\ Stay(Go("me", "list"), busy) \/ Stay(End("me"), busy)
        /\ user' = job["me"].value
        /\ UNCHANGED <<orgs, cookie, selected, query>>
    BY <1>7 DEF MeAnswered, Answered
  <2>2. job["me"].value \in Users /\ Flags("me") = {}
    BY <1>2, <2>1 DEF Carries, Flags
  <2>3. ScreenOK'
    BY <1>1, <2>1, <2>2, GoesOnScreen, EndsScreen DEF Places, Requests
  <2>. QED  BY <1>1, <2>1, <2>2, <2>3, PartsNext DEF DataOK
<1>8. CASE MeRefused
  <2>1. /\ GoTo(SignIn, End("me"), busy, None, FALSE) \/ Stay(End("me"), busy)
        /\ user' = None /\ cookie' = None
        /\ UNCHANGED <<orgs, selected>> /\ Observe(query)
    BY <1>8 DEF MeRefused
  <2>2. Flags("me") = {} /\ SignIn \in Pages
    BY DEF Flags, Pages
  <2>3. ScreenOK'
    BY <1>1, <2>1, <2>2, EndsElsewhere, EndsScreen
  <2>. QED  BY <1>1, <1>3, <2>1, <2>3, ObserveTypes, PartsNext DEF DataOK
<1>9. CASE LogoutAnswered
  <2>1. /\ GoTo(SignIn, End("logout"), busy, None, FALSE)
        /\ user' = None /\ cookie' = None /\ selected' = None
        /\ UNCHANGED orgs /\ Observe(query)
    BY <1>9 DEF LogoutAnswered
  <2>2. Flags("logout") = {} /\ SignIn \in Pages
    BY DEF Flags, Pages
  <2>3. ScreenOK'
    BY <1>1, <2>1, <2>2, EndsElsewhere
  <2>. QED  BY <1>1, <1>3, <2>1, <2>3, ObserveTypes, PartsNext DEF DataOK
<1>. QED  BY <1>4, <1>5, <1>6, <1>7, <1>8, <1>9 DEF AccountStep

LEMMA RefreshOrgsScreen ==
  ASSUME DataOK, ScreenOK, NEW k \in Jobs, job[k].at # "idle", RefreshOrgs(k)
  PROVE  ScreenOK' /\ query' \in Lists
<1>1. Stay([job EXCEPT ![k].at = "refresh"], busy) /\ Observe(InvalidateOrgs)
  BY DEF RefreshOrgs
<1>. QED  BY <1>1, AwaitsScreen, WatchedList, ObserveTypes

LEMMA PageKeepsInv ==
  ASSUME WorkspaceInv, PageStep
  PROVE  WorkspaceInv'
<1>1. DataOK /\ ScreenOK /\ "createOrg" \in Jobs /\ "createProject" \in Jobs
  BY Parts DEF Jobs, PageJobs
<1>2. selected \in Orgs \cup {None} /\ query \in Lists
  BY <1>1 DEF DataOK
<1>3. UNCHANGED <<orgs, cookie, user>>
  BY DEF PageStep, OrgAnswered, ProjectAnswered, stores
<1>4. SUFFICES ScreenOK' /\ query' \in Lists /\ selected' \in Orgs \cup {None}
  BY <1>1, <1>3, PartsNext DEF DataOK
<1>5. CASE OrgAnswered
  <2>1. CASE /\ Answered("createOrg", "createOrg", "ok") /\ selected' = job["createOrg"].value
             /\ RefreshOrgs("createOrg")
    <3>1. job["createOrg"].at # "idle" /\ job["createOrg"].value \in Orgs
      BY <1>1, <2>1, JobFacts DEF Answered, Carries
    <3>. QED  BY <1>1, <2>1, <3>1, RefreshOrgsScreen
  <2>2. CASE /\ Answered("createOrg", "createOrg", "conflict") /\ UNCHANGED selected
             /\ RefreshOrgs("createOrg")
    BY <1>1, <1>2, <2>2, RefreshOrgsScreen DEF Answered
  <2>3. CASE Stay(End("createOrg"), busy) /\ UNCHANGED <<selected, query>>
    BY <1>1, <1>2, <2>3, EndsScreen DEF Flags
  <2>. QED  BY <1>5, <2>1, <2>2, <2>3 DEF OrgAnswered
<1>6. CASE ProjectAnswered
  <2>1. UNCHANGED selected
    BY <1>6 DEF ProjectAnswered, stores
  <2>2. CASE /\ GoTo("dashboard", End("createProject"), Freed("createProject"), cookie, user # None)
             /\ Observe(query)
    <3>1. "dashboard" \in Pages
      BY DEF Pages, Dashboard
    <3>. QED  BY <1>1, <1>2, <2>1, <2>2, <3>1, EndsElsewhere, ObserveTypes
  <2>3. CASE Answered("createProject", "createProject", "membership") /\ RefreshOrgs("createProject")
    BY <1>1, <1>2, <2>1, <2>3, RefreshOrgsScreen DEF Answered
  <2>4. CASE Stay(End("createProject"), Freed("createProject")) /\ UNCHANGED query
    BY <1>1, <1>2, <2>1, <2>4, EndsScreen
  <2>. QED  BY <1>6, <2>2, <2>3, <2>4 DEF ProjectAnswered
<1>. QED  BY <1>5, <1>6 DEF PageStep

LEMMA RefreshedKeepsInv ==
  ASSUME WorkspaceInv, NEW k \in {"createOrg", "createProject"}, Refreshed(k)
  PROVE  WorkspaceInv'
<1>1. DataOK /\ ScreenOK /\ k \in Jobs
  BY Parts DEF Jobs, PageJobs
<1>2. selected \in Orgs \cup {None} /\ query \in Lists
  BY <1>1 DEF DataOK
<1>3. UNCHANGED <<orgs, cookie, user>> /\ job[k].at # "idle"
  BY DEF Refreshed
<1>4. selected' \in Orgs \cup {None}
  BY <1>1, <1>2, OrgListTypes, FirstMember DEF Refreshed
<1>5. CASE Stay(End(k), Freed(k)) /\ (Observe(query) \/ UNCHANGED query)
  <2>1. ScreenOK'
    BY <1>1, <1>5, EndsScreen
  <2>2. query' \in Lists
    BY <1>2, <1>5, ObserveTypes
  <2>. QED  BY <1>1, <1>3, <1>4, <2>1, <2>2, PartsNext DEF DataOK
<1>6. CASE Stay([job EXCEPT ![k].at = "refresh2"], busy) /\ query' = Fetch(query)
  <2>1. ScreenOK'
    BY <1>1, <1>3, <1>6, AwaitsScreen
  <2>2. query' \in Lists
    BY <1>2, <1>6, CacheTypes
  <2>. QED  BY <1>1, <1>3, <1>4, <2>1, <2>2, PartsNext DEF DataOK
<1>. QED  BY <1>5, <1>6 DEF Refreshed

-----------------------------------------------------------------------------
(* The theorems *)

LEMMA StutterKeepsInv ==
  ASSUME WorkspaceInv, UNCHANGED vars
  PROVE  WorkspaceInv'
<1>1. DataOK /\ ScreenOK
  BY Parts
<1>2. UNCHANGED <<orgs, cookie, user, selected, query>> /\ UNCHANGED screen
  BY DEF vars, stores
<1>. QED  BY <1>1, <1>2, ScreenStays, PartsNext DEF DataOK

\* The types, what each job's answer is, that every flag that is set belongs to a job
\* under way of the mounted page, and that a document load verifies no session: an
\* inductive invariant, whatever the users and organizations, the commands, the
\* answers and their order.
THEOREM WorkspaceInvariant == Spec => []WorkspaceInv
<1>1. Init => WorkspaceInv
  BY InitInv
<1>2. WorkspaceInv /\ [Next]_vars => WorkspaceInv'
  <2>. SUFFICES ASSUME WorkspaceInv, [Next]_vars  PROVE WorkspaceInv'
    OBVIOUS
  <2>1. CASE Environment
    <3>1. ASSUME NEW p \in {SignIn} \cup Dashboard, Load(p) \/ Visit(p)  PROVE WorkspaceInv'
      BY <3>1, LoadKeepsInv, VisitKeepsInv DEF Pages
    <3>2. CASE \E o \in Orgs : SelectOrg(o)
      BY <3>2, SelectionKeepsInv
    <3>3. CASE \/ \E u \in Users : LoginForm(u) \/ RegisterForm(u)
               \/ ClickBootstrap \/ SubmitOrg \/ SubmitProject \/ ClickLogout
      BY <3>3, CommandKeepsInv
    <3>. QED  BY <2>1, <3>1, <3>2, <3>3, FetchKeepsInv, SessionLostKeepsInv DEF Environment
  <2>2. CASE JobStep
    BY <2>2, ServerKeepsInv, EnsureKeepsInv, AccountKeepsInv, PageKeepsInv DEF JobStep
  <2>3. CASE ListAwaited
    BY <2>3, BootstrapKeepsInv, RefreshedKeepsInv DEF ListAwaited
  <2>4. CASE FetchStep \/ SyncSelection
    BY <2>4, FetchKeepsInv, SelectionKeepsInv
  <2>5. CASE UNCHANGED vars
    BY <2>5, StutterKeepsInv
  <2>. QED  BY <2>1, <2>2, <2>3, <2>4, <2>5 DEF Next
<1>. QED  BY <1>1, <1>2, PTL DEF Spec

\* Every variable of the tab keeps its type: the selection is an organization or
\* none, whichever answer it was taken from.
THEOREM WorkspaceTypeCorrect == Spec => []TypeOK
<1>1. WorkspaceInv => TypeOK
  BY DEF WorkspaceInv
<1>. QED  BY <1>1, WorkspaceInvariant, PTL

\* The mounted page is busy only while a job of its own is under way
\* (the finally of every handler of the sign-in and projects pages).
THEOREM BusyIsUnderWay == Spec => []BusyHasJob
<1>1. WorkspaceInv => BusyHasJob
  <2>. SUFFICES ASSUME WorkspaceInv  PROVE BusyHasJob
    OBVIOUS
  <2>1. \A k \in Jobs : busy \cap Flags(k) # {} => job[k].at # "idle"
    BY DEF WorkspaceInv, FlagsInv
  <2>2. {"auth", "bootstrap", "createProject"} \subseteq Jobs
    BY DEF Jobs, PageJobs
  <2>3. "submitting" \in Flags("auth") /\ "bootstrapBusy" \in Flags("bootstrap")
        /\ "projectBusy" \in Flags("createProject")
    BY DEF Flags
  <2>. QED  BY <2>1, <2>2, <2>3 DEF BusyHasJob
<1>. QED  BY <1>1, WorkspaceInvariant, PTL

\* A dashboard that came up with the document never verifies its session
\* (auth-bootstrap.tsx:22-27).
THEOREM DocumentIsUnverified == Spec => []OnlyClientArrivalsVerify
<1>1. WorkspaceInv => OnlyClientArrivalsVerify
  BY DEF WorkspaceInv
<1>. QED  BY <1>1, WorkspaceInvariant, PTL
=============================================================================
