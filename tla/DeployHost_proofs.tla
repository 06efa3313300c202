------------------------- MODULE DeployHost_proofs -------------------------
(***************************************************************************)
(* What the runtime agent leaves on the host: a failing build keeps the    *)
(* container in service, and a service reported running runs what it       *)
(* reports; where a single service is deployed, the same for its route.    *)
(* (With more services they remove one another's routes, see               *)
(* OnlyOrphanRoutesRemoved.)                                               *)
(***************************************************************************)
EXTENDS DeployHandOver_proofs

-----------------------------------------------------------------------------
(* What a step of a run does to the host.                                  *)

HostPart == <<host, svcImage>>

\* Only the deploy handler touches the host, before it writes its results; only
\* its last statement touches current_image.
LEMMA HostStep ==
  ASSUME TypeOK, NEW r \in Runs, RunNext(r)
  PROVE  \/ UNCHANGED HostPart
         \/ /\ TaskOf(r) \in DeployTasks /\ pc[r] \notin {"off", "svcRunning", "ack"}
            /\ UNCHANGED svcImage
         \/ DeployServiceRunning(r)
<1>. USE DEF HostPart, host, rows
<1>1. CASE BuildNext(r)
  BY <1>1 DEF BuildNext, BuildLoad, BuildClone, BuildDetect, BuildImage, BuildCommand,
     BuildMarkPushing, BuildPush, BuildSuccess, BuildMarkDeploying, BuildEnqueueDeploy, BuildFail
<1>2. CASE EndNext(r)
  BY <1>2 DEF EndNext, FailDeployment, FailService, Ack, ReturnError,
     ExhaustedFailDeployment, ExhaustedFailService
<1>3. CASE DeployNext(r) /\ ~DeployServiceRunning(r)
  <2>1. pc[r] # "ack" /\ pc[r] # "off"
    BY <1>3, DeployShape DEF RunNext, GoesOn
  <2>2. TaskOf(r) \in DeployTasks /\ UNCHANGED svcImage
    BY <1>3 DEF DeployNext, DeployPull, DeployFreeSlot, DeployRun, DeployRunConflict,
       DeployWriteRoute, DeployRemoveStale, DeployVerify, DeployRemoveOwn,
       DeployMarkRunning, DeployFail, DeployStep
  <2>3. pc[r] # "svcRunning"
    <3>. USE DEF DeployStep, At
    <3>1. CASE DeployPull(r) \/ DeployFreeSlot(r) \/ DeployRun(r) \/ DeployRunConflict(r)
      BY <3>1 DEF DeployPull, DeployFreeSlot, DeployRun, DeployRunConflict
    <3>2. CASE DeployWriteRoute(r) \/ DeployRemoveStale(r) \/ DeployVerify(r)
      BY <3>2 DEF DeployWriteRoute, DeployRemoveStale, DeployVerify, Write, Stale, Verify
    <3>3. CASE DeployRemoveOwn(r) \/ DeployMarkRunning(r) \/ DeployFail(r)
      BY <3>3 DEF DeployRemoveOwn, DeployMarkRunning, DeployFail
    <3>. QED  BY <1>3, <3>1, <3>2, <3>3 DEF DeployNext
  <2>. QED  BY <2>1, <2>2, <2>3
<1>. QED  BY <1>1, <1>2, <1>3 DEF RunNext

\* Containers go by the name of the service.
LEMMA OwnContainer ==
  ASSUME TypeOK, NEW r \in Runs, RunNext(r), NEW u \in Services, u # SvcOf(r)
  PROVE  container'[u] = container[u] /\ started'[u] = started[u]
<1>. USE DEF host, rows, TypeOK, SetContainer
<1>1. CASE ~DeployNext(r)
  BY <1>1, HostStep DEF RunNext, HostPart, DeployNext, DeployStep, BuildNext, EndNext,
     BuildLoad, BuildClone, BuildDetect, BuildImage, BuildCommand,
     BuildMarkPushing, BuildPush, BuildSuccess, BuildMarkDeploying, BuildEnqueueDeploy, BuildFail,
     FailDeployment, FailService, Ack, ReturnError, ExhaustedFailDeployment, ExhaustedFailService
<1>2. CASE DeployPull(r) \/ DeployFreeSlot(r) \/ DeployRun(r) \/ DeployRunConflict(r)
  BY <1>2 DEF DeployPull, DeployFreeSlot, DeployRun, DeployRunConflict
<1>3. CASE DeployWriteRoute(r) \/ DeployRemoveStale(r) \/ DeployVerify(r)
  BY <1>3 DEF DeployWriteRoute, DeployRemoveStale, DeployVerify
<1>4. CASE DeployRemoveOwn(r) \/ DeployMarkRunning(r) \/ DeployServiceRunning(r) \/ DeployFail(r)
  BY <1>4 DEF DeployRemoveOwn, DeployMarkRunning, DeployServiceRunning, DeployFail
<1>. QED  BY <1>1, <1>2, <1>3, <1>4 DEF DeployNext

\* A deploy.run keeps what it has made of the host, up to its end.
LEMMA OwnHost ==
  ASSUME TypeOK, NEW r \in Runs, RunNext(r), HostReady(r)
  PROVE  HostReady(r)'
<1>. DEFINE s == SvcOf(r)
<1>0. s \in Services
  BY RunFacts
<1>. USE <1>0, RunFacts DEF TypeOK, HostReady, Routed, Placed, At, Goto, host, SvcOf, DepOf
<1>1. CASE BuildNext(r)
  <2>1. pc'[r] \notin Placed
    <3>1. \E l \in BuildPCs \cup CommonPCs : BuildStep(r, pc[r], l)
      <4>. USE DEF BuildPCs, CommonPCs, BuildStep, At
      <4>1. CASE BuildLoad(r)
        BY <4>1 DEF BuildLoad
      <4>2. CASE BuildClone(r) \/ BuildDetect(r) \/ BuildImage(r)
        BY <4>2 DEF BuildClone, BuildDetect, BuildImage, BuildCommand
      <4>3. CASE BuildMarkPushing(r) \/ BuildPush(r)
        BY <4>3 DEF BuildMarkPushing, BuildPush
      <4>4. CASE BuildSuccess(r) \/ BuildMarkDeploying(r)
        BY <4>4 DEF BuildSuccess, BuildMarkDeploying
      <4>5. CASE BuildEnqueueDeploy(r) \/ BuildFail(r)
        BY <4>5 DEF BuildEnqueueDeploy, BuildFail
      <4>. QED  BY <1>1, <4>1, <4>2, <4>3, <4>4, <4>5 DEF BuildNext
    <3>. QED  BY <3>1 DEF BuildStep, BuildPCs, CommonPCs
  <2>. QED  BY <2>1
<1>2. CASE EndNext(r)
  <2>1. pc'[r] \notin Placed
    <3>1. CASE FailDeployment(r) \/ FailService(r) \/ Ack(r)
      BY <3>1 DEF FailDeployment, FailService, Ack
    <3>2. CASE ReturnError(r)
      BY <3>2 DEF ReturnError
    <3>3. CASE ExhaustedFailDeployment(r)
      BY <3>3 DEF ExhaustedFailDeployment
    <3>4. CASE ExhaustedFailService(r)
      BY <3>4 DEF ExhaustedFailService
    <3>. QED  BY <1>2, <3>1, <3>2, <3>3, <3>4 DEF EndNext
  <2>. QED  BY <2>1
<1>3. CASE DeployNext(r)
  <2>. USE DEF DeployStep, SetContainer
  <2>1. CASE DeployPull(r) \/ DeployFreeSlot(r) \/ DeployRunConflict(r)
    <3>1. pc'[r] \notin Placed
      BY <2>1 DEF DeployPull, DeployFreeSlot, DeployRunConflict
    <3>. QED  BY <3>1
  <2>2. CASE DeployRun(r)
    BY <2>2, OutcomesAreBooleans DEF DeployRun
  <2>3. CASE DeployWriteRoute(r)
    <3>1. PICK i \in 1 .. 2, done \in BOOLEAN :
            /\ DeployStep(r, Write[i], IF done THEN Stale[i] ELSE AfterSync[i])
            /\ route' = [route EXCEPT ![s] = done \/ @]
            /\ UNCHANGED <<container, started>>
      BY <2>3 DEF DeployWriteRoute
    <3>2. pc[r] \in Placed
      BY <3>1 DEF Write
    <3>3. done \/ pc'[r] \in {"write2", "rmOwn"}
      BY <3>1 DEF AfterSync
    <3>. QED  BY <3>1, <3>2, <3>3
  <2>4. CASE DeployRemoveStale(r)
    <3>1. /\ pc[r] \in {"stale1", "stale2"}
          /\ route' = [u \in Services |-> u = s /\ route[u]]
          /\ UNCHANGED <<container, started>>
      BY <2>4 DEF DeployRemoveStale, Stale
    <3>2. (OneService => route'[s]) /\ container'[s] = DepOf(r) /\ started'[s]
      BY <3>1
    <3>. QED  BY <3>2
  <2>5. CASE DeployVerify(r)
    <3>1. PICK i \in 1 .. 2, done \in CmdOutcome(r) :
            /\ DeployStep(r, Verify[i], IF done THEN "markRunning" ELSE AfterSync[i])
            /\ route' = [route EXCEPT ![s] = done /\ @]
            /\ UNCHANGED <<container, started>>
      BY <2>5 DEF DeployVerify
    <3>2. pc[r] \in Routed
      BY <3>1 DEF Verify
    <3>3. done \/ pc'[r] \in {"write2", "rmOwn"}
      BY <3>1 DEF AfterSync
    <3>. QED  BY <3>1, <3>2, <3>3
  <2>6. CASE DeployRemoveOwn(r) \/ DeployFail(r) \/ DeployServiceRunning(r)
    <3>1. pc'[r] \notin Placed
      BY <2>6 DEF DeployRemoveOwn, DeployFail, DeployServiceRunning
    <3>. QED  BY <3>1
  <2>7. CASE DeployMarkRunning(r)
    BY <2>7 DEF DeployMarkRunning
  <2>. QED  BY <1>3, <2>1, <2>2, <2>3, <2>4, <2>5, <2>6, <2>7 DEF DeployNext
<1>. QED  BY <1>1, <1>2, <1>3 DEF RunNext

-----------------------------------------------------------------------------
(* Tasks only go on: what a step does to a task that is not its own.       *)

\* An acknowledged task stays done.
Acknowledged(t) ==
  /\ taskState[t] = "done" => taskState'[t] = "done"
  /\ TaskAt(t, {"ack"}) =>
       \/ taskState'[t] = "done"
       \/ taskState'[t] = "active" /\ pc'[<<t, starts'[t]>>] = "ack"

\* Nothing that was enqueued is new again, and nothing that is done is done again.
Forward ==
  \A t \in Tasks :
    /\ taskState'[t] = "absent" => taskState[t] = "absent"
    /\ Acknowledged(t)

\* The same until a restart gives a job of a deployment back, and what has been
\* given back stays so.
Kept ==
  /\ \A t \in Tasks : taskState'[t] = "absent" => taskState[t] = "absent"
  /\ \A d \in Deployments : ~Redelivered(d)' =>
       ~Redelivered(d) /\ \A t \in TasksOf(d) : Acknowledged(t)

LEMMA ReqForward ==
  ASSUME TypeOK, RunsInv, NEW d \in Deployments, ReqNext(d)
  PROVE  Forward /\ UNCHANGED <<pc, starts, HostPart>>
<1>1. CASE ReqEnqueue(d)
  <2>1. /\ taskState' = [taskState EXCEPT ![BuildTask(d)] = "pending"]
        /\ taskState[BuildTask(d)] = "absent"
        /\ UNCHANGED <<pc, starts, HostPart>>
    BY <1>1 DEF ReqEnqueue, ReqStep, ReqActive, RunsInv, FreshTasks, HostPart, rows
  <2>. QED  BY <2>1 DEF Forward, Acknowledged, TaskAt, TypeOK
<1>2. CASE ~ReqEnqueue(d)
  <2>1. UNCHANGED <<taskState, pc, starts, HostPart>>
    BY <1>2 DEF ReqNext, ReqInsertDeployment, ReqInsertBuild, ReqMarkBuilding, ReqMarkService,
       ReqAbort, HostPart, rows, queue
  <2>. QED  BY <2>1 DEF Forward, Acknowledged, TaskAt
<1>. QED  BY <1>1, <1>2

LEMMA StartForward ==
  ASSUME TypeOK, RunsInv, NEW t \in Tasks, Start(t)
  PROVE  /\ Forward
         /\ UNCHANGED HostPart
         /\ \A q \in Runs : pc'[q] = pc[q] \/ pc'[q] \in {"load", "pull"}
<1>. DEFINE n == starts[t] + 1
<1>1. /\ taskState[t] \in {"pending", "retry"}
      /\ taskState' = [taskState EXCEPT ![t] = "active"]
      /\ starts' = [starts EXCEPT ![t] = n]
      /\ pc' = [pc EXCEPT ![<<t, n>>] = FirstStep(t)]
      /\ UNCHANGED HostPart
  BY StartFacts DEF HostPart, rows
<1>. HIDE DEF n
<1>2. ASSUME NEW u \in Tasks, TaskAt(u, {"ack"})
      PROVE  taskState'[u] = "active" /\ pc'[<<u, starts'[u]>>] = "ack"
  <2>1. u # t /\ <<u, starts[u]>> \in Runs
    BY <1>1, <1>2, RunOfTask DEF TaskAt, RunsInv, ActiveHasRun
  <2>. QED  BY <1>1, <1>2, <2>1 DEF TaskAt, TypeOK
<1>3. Forward
  BY <1>1, <1>2 DEF Forward, Acknowledged, TypeOK
<1>. QED  BY <1>1, <1>3 DEF FirstStep, TypeOK

LEMMA RunForward ==
  ASSUME TypeOK, RunsInv, NEW r \in Runs, RunNext(r)
  PROVE  /\ Forward
         /\ \A q \in Runs \ {r} : pc'[q] = pc[q]
<1>1. HandsOver(r) \/ Ends(r) \/ \E l : GoesOn(r, l)
  BY RunShape
<1>2. taskState[TaskOf(r)] = "active" /\ r = <<TaskOf(r), starts[TaskOf(r)]>>
  BY BuildRunFacts DEF RunNext
<1>3. \A q \in Runs \ {r} : pc'[q] = pc[q]
  BY <1>1 DEF HandsOver, Ends, GoesOn, Goto, TypeOK
<1>4. ASSUME NEW t \in Tasks
      PROVE  /\ taskState'[t] = "absent" => taskState[t] = "absent"
             /\ Acknowledged(t)
  <2>. USE DEF Acknowledged
  <2>1. CASE t # TaskOf(r)
    BY <2>1, OtherTasks DEF TaskAt
  <2>2. CASE t = TaskOf(r) /\ HandsOver(r)
    <3>. DEFINE u == DeployTask(DepOf(r), r[2])
    <3>1. t # u /\ taskState' = [taskState EXCEPT ![u] = "pending"] /\ pc[r] = "enqueue"
      BY <2>2, RunFacts, TaskFacts DEF HandsOver
    <3>. HIDE DEF u
    <3>. QED  BY <1>2, <2>2, <3>1 DEF TaskAt, TypeOK
  <2>3. CASE t = TaskOf(r) /\ Ends(r)
    BY <1>2, <2>3 DEF Ends, TaskAt
  <2>4. CASE t = TaskOf(r) /\ \E l : GoesOn(r, l)
    BY <1>2, <2>4 DEF GoesOn, TaskAt, queue
  <2>. QED  BY <1>1, <2>1, <2>2, <2>3, <2>4
<1>. QED  BY <1>3, <1>4 DEF Forward, Acknowledged

-----------------------------------------------------------------------------
(* A failing build keeps the version in service.                           *)

LEMMA InitKeep == Init => KeepInv
  BY RunFacts
  DEF Init, KeepInv, HostReady, Placed, Routed, InService, BuildFailureKeepsPrevious

\* What is given back stays given back.
LEMMA StepKept ==
  ASSUME TypeOK, RunsInv, ~Timeouts, ~Crashes, [Next]_vars, Forward
  PROVE  Kept
  BY RedeliveredGrows, TasksOfFacts DEF Forward, Kept

\* A restart touches no other deployment, and nothing on the host.
LEMMA RestartKept ==
  ASSUME TypeOK, HandOverInv, ~Timeouts, ~Crashes,
         NEW kind \in {"build", "deploy"}, Restart(kind)
  PROVE  Kept /\ UNCHANGED HostPart /\ \A r \in Runs : HostReady(r) => HostReady(r)'
<1>1. \A t \in Tasks : taskState'[t] = "absent" => taskState[t] = "absent"
  BY RestartFacts DEF HandOverInv
<1>2. ASSUME NEW d \in Deployments, ~Redelivered(d)', NEW t \in TasksOf(d)
      PROVE  ~Redelivered(d) /\ Acknowledged(t)
  <2>1. ~Redelivered(d)
    BY <1>2, RedeliveredGrows DEF HandOverInv, Next
  <2>2. /\ \A u \in TasksOf(d) : taskState'[u] = taskState[u] /\ starts'[u] = starts[u]
        /\ \A r \in Runs : DepOf(r) = d => pc'[r] = pc[r]
    BY <1>2, RestartGivesBack DEF HandOverInv
  <2>3. TaskAt(t, {"ack"})' <=> TaskAt(t, {"ack"})
    <3>1. ASSUME NEW places  PROVE TaskAt(t, places)' <=> TaskAt(t, places)
      BY <1>2, <2>2, OthersAt DEF HandOverInv
    <3>. QED  BY <3>1 DEF TaskAt
  <2>. QED  BY <1>2, <2>1, <2>2, <2>3 DEF Acknowledged, TaskAt
<1>3. Kept
  <2>1. \A d \in Deployments : ~Redelivered(d)' => ~Redelivered(d)
    BY RedeliveredGrows DEF HandOverInv, Next
  <2>. QED  BY <1>1, <1>2, <2>1 DEF Kept
<1>4. UNCHANGED HostPart /\ \A r \in Runs : pc'[r] \in {"off", pc[r]}
  BY DEF Restart, HostPart, rows
<1>5. \A r \in Runs : HostReady(r) => HostReady(r)'
  BY <1>4 DEF HostReady, Placed, Routed, HostPart, host
<1>. QED  BY <1>3, <1>4, <1>5

\* Nobody who interferes goes away.
LEMMA UndisturbedBefore ==
  ASSUME Kept, NEW d \in Deployments, Undisturbed(d)'
  PROVE  Undisturbed(d)
  BY TaskFacts DEF Undisturbed, Alone, Kept

\* A version in service stays one its deploy.run is done with.
LEMMA StaysInService ==
  ASSUME Kept, NEW s \in Services, svcImage[s] \in Deployments, InService(s),
         svcImage'[s] = svcImage[s]
  PROVE  InService(s)'
<1>1. PICK d \in Deployments : svcImage[s] = d /\ svcImage'[s] = d
  OBVIOUS
<1>2. ASSUME d # NoImage, ~Redelivered(d)'
      PROVE  \E n \in Deliveries :
               \/ taskState'[DeployTask(d, n)] = "done"
               \/ TaskAt(DeployTask(d, n), {"ack"})'
  <2>1. ~Redelivered(d) /\ \A t \in TasksOf(d) : Acknowledged(t)
    BY <1>2 DEF Kept
  <2>2. PICK n \in Deliveries :
          taskState[DeployTask(d, n)] = "done" \/ TaskAt(DeployTask(d, n), {"ack"})
    BY <1>1, <1>2, <2>1 DEF InService
  <2>3. Acknowledged(DeployTask(d, n))
    BY <2>1, TasksOfFacts
  <2>. QED  BY <2>2, <2>3 DEF Acknowledged, TaskAt
<1>. QED  BY <1>1, <1>2 DEF InService

\* Steps of the queue, of requests and restarts, and those of runs that leave the
\* host alone.
LEMMA KeepFrame ==
  ASSUME TypeOK, KeepInv, Kept, UNCHANGED HostPart,
         \A r \in Runs : HostReady(r) => HostReady(r)'
  PROVE  KeepInv'
<1>1. \A r \in Runs : Undisturbed(DepOf(r))' => HostReady(r)'
  BY UndisturbedBefore, RunFacts DEF KeepInv
<1>2. ASSUME NEW s \in Services
      PROVE  /\ InService(s)'
             /\ svcImage'[s] # NoImage /\ Undisturbed(svcImage[s])' => Served(s)'
  <2>. SUFFICES ASSUME svcImage[s] # NoImage
                PROVE  InService(s)' /\ (Undisturbed(svcImage[s])' => Served(s)')
    BY DEF InService, HostPart
  <2>1. svcImage[s] \in Deployments /\ InService(s) /\ (Undisturbed(svcImage[s]) => Served(s))
    BY DEF KeepInv, TypeOK
  <2>2. InService(s)'
    BY <2>1, StaysInService DEF HostPart
  <2>3. Undisturbed(svcImage[s])' => Served(s)'
    BY <2>1, UndisturbedBefore DEF Served, HostPart, host
  <2>. QED  BY <2>2, <2>3
<1>. QED  BY <1>1, <1>2 DEF KeepInv, HostPart

\* Another run at work on the host belongs to another deployment.
LEMMA OneAtWork ==
  ASSUME TypeOK, RunsInv, NEW r \in Runs, NEW q \in Runs, q # r, OneHandOver(DepOf(r)),
         pc[r] # "off", pc[q] # "off", TaskOf(r) \in DeployTasks, TaskOf(q) \in DeployTasks
  PROVE  DepOf(q) # DepOf(r)
<1>. SUFFICES ASSUME DepOf(q) = DepOf(r)  PROVE FALSE
  OBVIOUS
<1>1. PICK n \in Deliveries : TaskOf(r) = DeployTask(DepOf(r), n)
  BY RunFacts
<1>2. PICK m \in Deliveries : TaskOf(q) = DeployTask(DepOf(r), m)
  BY RunFacts
<1>3. /\ taskState[TaskOf(r)] = "active" /\ r = <<TaskOf(r), starts[TaskOf(r)]>>
      /\ taskState[TaskOf(q)] = "active" /\ q = <<TaskOf(q), starts[TaskOf(q)]>>
  BY BuildRunFacts
<1>4. m = n
  BY <1>1, <1>2, <1>3 DEF OneHandOver
<1>. QED  BY <1>1, <1>2, <1>3, <1>4

LEMMA PlacedIsDeploy ==
  ASSUME TypeOK, NEW r \in Runs, pc[r] \in Placed
  PROVE  TaskOf(r) \in DeployTasks /\ pc[r] # "off"
  BY RunFacts, TaskFacts DEF TypeOK, Placed, DeployPCs, Tasks

\* A step of the deploy handler on the host, before it writes its results.
LEMMA WorkKeep ==
  ASSUME TypeOK, HandOverInv, KeepInv, Kept, NEW r \in Runs, RunNext(r),
         TaskOf(r) \in DeployTasks, pc[r] \notin {"off", "svcRunning", "ack"}, UNCHANGED svcImage
  PROVE  KeepInv'
<1>1. /\ RunsInv /\ \A q \in Runs \ {r} : pc'[q] = pc[q]
      /\ DepOf(r) \in Deployments /\ SvcOf(r) \in Services /\ ServiceOf[DepOf(r)] = SvcOf(r)
  BY RunForward, RunFacts, PipelineAssumption DEF HandOverInv, SvcOf
<1>2. PICK n \in Deliveries : TaskOf(r) = DeployTask(DepOf(r), n)
  BY RunFacts
<1>3. taskState[TaskOf(r)] = "active" /\ r = <<TaskOf(r), starts[TaskOf(r)]>>
  BY <1>1, BuildRunFacts
<1>4. \A d \in Deployments : Undisturbed(d) /\ ServiceOf[d] = SvcOf(r) =>
        d = DepOf(r) /\ OneHandOver(d)
  BY <1>1, <1>2, <1>3 DEF Undisturbed, Alone, HandOverInv, HandedOver
<1>5. \A s \in Services \ {SvcOf(r)} :
        container'[s] = container[s] /\ started'[s] = started[s] /\ ~OneService
  BY <1>1, OwnContainer DEF OneService
<1>6. ASSUME NEW q \in Runs, Undisturbed(DepOf(q))'  PROVE HostReady(q)'
  <2>1. HostReady(q) /\ SvcOf(q) \in Services /\ DepOf(q) \in Deployments /\ Undisturbed(DepOf(q))
    BY <1>6, UndisturbedBefore, RunFacts DEF KeepInv
  <2>2. CASE q = r
    BY <2>1, <2>2, OwnHost
  <2>3. CASE q # r /\ SvcOf(q) # SvcOf(r)
    BY <1>1, <1>5, <2>1, <2>3 DEF HostReady
  <2>4. CASE q # r /\ SvcOf(q) = SvcOf(r)
    <3>1. DepOf(q) = DepOf(r) /\ OneHandOver(DepOf(r))
      BY <1>4, <2>1, <2>4 DEF SvcOf
    <3>2. pc'[q] \notin Placed
      BY <1>1, <2>4, <3>1, PlacedIsDeploy, OneAtWork
    <3>. QED  BY <3>2 DEF HostReady, Routed
  <2>. QED  BY <2>2, <2>3, <2>4
<1>7. ASSUME NEW s \in Services, svcImage[s] # NoImage
      PROVE  InService(s)' /\ (Undisturbed(svcImage[s])' => Served(s)')
  <2>1. svcImage[s] \in Deployments /\ InService(s) /\ (Undisturbed(svcImage[s]) => Served(s))
    BY <1>7 DEF KeepInv, TypeOK
  <2>2. InService(s)'
    BY <2>1, StaysInService
  <2>3. Undisturbed(svcImage[s])' => Undisturbed(svcImage[s])
    BY <2>1, UndisturbedBefore
  <2>4. CASE s # SvcOf(r)
    BY <1>5, <2>1, <2>2, <2>3, <2>4 DEF Served
  <2>5. CASE s = SvcOf(r)
    <3>. SUFFICES ASSUME Undisturbed(svcImage[s])  PROVE FALSE
      BY <2>2, <2>3
    <3>1. svcImage[s] = DepOf(r) /\ OneHandOver(DepOf(r)) /\ ~Redelivered(svcImage[s])
      BY <1>4, <1>7, <2>1, <2>5 DEF InService, Undisturbed
    <3>2. PICK m \in Deliveries :
            \/ taskState[DeployTask(DepOf(r), m)] = "done"
            \/ TaskAt(DeployTask(DepOf(r), m), {"ack"})
      BY <1>7, <2>1, <3>1 DEF InService
    <3>3. m = n
      BY <1>2, <1>3, <3>1, <3>2 DEF OneHandOver, TaskAt
    <3>. QED  BY <1>2, <1>3, <3>2, <3>3 DEF TaskAt
  <2>. QED  BY <2>4, <2>5
<1>. QED  BY <1>6, <1>7 DEF KeepInv, InService

\* The last statement of the deploy handler puts its version into service.
LEMMA ServiceRunningKeep ==
  ASSUME TypeOK, RunsInv, KeepInv, Kept, NEW r \in Runs, RunNext(r), DeployServiceRunning(r)
  PROVE  KeepInv'
<1>. DEFINE d == DepOf(r)
           s == SvcOf(r)
<1>1. /\ d \in Deployments /\ s \in Services /\ ServiceOf[d] = s
      /\ d # NoImage /\ \A q \in Runs \ {r} : pc'[q] = pc[q]
  BY RunForward, RunFacts, PipelineAssumption DEF SvcOf
<1>2. /\ pc[r] = "svcRunning" /\ pc'[r] = "ack" /\ TaskOf(r) \in DeployTasks
      /\ UNCHANGED <<host, taskState, starts>>
      /\ svcImage' = [svcImage EXCEPT ![s] = d] \/ svcImage' = svcImage
  BY OutcomesAreBooleans
  DEF DeployServiceRunning, DeployStep, At, Goto, TypeOK, queue, host
<1>3. \A q \in Runs : HostReady(q) => HostReady(q)'
  <2>. SUFFICES ASSUME NEW q \in Runs, HostReady(q)  PROVE HostReady(q)'
    OBVIOUS
  <2>1. CASE q = r
    BY <2>1, OwnHost
  <2>2. CASE q # r
    BY <1>1, <1>2, <2>2 DEF HostReady, host
  <2>. QED  BY <2>1, <2>2
<1>4. CASE svcImage' = svcImage
  BY <1>1, <1>2, <1>3, <1>4, KeepFrame DEF HostPart
<1>5. CASE svcImage' = [svcImage EXCEPT ![s] = d]
  <2>1. ASSUME NEW u \in Services
        PROVE  InService(u)' /\ (svcImage[u] # NoImage /\ Undisturbed(svcImage[u]) => Served(u))'
    <3>1. CASE u # s /\ svcImage[u] # NoImage
      <4>1. /\ svcImage'[u] = svcImage[u] /\ svcImage[u] \in Deployments
            /\ InService(u) /\ (Undisturbed(svcImage[u]) => Served(u))
        BY <1>5, <3>1 DEF KeepInv, TypeOK
      <4>2. InService(u)'
        BY <4>1, StaysInService
      <4>3. Undisturbed(svcImage[u])' => Undisturbed(svcImage[u])
        BY <4>1, UndisturbedBefore
      <4>. QED  BY <1>2, <4>1, <4>2, <4>3 DEF Served, host
    <3>2. CASE u # s /\ svcImage[u] = NoImage
      BY <1>5, <3>2 DEF InService, TypeOK
    <3>3. CASE u = s
      <4>1. PICK n \in Deliveries : TaskOf(r) = DeployTask(d, n)
        BY <1>2, RunFacts
      <4>2. taskState'[TaskOf(r)] = "active" /\ pc'[<<TaskOf(r), starts'[TaskOf(r)]>>] = "ack"
        BY <1>1, <1>2, BuildRunFacts
      <4>3. svcImage'[s] = d
        BY <1>1, <1>5 DEF TypeOK
      <4>4. InService(s)'
        BY <1>1, <4>1, <4>2, <4>3 DEF InService, TaskAt
      <4>5. Undisturbed(d) => Served(s)'
        BY <1>1, <1>2, <4>3 DEF KeepInv, HostReady, Placed, Routed, Served, host
      <4>6. Undisturbed(d)' => Undisturbed(d)
        BY <1>1, UndisturbedBefore
      <4>. QED  BY <3>3, <4>3, <4>4, <4>5, <4>6
    <3>. QED  BY <3>1, <3>2, <3>3
  <2>2. \A q \in Runs : Undisturbed(DepOf(q))' => HostReady(q)'
    BY <1>3, UndisturbedBefore, RunFacts DEF KeepInv
  <2>. QED  BY <2>1, <2>2 DEF KeepInv
<1>. QED  BY <1>2, <1>4, <1>5

LEMMA RunKeep ==
  ASSUME TypeOK, HandOverInv, KeepInv, Kept, NEW r \in Runs, RunNext(r)
  PROVE  KeepInv'
<1>1. CASE UNCHANGED HostPart
  <2>1. \A q \in Runs \ {r} : pc'[q] = pc[q]
    BY RunForward DEF HandOverInv
  <2>2. ASSUME NEW q \in Runs, HostReady(q)  PROVE HostReady(q)'
    <3>1. CASE q = r
      BY <2>2, <3>1, OwnHost
    <3>2. CASE q # r
      BY <1>1, <2>1, <2>2, <3>2 DEF HostReady, HostPart, host
    <3>. QED  BY <3>1, <3>2
  <2>. QED  BY <1>1, <2>2, KeepFrame
<1>. QED  BY <1>1, HostStep, WorkKeep, ServiceRunningKeep DEF HandOverInv

\* Without crashes and timeouts, whatever else fails and however often workers are
\* restarted: what a deploy.run that is alone with its service, and a current_image
\* that nobody is about to replace, find on the host, until a restart gives back a
\* job of theirs.
THEOREM KeepInvariant == ~Timeouts /\ ~Crashes => (Spec => []KeepInv)
<1>. SUFFICES ASSUME ~Timeouts, ~Crashes  PROVE Spec => []KeepInv
  OBVIOUS
<1>1. Spec => []HandOverInv
  BY HandOverInvariant
<1>2. TypeOK /\ HandOverInv /\ KeepInv /\ [Next]_vars => KeepInv'
  <2>. SUFFICES ASSUME TypeOK, HandOverInv, KeepInv, [Next]_vars  PROVE KeepInv'
    OBVIOUS
  <2>1. RunsInv /\ (Forward => Kept)
    BY StepKept DEF HandOverInv
  <2>2. CASE UNCHANGED vars
    <3>1. Forward /\ UNCHANGED HostPart /\ \A r \in Runs : HostReady(r) => HostReady(r)'
      BY <2>2 DEF Forward, Acknowledged, TaskAt, HostPart, HostReady, vars, rows, queue, host
    <3>. QED  BY <2>1, <3>1, KeepFrame
  <2>3. CASE \E d \in Deployments : ReqNext(d)
    <3>1. Forward /\ UNCHANGED <<pc, HostPart>>
      BY <2>1, <2>3, ReqForward
    <3>2. \A r \in Runs : HostReady(r) => HostReady(r)'
      BY <3>1 DEF HostReady, HostPart, host
    <3>. QED  BY <2>1, <3>1, <3>2, KeepFrame
  <2>4. CASE \E t \in Tasks : QueueNext(t)
    <3>. PICK t \in Tasks : Start(t)
      BY <2>1, <2>4, QueueRuns
    <3>1. /\ Forward /\ UNCHANGED HostPart
          /\ \A q \in Runs : pc'[q] = pc[q] \/ pc'[q] \in {"load", "pull"}
      BY <2>1, StartForward
    <3>2. \A q \in Runs : HostReady(q) => HostReady(q)'
      BY <3>1 DEF HostReady, Placed, Routed, HostPart, host
    <3>. QED  BY <2>1, <3>1, <3>2, KeepFrame
  <2>5. CASE \E kind \in {"build", "deploy"} : Restart(kind) \/ Crash(kind)
    BY <2>5, RestartKept, KeepFrame DEF Crash
  <2>6. CASE \E r \in Runs : RunNext(r)
    BY <2>1, <2>6, RunForward, RunKeep
  <2>. QED  BY <2>2, <2>3, <2>4, <2>5, <2>6 DEF Next
<1>. QED  BY <1>1, <1>2, InitKeep, TypeCorrect, PTL DEF Spec

\* As long as no other deployment of its service reaches the runtime agent, and no
\* restart gives back a job of its own, the version in service keeps its container,
\* whatever the other services on the host do, for any number of overlapping
\* deployments, failing builds, retries and restarts.
THEOREM FailedBuildKeepsContainer ==
  ~Timeouts /\ ~Crashes => (Spec => [](\A s \in Services :
    svcImage[s] # NoImage /\ Undisturbed(svcImage[s])
      => container[s] = svcImage[s] /\ started[s]))
<1>1. KeepInv => \A s \in Services :
        svcImage[s] # NoImage /\ Undisturbed(svcImage[s])
          => container[s] = svcImage[s] /\ started[s]
  BY DEF KeepInv, Served
<1>. QED  BY <1>1, KeepInvariant, PTL

\* On a host that serves one service it keeps its route, too.
THEOREM FailedBuildKeepsService ==
  OneService /\ ~Timeouts /\ ~Crashes => (Spec => []BuildFailureKeepsPrevious)
<1>. SUFFICES ASSUME OneService, ~Timeouts, ~Crashes
              PROVE  Spec => []BuildFailureKeepsPrevious
  OBVIOUS
<1>1. KeepInv => BuildFailureKeepsPrevious
  <2>. SUFFICES ASSUME KeepInv, NEW s \in Services, svcImage[s] # NoImage,
                       ~Redelivered(svcImage[s]),
                       \A d \in Deployments \ {svcImage[s]}, n \in Deliveries :
                         ServiceOf[d] = s => taskState[DeployTask(d, n)] = "absent"
                PROVE  container[s] = svcImage[s] /\ started[s] /\ route[s]
    BY DEF BuildFailureKeepsPrevious
  <2>. QED  BY DEF KeepInv, InService, Undisturbed, Alone, Served
<1>2. Spec => []KeepInv
  BY KeepInvariant
<1>. QED  BY <1>1, <1>2, PTL

-----------------------------------------------------------------------------
(* A service reported running runs what it reports.                        *)

LEMMA NoWorkFacts ==
  ASSUME NEW d \in Deployments
  PROVE  /\ TasksOf(d) \subseteq Tasks
         /\ NoWork(d) <=> req[d] \notin ReqActive /\ \A t \in TasksOf(d) : TaskIdle(t)
  BY TaskFacts DEF TasksOf, NoWork

\* A step of a run leaves the other deployments' tasks alone.
LEMMA OthersUntouched ==
  ASSUME TypeOK, RunsInv, NEW r \in Runs, RunNext(r),
         NEW d \in Deployments \ {DepOf(r)}, NEW t \in TasksOf(d)
  PROVE  /\ taskState'[t] = taskState[t] /\ starts'[t] = starts[t]
         /\ taskState[t] = "active" => pc'[<<t, starts[t]>>] = pc[<<t, starts[t]>>]
<1>1. t \in Tasks /\ t # TaskOf(r)
  BY NoWorkFacts, TasksApart DEF TasksOf
<1>2. CASE HandsOver(r)
  <2>1. t # DeployTask(DepOf(r), r[2])
    BY DEF TasksOf, BuildTask, DeployTask
  <2>. QED  BY <1>1, <1>2, <2>1, OtherTasks DEF HandsOver, TypeOK
<1>3. CASE Ends(r)
  BY <1>1, <1>3, OtherTasks DEF Ends, TypeOK
<1>4. CASE \E l : GoesOn(r, l)
  BY <1>1, <1>4, OtherTasks DEF GoesOn, queue
<1>. QED  BY <1>2, <1>3, <1>4, RunShape

\* The deployment of a run is worked on.
LEMMA RunIsWork ==
  ASSUME TypeOK, RunsInv, NEW r \in Runs, pc[r] # "off"
  PROVE  TaskOf(r) \in TasksOf(DepOf(r)) /\ taskState[TaskOf(r)] = "active" /\ ~NoWork(DepOf(r))
<1>1. TaskOf(r) \in TasksOf(DepOf(r)) /\ DepOf(r) \in Deployments
  BY RunFacts DEF TasksOf, Tasks
<1>2. taskState[TaskOf(r)] = "active"
  BY BuildRunFacts
<1>. QED  BY <1>1, <1>2, NoWorkFacts DEF TaskIdle, InFlight

LEMMA RunKeepsNoWork ==
  ASSUME TypeOK, RunsInv, NEW r \in Runs, RunNext(r), NEW d \in Deployments, NoWork(d)
  PROVE  NoWork(d)'
<1>1. d # DepOf(r)
  BY RunIsWork DEF RunNext
<1>2. req' = req
  BY RunShape DEF HandsOver, Ends, GoesOn
<1>3. \A t \in TasksOf(d) : TaskIdle(t) => TaskIdle(t)'
  BY <1>1, OthersUntouched DEF TaskIdle
<1>4. (\A t \in TasksOf(d) : TaskIdle(t))' => NoWork(d)' \/ req'[d] \in ReqActive
  BY DEF NoWork, TasksOf
<1>. QED  BY <1>2, <1>3, <1>4, NoWorkFacts DEF TasksOf

ServiceQuiet(s) == ShownWhenServed(s) /\ ShownIsServed(s) /\ RunsReady(s)

LEMMA ReqQuiet ==
  ASSUME RequestPolicy = "quiet", ~ApiAborts, TypeOK, RunsInv, OneAtATime,
         NEW d \in Deployments, ReqNext(d)
  PROVE  OneAtATime' /\ \A s \in Services : ServiceQuiet(s) => ServiceQuiet(s)'
<1>1. /\ \A e \in Deployments \ {d} :
           /\ req'[e] = req[e]
           /\ \A t \in TasksOf(e) : taskState'[t] = taskState[t]
      /\ UNCHANGED <<pc, starts, HostPart>>
      /\ \A s \in Services : svcStatus'[s] = "running" => svcStatus[s] = "running"
  <2>1. \A e \in Deployments \ {d} : BuildTask(d) \notin TasksOf(e)
    BY DEF TasksOf, BuildTask, DeployTask
  <2>2. \A e \in Deployments : TasksOf(e) \subseteq Tasks
    BY NoWorkFacts
  <2>3. UNCHANGED <<pc, starts, HostPart>>
    BY ReqForward
  <2>4. \A e \in Deployments \ {d} : req'[e] = req[e]
    BY DEF ReqNext, ReqInsertDeployment, ReqInsertBuild, ReqMarkBuilding, ReqMarkService,
       ReqEnqueue, ReqAbort, ReqStep, TypeOK
  <2>5. \A t \in Tasks \ {BuildTask(d)} : taskState'[t] = taskState[t]
    BY DEF ReqNext, ReqInsertDeployment, ReqInsertBuild, ReqMarkBuilding, ReqMarkService,
       ReqEnqueue, ReqAbort, queue, TypeOK
  <2>6. \A s \in Services : svcStatus'[s] = "running" => svcStatus[s] = "running"
    BY DEF ReqNext, ReqInsertDeployment, ReqInsertBuild, ReqMarkBuilding, ReqMarkService,
       ReqEnqueue, ReqAbort, UpdateService, rows, TypeOK
  <2>. QED  BY <2>1, <2>2, <2>3, <2>4, <2>5, <2>6
<1>2. \A e \in Deployments \ {d} : NoWork(e)' <=> NoWork(e)
  BY <1>1 DEF NoWork, TaskIdle, TasksOf
<1>3. \A e \in Deployments \ {d} : ServiceOf[e] = ServiceOf[d] => NoWork(e)
  <2>1. CASE ReqInsertDeployment(d)
    BY <2>1 DEF ReqInsertDeployment, ClientMayDeploy
  <2>2. CASE ~ReqInsertDeployment(d)
    <3>1. ~NoWork(d)
      BY <2>2 DEF ReqNext, ReqInsertBuild, ReqMarkBuilding, ReqMarkService, ReqEnqueue,
         ReqAbort, ReqStep, ReqActive, NoWork
    <3>. QED  BY <3>1 DEF OneAtATime
  <2>. QED  BY <2>1, <2>2
<1>4. OneAtATime'
  BY <1>2, <1>3 DEF OneAtATime
<1>5. ASSUME NEW s \in Services, ServiceQuiet(s)  PROVE ServiceQuiet(s)'
  <2>1. ShownWhenServed(s)'
    <3>. SUFFICES ASSUME NEW e \in Deployments, svcStatus'[s] = "running", ServiceOf[e] = s
                  PROVE  /\ req'[e] # "svcMarked"
                         /\ \A t \in TasksOf(e) : (TaskIdle(t) \/ TaskAt(t, {"ack"}))'
      BY DEF ShownWhenServed, TasksOf
    <3>1. /\ svcStatus[s] = "running" /\ req[e] # "svcMarked"
          /\ \A t \in TasksOf(e) : TaskIdle(t) \/ TaskAt(t, {"ack"})
      BY <1>1, <1>5 DEF ServiceQuiet, ShownWhenServed
    <3>2. CASE e # d
      BY <1>1, <3>1, <3>2 DEF TaskIdle, TaskAt
    <3>3. CASE e = d
      <4>1. ~ReqMarkService(d)
        BY <3>3 DEF ReqMarkService, UpdateService, TypeOK
      <4>2. req'[d] # "svcMarked" /\ UNCHANGED taskState
        BY <3>1, <3>3, <4>1
        DEF ReqNext, ReqInsertDeployment, ReqInsertBuild, ReqMarkBuilding, ReqEnqueue,
            ReqAbort, ReqStep, queue, TypeOK
      <4>. QED  BY <1>1, <3>1, <3>3, <4>2 DEF TaskIdle, TaskAt
    <3>. QED  BY <3>2, <3>3
  <2>2. RunsReady(s)'
    BY <1>1, <1>5 DEF ServiceQuiet, RunsReady, HostReady, HostPart, host
  <2>3. ShownIsServed(s)'
    BY <1>1, <1>5 DEF ServiceQuiet, ShownIsServed, Served, HostPart, host
  <2>. QED  BY <2>1, <2>2, <2>3 DEF ServiceQuiet
<1>. QED  BY <1>4, <1>5

LEMMA StartQuiet ==
  ASSUME TypeOK, RunsInv, OneAtATime, NEW u \in Tasks, Start(u)
  PROVE  OneAtATime' /\ \A s \in Services : ServiceQuiet(s) => ServiceQuiet(s)'
<1>1. /\ Forward /\ UNCHANGED HostPart
      /\ \A q \in Runs : pc'[q] = pc[q] \/ pc'[q] \in {"load", "pull"}
  BY StartForward
<1>2. /\ taskState[u] \in {"pending", "retry"}
      /\ taskState' = [taskState EXCEPT ![u] = "active"]
      /\ UNCHANGED <<req, svcStatus>>
  BY StartFacts DEF rows
<1>3. \A t \in Tasks : TaskIdle(t) => TaskIdle(t)'
  BY <1>2 DEF TaskIdle, InFlight, TypeOK
<1>4. \A d \in Deployments : NoWork(d) => NoWork(d)'
  BY <1>2, <1>3, TaskFacts DEF NoWork
<1>5. OneAtATime'
  BY <1>4 DEF OneAtATime
<1>6. ASSUME NEW s \in Services, ServiceQuiet(s)  PROVE ServiceQuiet(s)'
  <2>1. ShownWhenServed(s)'
    <3>. SUFFICES ASSUME NEW e \in Deployments, svcStatus[s] = "running", ServiceOf[e] = s,
                         NEW t \in TasksOf(e)
                  PROVE  /\ req[e] # "svcMarked"
                         /\ (TaskIdle(t) \/ TaskAt(t, {"ack"}))'
      BY <1>2 DEF ShownWhenServed, TasksOf
    <3>1. t \in Tasks /\ req[e] # "svcMarked" /\ (TaskIdle(t) \/ TaskAt(t, {"ack"}))
      BY <1>6, NoWorkFacts DEF ServiceQuiet, ShownWhenServed
    <3>2. CASE TaskIdle(t)
      BY <1>3, <3>1, <3>2
    <3>3. CASE TaskAt(t, {"ack"})
      BY <1>1, <3>1, <3>3 DEF Forward, Acknowledged, TaskAt, TaskIdle, InFlight
    <3>. QED  BY <3>1, <3>2, <3>3
  <2>2. RunsReady(s)'
    BY <1>1, <1>6 DEF ServiceQuiet, RunsReady, HostReady, Placed, Routed, HostPart, host
  <2>3. ShownIsServed(s)'
    BY <1>1, <1>2, <1>6 DEF ServiceQuiet, ShownIsServed, Served, HostPart, host
  <2>. QED  BY <2>1, <2>2, <2>3 DEF ServiceQuiet
<1>. QED  BY <1>5, <1>6

\* A restart leaves a service alone, or gives back one of its jobs.
LEMMA RestartQuiet ==
  ASSUME TypeOK, HandOverInv, ~Timeouts, ~Crashes, OneAtATime,
         NEW kind \in {"build", "deploy"}, Restart(kind)
  PROVE  /\ OneAtATime'
         /\ \A s \in Services : ServiceQuiet(s) /\ Steady(s)' => ServiceQuiet(s)'
<1>1. /\ UNCHANGED <<starts, req, rows>> /\ RunsInv
      /\ \A t \in Tasks : taskState[t] # "active" => taskState'[t] = taskState[t]
      /\ \A t \in Tasks : taskState[t] = "active" => taskState'[t] \in {"active", "pending"}
  BY RestartFacts DEF HandOverInv
<1>2. \A d \in Deployments : NoWork(d)' <=> NoWork(d)
  <2>1. \A t \in Tasks : TaskIdle(t)' <=> TaskIdle(t)
    BY <1>1 DEF TaskIdle, InFlight
  <2>. QED  BY <1>1, <2>1, TaskFacts DEF NoWork
<1>3. OneAtATime'
  BY <1>2 DEF OneAtATime
<1>4. UNCHANGED HostPart /\ \A r \in Runs : HostReady(r) => HostReady(r)'
  BY RestartKept
<1>5. ASSUME NEW s \in Services, ServiceQuiet(s), Steady(s)'  PROVE ServiceQuiet(s)'
  <2>1. ASSUME NEW d \in Deployments, ServiceOf[d] = s, NEW t \in TasksOf(d)
        PROVE  /\ taskState'[t] = taskState[t]
               /\ TaskAt(t, {"ack"}) => TaskAt(t, {"ack"})'
    <3>1. ~Redelivered(d)'
      BY <1>5, <2>1 DEF Steady
    <3>2. /\ \A u \in TasksOf(d) : taskState'[u] = taskState[u] /\ starts'[u] = starts[u]
          /\ \A r \in Runs : DepOf(r) = d => pc'[r] = pc[r]
      BY <3>1, RestartGivesBack DEF HandOverInv
    <3>3. ASSUME NEW places  PROVE TaskAt(t, places)' <=> TaskAt(t, places)
      BY <1>1, <3>2, OthersAt
    <3>. QED  BY <3>2, <3>3 DEF TaskAt
  <2>2. ShownWhenServed(s)'
    <3>. SUFFICES ASSUME NEW e \in Deployments, svcStatus[s] = "running", ServiceOf[e] = s,
                         NEW t \in TasksOf(e)
                  PROVE  req[e] # "svcMarked" /\ (TaskIdle(t) \/ TaskAt(t, {"ack"}))'
      BY <1>1 DEF ShownWhenServed, TasksOf, rows
    <3>. QED  BY <1>5, <2>1 DEF ServiceQuiet, ShownWhenServed, TaskIdle
  <2>3. RunsReady(s)'
    BY <1>4, <1>5 DEF ServiceQuiet, RunsReady
  <2>4. ShownIsServed(s)'
    BY <1>1, <1>4, <1>5 DEF ServiceQuiet, ShownIsServed, Served, HostPart, host, rows
  <2>. QED  BY <2>2, <2>3, <2>4 DEF ServiceQuiet
<1>. QED  BY <1>3, <1>5

\* How a step of a run may change what is shown of the services.
LEMMA ServiceStep ==
  ASSUME TypeOK, NEW r \in Runs, RunNext(r)
  PROVE  \/ \A s \in Services : svcStatus'[s] = "running" => svcStatus[s] = "running"
         \/ DeployServiceRunning(r) /\ svcImage' = [svcImage EXCEPT ![SvcOf(r)] = DepOf(r)]
<1>. USE RunFacts, OutcomesAreBooleans, PipelineAssumption DEF rows
<1>1. CASE BuildNext(r)
  BY <1>1 DEF BuildNext, BuildLoad, BuildClone, BuildDetect, BuildImage, BuildCommand,
     BuildMarkPushing, BuildPush, BuildSuccess, BuildMarkDeploying, BuildEnqueueDeploy, BuildFail
<1>2. CASE DeployServiceRunning(r)
  <2>1. PICK ok \in DbOutcome(r) :
          /\ UpdateService(SvcOf(r), "running", ok)
          /\ svcImage' = [svcImage EXCEPT ![SvcOf(r)] = IF ok THEN DepOf(r) ELSE @]
    BY <1>2 DEF DeployServiceRunning
  <2>2. CASE ok = TRUE
    BY <1>2, <2>1, <2>2
  <2>3. CASE ok = FALSE
    BY <2>1, <2>3 DEF UpdateService, TypeOK
  <2>. QED  BY <2>1, <2>2, <2>3
<1>3. CASE DeployNext(r) /\ ~DeployServiceRunning(r)
  BY <1>3 DEF DeployNext, DeployPull, DeployFreeSlot, DeployRun, DeployRunConflict,
     DeployWriteRoute, DeployRemoveStale, DeployVerify, DeployRemoveOwn,
     DeployMarkRunning, DeployFail
<1>4. CASE FailService(r) \/ ExhaustedFailService(r)
  BY <1>4 DEF FailService, ExhaustedFailService, UpdateService, TypeOK
<1>5. CASE FailDeployment(r) \/ Ack(r) \/ ReturnError(r) \/ ExhaustedFailDeployment(r)
  BY <1>5 DEF FailDeployment, Ack, ReturnError, ExhaustedFailDeployment
<1>. QED  BY <1>1, <1>2, <1>3, <1>4, <1>5 DEF RunNext, EndNext

\* A run writes the row of its own service only.
LEMMA OwnRow ==
  ASSUME TypeOK, NEW r \in Runs, RunNext(r), NEW u \in Services, u # SvcOf(r)
  PROVE  svcStatus'[u] = svcStatus[u] /\ svcImage'[u] = svcImage[u]
<1>. USE DEF rows, TypeOK, UpdateService
<1>1. CASE BuildNext(r)
  BY <1>1 DEF BuildNext, BuildLoad, BuildClone, BuildDetect, BuildImage, BuildCommand,
     BuildMarkPushing, BuildPush, BuildSuccess, BuildMarkDeploying, BuildEnqueueDeploy, BuildFail
<1>2. CASE DeployServiceRunning(r)
  BY <1>2 DEF DeployServiceRunning
<1>3. CASE DeployNext(r) /\ ~DeployServiceRunning(r)
  BY <1>3 DEF DeployNext, DeployPull, DeployFreeSlot, DeployRun, DeployRunConflict,
     DeployWriteRoute, DeployRemoveStale, DeployVerify, DeployRemoveOwn,
     DeployMarkRunning, DeployFail
<1>4. CASE FailService(r) \/ ExhaustedFailService(r)
  BY <1>4 DEF FailService, ExhaustedFailService
<1>5. CASE FailDeployment(r) \/ Ack(r) \/ ReturnError(r) \/ ExhaustedFailDeployment(r)
  BY <1>5 DEF FailDeployment, Ack, ReturnError, ExhaustedFailDeployment
<1>. QED  BY <1>1, <1>2, <1>3, <1>4, <1>5 DEF RunNext, EndNext

\* A run does not concern the other services ...
LEMMA OthersRunQuiet ==
  ASSUME TypeOK, RunsInv, NEW r \in Runs, RunNext(r),
         NEW s \in Services, s # SvcOf(r), ServiceQuiet(s)
  PROVE  ServiceQuiet(s)'
<1>1. /\ \A q \in Runs \ {r} : pc'[q] = pc[q]
      /\ DepOf(r) \in Deployments /\ SvcOf(r) \in Services /\ ServiceOf[DepOf(r)] = SvcOf(r)
      /\ req' = req
  BY RunForward, RunFacts, RunShape, PipelineAssumption DEF SvcOf, HandsOver, Ends, GoesOn
<1>2. /\ svcStatus'[s] = svcStatus[s] /\ svcImage'[s] = svcImage[s]
      /\ container'[s] = container[s] /\ started'[s] = started[s] /\ ~OneService
  BY <1>1, OwnRow, OwnContainer DEF OneService
<1>3. ShownWhenServed(s)'
  <2>. SUFFICES ASSUME NEW e \in Deployments, svcStatus[s] = "running", ServiceOf[e] = s,
                       NEW t \in TasksOf(e)
                PROVE  req[e] # "svcMarked" /\ (TaskIdle(t) \/ TaskAt(t, {"ack"}))'
    BY <1>1, <1>2 DEF ShownWhenServed, TasksOf
  <2>1. req[e] # "svcMarked" /\ (TaskIdle(t) \/ TaskAt(t, {"ack"}))
    BY DEF ServiceQuiet, ShownWhenServed
  <2>2. /\ taskState'[t] = taskState[t] /\ starts'[t] = starts[t]
        /\ taskState[t] = "active" => pc'[<<t, starts[t]>>] = pc[<<t, starts[t]>>]
    BY <1>1, OthersUntouched
  <2>. QED  BY <2>1, <2>2 DEF TaskIdle, TaskAt
<1>4. RunsReady(s)'
  <2>. SUFFICES ASSUME NEW q \in Runs, SvcOf(q) = s  PROVE HostReady(q)'
    BY DEF RunsReady, SvcOf, DepOf
  <2>. QED  BY <1>1, <1>2 DEF ServiceQuiet, RunsReady, HostReady
<1>5. ShownIsServed(s)'
  BY <1>2 DEF ServiceQuiet, ShownIsServed, Served
<1>. QED  BY <1>3, <1>4, <1>5 DEF ServiceQuiet

\* ... and its own only as the one deployment of it that is worked on.
LEMMA OwnRunQuiet ==
  ASSUME TypeOK, RunsInv, OneAtATime, NEW r \in Runs, RunNext(r),
         OneHandOver(DepOf(r)), ServiceQuiet(SvcOf(r))
  PROVE  ServiceQuiet(SvcOf(r))'
<1>. DEFINE d == DepOf(r)
            s == SvcOf(r)
            Shown(e) == /\ req[e] # "svcMarked"
                        /\ \A t \in TasksOf(e) : TaskIdle(t) \/ TaskAt(t, {"ack"})
<1>1. /\ Forward /\ \A q \in Runs \ {r} : pc'[q] = pc[q]
      /\ d \in Deployments /\ s \in Services /\ ServiceOf[d] = s
      /\ pc[r] # "off" /\ req' = req
  BY RunForward, RunFacts, RunShape, PipelineAssumption
  DEF SvcOf, RunNext, HandsOver, Ends, GoesOn
<1>2. TaskOf(r) \in TasksOf(d) /\ taskState[TaskOf(r)] = "active" /\ ~NoWork(d)
  BY <1>1, RunIsWork
<1>3. \A e \in Deployments \ {d} : ServiceOf[e] = s => NoWork(e)
  BY <1>1, <1>2 DEF OneAtATime
<1>4. RunsReady(s)'
  <2>. SUFFICES ASSUME NEW q \in Runs, SvcOf(q) = s  PROVE HostReady(q)'
    BY DEF RunsReady, SvcOf, DepOf
  <2>1. HostReady(q)
    BY DEF ServiceQuiet, RunsReady
  <2>2. CASE q = r
    BY <2>1, <2>2, OwnHost
  <2>3. CASE q # r /\ pc[q] \notin Placed
    BY <1>1, <2>3 DEF HostReady, Routed
  <2>4. CASE q # r /\ pc[q] \in Placed
    <3>1. pc[q] # "off" /\ TaskOf(q) \in DeployTasks
      BY <2>4, PlacedIsDeploy
    <3>2. DepOf(q) = d
      BY <1>1, <1>3, <3>1, RunIsWork, RunFacts DEF SvcOf
    <3>3. pc[r] \in {"svcRunning", "ack"} \/ TaskOf(r) \notin DeployTasks
      BY <1>1, <2>4, <3>1, <3>2, OneAtWork
    <3>4. UNCHANGED <<container, started, route>>
      BY <3>3, HostStep DEF HostPart, host, DeployServiceRunning
    <3>. QED  BY <1>1, <2>1, <2>4, <3>4 DEF HostReady
  <2>. QED  BY <2>2, <2>3, <2>4
<1>5. ASSUME svcStatus'[s] = "running"
      PROVE  /\ svcImage'[s] # NoImage /\ Served(s)'
             /\ \A e \in Deployments : ServiceOf[e] = s => Shown(e)'
  <2>1. CASE svcStatus[s] = "running"
    <3>1. TaskAt(TaskOf(r), {"ack"})
      BY <1>1, <1>2, <2>1 DEF ServiceQuiet, ShownWhenServed, TaskIdle, InFlight
    <3>2. pc[r] = "ack"
      BY <1>1, <3>1, BuildRunFacts DEF TaskAt
    <3>3. Ends(r)
      BY <1>1, <3>2, RunShape DEF HandsOver, GoesOn
    <3>4. UNCHANGED HostPart
      BY <3>2, HostStep DEF DeployServiceRunning, DeployStep, At
    <3>5. ASSUME NEW e \in Deployments, ServiceOf[e] = s  PROVE Shown(e)'
      <4>1. Shown(e)
        BY <2>1, <3>5 DEF ServiceQuiet, ShownWhenServed
      <4>2. ASSUME NEW t \in TasksOf(e)  PROVE (TaskIdle(t) \/ TaskAt(t, {"ack"}))'
        <5>1. t \in Tasks
          BY NoWorkFacts
        <5>2. CASE t = TaskOf(r)
          BY <3>2, <3>3, <5>2 DEF Ends, TaskIdle, InFlight
        <5>3. CASE t # TaskOf(r)
          <6>1. taskState'[t] = taskState[t]
            BY <3>3, <5>1, <5>3 DEF Ends, TypeOK
          <6>2. CASE TaskIdle(t)
            BY <6>1, <6>2 DEF TaskIdle
          <6>3. CASE TaskAt(t, {"ack"})
            BY <1>1, <5>1, <6>3 DEF Forward, Acknowledged, TaskAt, TaskIdle, InFlight
          <6>. QED  BY <4>1, <6>2, <6>3
        <5>. QED  BY <5>2, <5>3
      <4>. QED  BY <1>1, <4>1, <4>2 DEF TasksOf
    <3>6. svcImage'[s] # NoImage /\ Served(s)'
      BY <1>1, <2>1, <3>4 DEF ServiceQuiet, ShownIsServed, Served, HostPart, host
    <3>. QED  BY <3>5, <3>6
  <2>2. CASE svcStatus[s] # "running"
    <3>1. DeployServiceRunning(r) /\ svcImage' = [svcImage EXCEPT ![s] = d]
      BY <1>1, <1>5, <2>2, ServiceStep
    <3>2. /\ pc[r] = "svcRunning" /\ pc'[r] = "ack" /\ TaskOf(r) \in DeployTasks
          /\ UNCHANGED <<host, taskState, starts>>
      BY <3>1 DEF DeployServiceRunning, DeployStep, At, Goto, TypeOK, queue, host
    <3>3. svcImage'[s] = d /\ d # NoImage
      BY <1>1, <3>1, PipelineAssumption DEF TypeOK
    <3>4. Served(s)'
      BY <3>2, <3>3 DEF ServiceQuiet, RunsReady, HostReady, Placed, Routed, Served, host
    <3>5. PICK n \in Deliveries : TaskOf(r) = DeployTask(d, n)
      BY <3>2, RunFacts
    <3>6. /\ taskState[BuildTask(d)] = "done" \/ TaskAt(BuildTask(d), {"ack"})
          /\ \A m \in Deliveries \ {n} : taskState[DeployTask(d, m)] = "absent"
      BY <1>1, <1>2, <3>5 DEF OneHandOver
    <3>7. req[d] \notin ReqActive
      BY <1>1, <3>6 DEF RunsInv, FreshTasks, TaskAt
    <3>8. ASSUME NEW e \in Deployments, ServiceOf[e] = s, e # d  PROVE Shown(e)'
      <4>1. NoWork(e)
        BY <1>3, <3>8
      <4>. QED  BY <1>1, <3>2, <4>1, NoWorkFacts DEF TaskIdle, ReqActive, TasksOf
    <3>9. Shown(d)'
      <4>1. (TaskIdle(BuildTask(d)) \/ TaskAt(BuildTask(d), {"ack"}))'
        BY <1>1, <3>6, TaskFacts DEF Forward, Acknowledged, TaskAt, TaskIdle, InFlight
      <4>2. ASSUME NEW m \in Deliveries
            PROVE  (TaskIdle(DeployTask(d, m)) \/ TaskAt(DeployTask(d, m), {"ack"}))'
        <5>1. CASE m = n
          <6>1. r = <<TaskOf(r), starts[TaskOf(r)]>>
            BY <1>1, BuildRunFacts
          <6>. QED  BY <1>2, <3>2, <3>5, <5>1, <6>1 DEF TaskAt
        <5>2. CASE m # n
          BY <3>2, <3>6, <5>2 DEF TaskIdle, InFlight
        <5>. QED  BY <5>1, <5>2
      <4>. QED  BY <1>1, <3>7, <4>1, <4>2 DEF TasksOf, ReqActive
    <3>. QED  BY <3>3, <3>4, <3>8, <3>9
  <2>. QED  BY <2>1, <2>2
<1>6. ShownWhenServed(s)' /\ ShownIsServed(s)'
  BY <1>5 DEF ShownWhenServed, ShownIsServed, TasksOf, SvcOf, DepOf
<1>. QED  BY <1>4, <1>6 DEF ServiceQuiet

LEMMA RunQuiet ==
  ASSUME TypeOK, HandOverInv, OneAtATime, NEW r \in Runs, RunNext(r)
  PROVE  /\ OneAtATime'
         /\ \A s \in Services : ServiceQuiet(s) /\ Steady(s) => ServiceQuiet(s)'
<1>1. RunsInv /\ DepOf(r) \in Deployments /\ SvcOf(r) \in Services
  BY RunFacts DEF HandOverInv
<1>2. OneAtATime'
  BY <1>1, RunKeepsNoWork DEF OneAtATime
<1>3. Steady(SvcOf(r)) => OneHandOver(DepOf(r))
  BY <1>1 DEF Steady, SvcOf, HandOverInv, HandedOver
<1>4. ASSUME NEW s \in Services, ServiceQuiet(s), Steady(s)  PROVE ServiceQuiet(s)'
  <2>1. CASE s = SvcOf(r)
    <3>1. ServiceQuiet(SvcOf(r))'
      BY <1>1, <1>3, <1>4, <2>1, OwnRunQuiet
    <3>. QED  BY <2>1, <3>1
  <2>2. CASE s # SvcOf(r)
    BY <1>1, <1>4, <2>2, OthersRunQuiet
  <2>. QED  BY <2>1, <2>2
<1>. QED  BY <1>2, <1>4

\* Without crashes, timeouts and aborted requests, and with clients that deploy a
\* service only when nothing works for it: one deployment of a service is worked on
\* at a time, and what is shown as running is on the host until a restart gives back
\* a job of the service.
THEOREM QuietInvariant ==
  ~Timeouts /\ ~Crashes /\ ~ApiAborts /\ RequestPolicy = "quiet" => (Spec => []QuietInv)
<1>. SUFFICES ASSUME ~Timeouts, ~Crashes, ~ApiAborts, RequestPolicy = "quiet"
              PROVE  Spec => []QuietInv
  OBVIOUS
<1>1. Spec => []HandOverInv
  BY HandOverInvariant
<1>2. TypeOK /\ HandOverInv /\ QuietInv /\ [Next]_vars => QuietInv'
  <2>. SUFFICES ASSUME TypeOK, HandOverInv, QuietInv, [Next]_vars  PROVE QuietInv'
    OBVIOUS
  <2>1. RunsInv /\ OneAtATime
    BY DEF HandOverInv, QuietInv
  <2>2. \A s \in Services : Steady(s)' => Steady(s) /\ ServiceQuiet(s)
    BY <2>1, RedeliveredGrows DEF Steady, QuietInv, ServiceQuiet
  <2>. SUFFICES /\ OneAtATime'
                /\ \A s \in Services : ServiceQuiet(s) /\ Steady(s) /\ Steady(s)' => ServiceQuiet(s)'
    BY <2>2 DEF QuietInv, ServiceQuiet
  <2>3. CASE UNCHANGED vars
    BY <2>1, <2>3 DEF OneAtATime, ServiceQuiet, ShownWhenServed, ShownIsServed, RunsReady,
       Served, HostReady, NoWork, TaskIdle, TaskAt, TasksOf, vars, rows, queue, host
  <2>4. CASE \E d \in Deployments : ReqNext(d)
    BY <2>1, <2>4, ReqQuiet
  <2>5. CASE \E t \in Tasks : QueueNext(t)
    BY <2>1, <2>5, QueueRuns, StartQuiet
  <2>6. CASE \E kind \in {"build", "deploy"} : Restart(kind) \/ Crash(kind)
    BY <2>1, <2>6, RestartQuiet DEF Crash
  <2>7. CASE \E r \in Runs : RunNext(r)
    BY <2>1, <2>7, RunQuiet
  <2>. QED  BY <2>3, <2>4, <2>5, <2>6, <2>7 DEF Next
<1>3. Init => QuietInv
  BY RunFacts, TaskFacts, NoWorkFacts, PipelineAssumption
  DEF Init, QuietInv, OneAtATime, NoWork, TaskIdle, InFlight, ReqActive, ShownWhenServed,
      ShownIsServed, RunsReady, HostReady, Placed, Routed
<1>. QED  BY <1>1, <1>2, <1>3, TypeCorrect, PTL DEF Spec

\* Whatever statement, Enqueue or command fails, and whatever other services are
\* deployed on the host, a service shown as running has its current_image running,
\* until a restart gives back a job of it.
THEOREM RunningServiceRuns ==
  ~Timeouts /\ ~Crashes /\ ~ApiAborts /\ RequestPolicy = "quiet" =>
    (Spec => [](\A s \in Services : svcStatus[s] = "running" /\ Steady(s) =>
       svcImage[s] # NoImage /\ container[s] = svcImage[s] /\ started[s]))
<1>1. QuietInv => \A s \in Services : svcStatus[s] = "running" /\ Steady(s) =>
        svcImage[s] # NoImage /\ container[s] = svcImage[s] /\ started[s]
  BY DEF QuietInv, ShownIsServed, Served
<1>. QED  BY <1>1, QuietInvariant, PTL

\* On a host that serves one service it is routed, too.
THEOREM RunningServiceIsServed ==
  OneService /\ ~Timeouts /\ ~Crashes /\ ~ApiAborts /\ RequestPolicy = "quiet"
    => (Spec => []ServiceTruthful)
<1>. SUFFICES ASSUME OneService, ~Timeouts, ~Crashes, ~ApiAborts, RequestPolicy = "quiet"
              PROVE  Spec => []ServiceTruthful
  OBVIOUS
<1>1. QuietInv => ServiceTruthful
  BY DEF QuietInv, ShownIsServed, Served, ServiceTruthful
<1>2. Spec => []QuietInv
  BY QuietInvariant
<1>. QED  BY <1>1, <1>2, PTL

=============================================================================
