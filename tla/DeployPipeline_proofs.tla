------------------------ MODULE DeployPipeline_proofs ------------------------
(***************************************************************************)
(* Proofs about the deploy pipeline, for every set of services and         *)
(* deployments and every bound: type correctness and PushedBeforeUse under *)
(* every fault, one run for every task as long as none is left behind, and *)
(* NoStranded when the infrastructure is reliable.                         *)
(***************************************************************************)
EXTENDS DeployPipeline, TLAPS

-----------------------------------------------------------------------------
(* Tasks and runs. *)

\* The two kinds of task are disjoint and determined by their deployment and,
\* for deploy.run, by the delivery that enqueued them.
LEMMA TaskFacts ==
  /\ BuildTasks \subseteq Tasks /\ DeployTasks \subseteq Tasks
  /\ BuildTasks \cap DeployTasks = {}
  /\ \A d \in Deployments : BuildTask(d) \in BuildTasks
  /\ \A d \in Deployments, n \in Deliveries : DeployTask(d, n) \in DeployTasks
  /\ \A t \in Tasks : /\ t[1] = "build" <=> t \in BuildTasks
                      /\ t[1] = "deploy" <=> t \in DeployTasks
  BY DEF BuildTasks, DeployTasks, Tasks, BuildTask, DeployTask

LEMMA RunFacts ==
  ASSUME NEW r \in Runs
  PROVE  /\ TaskOf(r) \in Tasks
         /\ DepOf(r) \in Deployments
         /\ SvcOf(r) \in Services
         /\ r[2] \in Deliveries
         /\ r = <<TaskOf(r), r[2]>>
         /\ TaskOf(r) \in BuildTasks => TaskOf(r) = BuildTask(DepOf(r))
         /\ TaskOf(r) \in DeployTasks =>
              \E n \in Deliveries : TaskOf(r) = DeployTask(DepOf(r), n)
  BY PipelineAssumption
  DEF Runs, Tasks, BuildTasks, DeployTasks, TaskOf, DepOf, SvcOf, BuildTask, DeployTask

\* A run belongs to its task.
LEMMA RunOfTask ==
  ASSUME NEW t \in Tasks, NEW n \in Deliveries
  PROVE  /\ <<t, n>> \in Runs
         /\ TaskOf(<<t, n>>) = t
  BY DEF Runs, TaskOf

\* Tasks of different deployments are different.
LEMMA TasksApart ==
  ASSUME NEW r \in Runs, NEW d \in Deployments, d # DepOf(r)
  PROVE  /\ TaskOf(r) # BuildTask(d)
         /\ \A n \in Deliveries : TaskOf(r) # DeployTask(d, n)
  BY DEF Runs, Tasks, TaskOf, DepOf, BuildTask, DeployTask

LEMMA DeployTaskInjective ==
  ASSUME NEW d, NEW e, NEW m, NEW n, DeployTask(d, m) = DeployTask(e, n)
  PROVE  d = e /\ m = n
  BY DEF DeployTask

LEMMA OutcomesAreBooleans ==
  ASSUME NEW r
  PROVE  DbOutcome(r) \subseteq BOOLEAN /\ CmdOutcome(r) \subseteq BOOLEAN
  BY DEF DbOutcome, CmdOutcome

-----------------------------------------------------------------------------
(* Type correctness. *)

LEMMA InitType == Init => TypeOK
  BY PipelineAssumption, RunFacts
  DEF Init, TypeOK, BuildPCs, DeployPCs, CommonPCs, InFlight, ReqActive

LEMMA GiveBackType ==
  ASSUME TypeOK, NEW t \in Tasks, GiveBack(t)
  PROVE  /\ taskState' \in [Tasks -> InFlight \cup {"absent", "done", "archived"}]
         /\ retried' \in [Tasks -> 0 .. MaxRetry]
  BY PipelineAssumption DEF TypeOK, GiveBack, InFlight

LEMMA SetContainerType ==
  ASSUME TypeOK, NEW s \in Services, NEW image \in Deployments \cup {NoImage},
         NEW up \in BOOLEAN, SetContainer(s, image, up)
  PROVE  /\ container' \in [Services -> Deployments \cup {NoImage}]
         /\ started' \in [Services -> BOOLEAN]
  BY DEF TypeOK, SetContainer

\* One lemma per part of the next-state relation.
LEMMA ReqType ==
  ASSUME TypeOK, NEW d \in Deployments, ReqNext(d)
  PROVE  TypeOK'
<1>. USE PipelineAssumption, TaskFacts DEF TypeOK, ReqStep, ReqActive, rows, queue, host
<1>1. CASE ReqInsertDeployment(d)
  BY <1>1 DEF ReqInsertDeployment, UpdateDeployment
<1>2. CASE ReqInsertBuild(d)
  BY <1>2 DEF ReqInsertBuild, UpdateBuild
<1>3. CASE ReqMarkBuilding(d)
  BY <1>3 DEF ReqMarkBuilding, UpdateDeployment
<1>4. CASE ReqMarkService(d)
  BY <1>4 DEF ReqMarkService, UpdateService
<1>5. CASE ReqEnqueue(d)
  BY <1>5 DEF ReqEnqueue, InFlight
<1>6. CASE ReqAbort(d)
  BY <1>6 DEF ReqAbort
<1>. QED  BY <1>1, <1>2, <1>3, <1>4, <1>5, <1>6 DEF ReqNext

LEMMA QueueType ==
  ASSUME TypeOK, NEW t \in Tasks, QueueNext(t)
  PROVE  TypeOK'
<1>. USE PipelineAssumption, TaskFacts DEF TypeOK, InFlight, rows, queue, host
<1>1. CASE Start(t)
  <2>1. <<t, starts[t] + 1>> \in Runs /\ TaskOf(<<t, starts[t] + 1>>) = t
    BY <1>1, RunOfTask DEF Start, Deliveries
  <2>2. /\ taskState' \in [Tasks -> InFlight \cup {"absent", "done", "archived"}]
        /\ starts' \in [Tasks -> 0 .. MaxDeliveries]
    BY <1>1 DEF Start
  <2>3. /\ pc' \in [Runs -> BuildPCs \cup DeployPCs \cup CommonPCs]
        /\ \A r \in Runs : IF TaskOf(r) \in BuildTasks THEN pc'[r] \notin DeployPCs
                                                       ELSE pc'[r] \notin BuildPCs
    BY <1>1, <2>1 DEF Start, Goto, FirstStep, BuildPCs, DeployPCs, CommonPCs
  <2>. QED  BY <1>1, <2>2, <2>3 DEF Start
<1>2. CASE Expire(t)
  BY <1>2, GiveBackType DEF Expire
<1>3. CASE Recover(t)
  BY <1>3, GiveBackType DEF Recover
<1>. QED  BY <1>1, <1>2, <1>3 DEF QueueNext

LEMMA WorkerType ==
  ASSUME TypeOK, NEW kind \in {"build", "deploy"}, Restart(kind) \/ Crash(kind)
  PROVE  TypeOK'
<1>. USE PipelineAssumption DEF TypeOK, rows, queue, host, BuildPCs, DeployPCs, CommonPCs
<1>1. CASE Restart(kind)
  BY <1>1 DEF Restart, InFlight
<1>2. CASE Crash(kind)
  BY <1>2 DEF Crash
<1>. QED  BY <1>1, <1>2

LEMMA BuildType ==
  ASSUME TypeOK, NEW r \in Runs, BuildNext(r)
  PROVE  TypeOK'
<1>. USE TaskFacts, RunFacts, OutcomesAreBooleans
     DEF TypeOK, BuildStep, At, Goto, rows, queue, host, BuildPCs, DeployPCs, CommonPCs
<1>1. CASE BuildLoad(r)
  BY <1>1 DEF BuildLoad, UpdateBuild
<1>2. CASE BuildClone(r)
  BY <1>2 DEF BuildClone, BuildCommand, UpdateBuild
<1>3. CASE BuildDetect(r)
  BY <1>3 DEF BuildDetect, BuildCommand, UpdateBuild
<1>4. CASE BuildImage(r)
  BY <1>4 DEF BuildImage, BuildCommand, UpdateBuild
<1>5. CASE BuildMarkPushing(r)
  BY <1>5 DEF BuildMarkPushing, UpdateDeployment
<1>6. CASE BuildPush(r)
  BY <1>6 DEF BuildPush
<1>7. CASE BuildSuccess(r)
  BY <1>7 DEF BuildSuccess, UpdateBuild
<1>8. CASE BuildMarkDeploying(r)
  BY <1>8 DEF BuildMarkDeploying, UpdateDeployment
<1>9. CASE BuildEnqueueDeploy(r)
  BY <1>9 DEF BuildEnqueueDeploy, InFlight
<1>10. CASE BuildFail(r)
  BY <1>10 DEF BuildFail, UpdateBuild
<1>. QED  BY <1>1, <1>2, <1>3, <1>4, <1>5, <1>6, <1>7, <1>8, <1>9, <1>10 DEF BuildNext

LEMMA DeployType ==
  ASSUME TypeOK, NEW r \in Runs, DeployNext(r)
  PROVE  TypeOK'
<1>. USE TaskFacts, RunFacts, OutcomesAreBooleans
     DEF TypeOK, DeployStep, At, Goto, rows, queue, host, BuildPCs, DeployPCs, CommonPCs
<1>1. CASE DeployPull(r)
  BY <1>1 DEF DeployPull
<1>2. CASE DeployFreeSlot(r)
  <2>1. /\ container' \in [Services -> Deployments \cup {NoImage}]
        /\ started' \in [Services -> BOOLEAN]
    <3>1. SetContainer(SvcOf(r), NoImage, FALSE) \/ UNCHANGED <<container, started>>
      BY <1>2 DEF DeployFreeSlot
    <3>. QED  BY ONLY <3>1, TypeOK, RunFacts, SetContainerType DEF TypeOK
  <2>. QED  BY <1>2, <2>1 DEF DeployFreeSlot
<1>3. CASE DeployRun(r)
  BY <1>3, SetContainerType DEF DeployRun
<1>4. CASE DeployRunConflict(r)
  BY <1>4 DEF DeployRunConflict
<1>5. CASE DeployWriteRoute(r)
  BY <1>5 DEF DeployWriteRoute, Write, Stale, AfterSync
<1>6. CASE DeployRemoveStale(r)
  BY <1>6 DEF DeployRemoveStale, Stale, Verify
<1>7. CASE DeployVerify(r)
  BY <1>7 DEF DeployVerify, Verify, AfterSync
<1>8. CASE DeployRemoveOwn(r)
  <2>1. /\ container' \in [Services -> Deployments \cup {NoImage}]
        /\ started' \in [Services -> BOOLEAN]
    <3>1. SetContainer(SvcOf(r), NoImage, FALSE) \/ UNCHANGED <<container, started>>
      BY <1>8 DEF DeployRemoveOwn
    <3>. QED  BY ONLY <3>1, TypeOK, RunFacts, SetContainerType DEF TypeOK
  <2>. QED  BY <1>8, <2>1 DEF DeployRemoveOwn
<1>9. CASE DeployMarkRunning(r)
  BY <1>9 DEF DeployMarkRunning, UpdateDeployment
<1>10. CASE DeployServiceRunning(r)
  BY <1>10 DEF DeployServiceRunning, UpdateService
<1>11. CASE DeployFail(r)
  BY <1>11 DEF DeployFail
<1>. QED  BY <1>1, <1>2, <1>3, <1>4, <1>5, <1>6, <1>7, <1>8, <1>9, <1>10, <1>11 DEF DeployNext

LEMMA EndType ==
  ASSUME TypeOK, NEW r \in Runs, EndNext(r)
  PROVE  TypeOK'
<1>. USE PipelineAssumption, TaskFacts, RunFacts, OutcomesAreBooleans
     DEF TypeOK, At, Goto, rows, queue, host, BuildPCs, DeployPCs, CommonPCs
<1>1. CASE FailDeployment(r)
  BY <1>1 DEF FailDeployment, UpdateDeployment
<1>2. CASE FailService(r)
  BY <1>2 DEF FailService, UpdateService
<1>3. CASE Ack(r)
  BY <1>3 DEF Ack
<1>4. CASE ReturnError(r)
  <2>1. /\ taskState' \in [Tasks -> InFlight \cup {"absent", "done", "archived"}]
        /\ retried' \in [Tasks -> 0 .. MaxRetry]
    BY <1>4, GiveBackType DEF ReturnError
  <2>2. \/ Goto(r, "off")
        \/ Goto(r, "exhaustedDep") /\ TaskOf(r) \in DeployTasks
    BY <1>4 DEF ReturnError, Exhausted
  <2>3. /\ pc' \in [Runs -> BuildPCs \cup DeployPCs \cup CommonPCs]
        /\ \A q \in Runs : IF TaskOf(q) \in BuildTasks THEN pc'[q] \notin DeployPCs
                                                       ELSE pc'[q] \notin BuildPCs
    <3>1. CASE Goto(r, "off")
      BY <3>1
    <3>2. CASE Goto(r, "exhaustedDep") /\ TaskOf(r) \in DeployTasks
      <4>1. TaskOf(r) \notin BuildTasks
        BY <3>2
      <4>. QED  BY <3>2, <4>1
    <3>. QED  BY <2>2, <3>1, <3>2
  <2>. QED  BY <1>4, <2>1, <2>3 DEF ReturnError
<1>5. CASE ExhaustedFailDeployment(r)
  BY <1>5 DEF ExhaustedFailDeployment, UpdateDeployment
<1>6. CASE ExhaustedFailService(r)
  BY <1>6, GiveBackType DEF ExhaustedFailService, UpdateService
<1>. QED  BY <1>1, <1>2, <1>3, <1>4, <1>5, <1>6 DEF EndNext

\* Type correctness of the whole pipeline, whatever fails: in particular the
\* workers only ever write statuses that the schema allows.
THEOREM TypeCorrect == Spec => []TypeOK
<1>1. TypeOK /\ [Next]_vars => TypeOK'
  <2>. SUFFICES ASSUME TypeOK, [Next]_vars  PROVE TypeOK'
    OBVIOUS
  <2>1. CASE UNCHANGED vars
    BY <2>1 DEF TypeOK, vars, rows, queue, host
  <2>2. CASE Next
    BY <2>2, ReqType, QueueType, WorkerType, BuildType, DeployType, EndType
    DEF Next, RunNext
  <2>. QED  BY <2>1, <2>2
<1>. QED  BY <1>1, InitType, PTL DEF Spec

-----------------------------------------------------------------------------
(* Nothing is used before it is pushed. *)

\* What keeps PushedBeforeUse: new uses are of pushed images.
LEMMA PushedFrame ==
  ASSUME PushedBeforeUse, pushed \subseteq pushed',
         imageRefs' \subseteq imageRefs \cup pushed',
         \A d \in Deployments, n \in Deliveries :
           \/ taskState[DeployTask(d, n)] = "absent" => taskState'[DeployTask(d, n)] = "absent"
           \/ d \in pushed',
         \A s \in Services :
           /\ container'[s] \in {container[s], NoImage} \cup pushed'
           /\ svcImage'[s] \in {svcImage[s]} \cup pushed'
  PROVE  PushedBeforeUse'
  BY PipelineAssumption DEF PushedBeforeUse

\* A task that a deploy run executes is a task for a pushed image.
LEMMA RunTaskPushed ==
  ASSUME RunsPushed, NEW r \in Runs, pc[r] # "off",
         NEW d \in Deployments, NEW n \in Deliveries, TaskOf(r) = DeployTask(d, n)
  PROVE  d \in pushed
<1>1. d = DepOf(r)
  BY TasksApart
<1>2. TaskOf(r) \notin BuildTasks
  BY TaskFacts
<1>. QED  BY <1>1, <1>2 DEF RunsPushed

\* A run may change the state of its own task.
LEMMA OwnTaskPushed ==
  ASSUME PushedInv, NEW r \in Runs, pc[r] # "off",
         UNCHANGED <<pushed, imageRefs, container, svcImage>>,
         \A t \in Tasks \ {TaskOf(r)} : taskState'[t] = taskState[t]
  PROVE  PushedBeforeUse'
<1>1. ASSUME NEW d \in Deployments, NEW n \in Deliveries
      PROVE  \/ taskState[DeployTask(d, n)] = "absent" => taskState'[DeployTask(d, n)] = "absent"
             \/ d \in pushed'
  <2>1. CASE DeployTask(d, n) = TaskOf(r)
    BY <2>1, RunTaskPushed DEF PushedInv
  <2>2. CASE DeployTask(d, n) # TaskOf(r)
    BY <2>2, TaskFacts
  <2>. QED  BY <2>1, <2>2
<1>. QED  BY <1>1, PushedFrame DEF PushedInv

LEMMA InitPushed == Init => PushedInv
  BY PipelineAssumption, TaskFacts
  DEF Init, PushedInv, PushedBeforeUse, RunsPushed

LEMMA ReqPushed ==
  ASSUME TypeOK, PushedInv, NEW d \in Deployments, ReqNext(d)
  PROVE  PushedInv'
<1>. USE TaskFacts, PushedFrame
     DEF TypeOK, PushedInv, RunsPushed, ReqStep, rows, queue, host
<1>1. CASE ReqInsertDeployment(d)
  BY <1>1 DEF ReqInsertDeployment, UpdateDeployment
<1>2. CASE ReqInsertBuild(d)
  BY <1>2 DEF ReqInsertBuild, UpdateBuild
<1>3. CASE ReqMarkBuilding(d)
  BY <1>3 DEF ReqMarkBuilding, UpdateDeployment
<1>4. CASE ReqMarkService(d)
  BY <1>4 DEF ReqMarkService, UpdateService
<1>5. CASE ReqEnqueue(d)
  BY <1>5 DEF ReqEnqueue
<1>6. CASE ReqAbort(d)
  BY <1>6 DEF ReqAbort
<1>. QED  BY <1>1, <1>2, <1>3, <1>4, <1>5, <1>6 DEF ReqNext

LEMMA QueuePushed ==
  ASSUME TypeOK, PushedInv, NEW t \in Tasks, QueueNext(t)
  PROVE  PushedInv'
<1>. USE TaskFacts, PushedFrame
     DEF TypeOK, PushedInv, RunsPushed, rows, queue, host
<1>1. CASE Start(t)
  <2>. DEFINE new == <<t, starts[t] + 1>>
  <2>1. PushedBeforeUse'
    BY <1>1 DEF Start
  <2>2. ASSUME NEW r \in Runs, r # new  PROVE pc'[r] = pc[r]
    BY <1>1, <2>2 DEF Start, Goto
  <2>3. ASSUME t \in DeployTasks  PROVE DepOf(new) \in pushed
    <3>1. PICK d \in Deployments, n \in Deliveries : t = DeployTask(d, n)
      BY <2>3 DEF DeployTasks, DeployTask
    <3>2. DepOf(new) = d
      BY <3>1 DEF DepOf, DeployTask
    <3>. QED  BY <1>1, <3>1, <3>2 DEF Start, PushedBeforeUse
  <2>4. ASSUME t \in BuildTasks, new \in Runs  PROVE pc'[new] = "load"
    BY <1>1, <2>4 DEF Start, Goto, FirstStep
  <2>5. TaskOf(new) = t /\ pushed' = pushed
    BY <1>1 DEF TaskOf, Start
  <2>6. RunsPushed'
    <3>. SUFFICES ASSUME NEW r \in Runs,
                         IF TaskOf(r) \in BuildTasks
                         THEN pc'[r] \in {"success", "markDeploying", "enqueue", "ack"}
                         ELSE pc'[r] # "off"
                  PROVE  DepOf(r) \in pushed'
      BY DEF RunsPushed
    <3>1. CASE r # new
      BY <3>1, <2>2, <2>5
    <3>2. CASE r = new
      BY <3>2, <2>3, <2>4, <2>5 DEF Tasks
    <3>. QED  BY <3>1, <3>2
  <2>. QED  BY <2>1, <2>6
<1>2. CASE Expire(t)
  BY <1>2 DEF Expire, GiveBack
<1>3. CASE Recover(t)
  BY <1>3 DEF Recover, GiveBack
<1>. QED  BY <1>1, <1>2, <1>3 DEF QueueNext

LEMMA WorkerPushed ==
  ASSUME TypeOK, PushedInv, NEW kind \in {"build", "deploy"}, Restart(kind) \/ Crash(kind)
  PROVE  PushedInv'
<1>. USE TaskFacts, PushedFrame
     DEF TypeOK, PushedInv, RunsPushed, rows, queue, host
<1>1. CASE Restart(kind)
  BY <1>1 DEF Restart, Live
<1>2. CASE Crash(kind)
  BY <1>2 DEF Crash
<1>. QED  BY <1>1, <1>2

LEMMA BuildPushed ==
  ASSUME TypeOK, PushedInv, NEW r \in Runs, BuildNext(r)
  PROVE  PushedInv'
<1>. USE TaskFacts, RunFacts, PushedFrame
     DEF TypeOK, PushedInv, RunsPushed, BuildStep, At, Goto, rows, queue, host
<1>1. CASE BuildLoad(r)
  BY <1>1 DEF BuildLoad, UpdateBuild
<1>2. CASE BuildClone(r)
  BY <1>2 DEF BuildClone, BuildCommand, UpdateBuild
<1>3. CASE BuildDetect(r)
  BY <1>3 DEF BuildDetect, BuildCommand, UpdateBuild
<1>4. CASE BuildImage(r)
  BY <1>4 DEF BuildImage, BuildCommand, UpdateBuild
<1>5. CASE BuildMarkPushing(r)
  BY <1>5 DEF BuildMarkPushing, UpdateDeployment
<1>6. CASE BuildPush(r)
  BY <1>6 DEF BuildPush
<1>7. CASE BuildSuccess(r)
  BY <1>7 DEF BuildSuccess, UpdateBuild
<1>8. CASE BuildMarkDeploying(r)
  BY <1>8 DEF BuildMarkDeploying, UpdateDeployment
<1>9. CASE BuildEnqueueDeploy(r)
  BY <1>9, DeployTaskInjective DEF BuildEnqueueDeploy
<1>10. CASE BuildFail(r)
  BY <1>10 DEF BuildFail, UpdateBuild
<1>. QED  BY <1>1, <1>2, <1>3, <1>4, <1>5, <1>6, <1>7, <1>8, <1>9, <1>10 DEF BuildNext

LEMMA DeployPushed ==
  ASSUME TypeOK, PushedInv, NEW r \in Runs, DeployNext(r)
  PROVE  PushedInv'
<1>. USE TaskFacts, RunFacts, PushedFrame
     DEF TypeOK, PushedInv, RunsPushed, DeployStep, At, Goto, rows, queue, host
<1>1. CASE DeployPull(r)
  BY <1>1 DEF DeployPull
<1>2. CASE DeployFreeSlot(r)
  BY <1>2 DEF DeployFreeSlot, SetContainer
<1>3. CASE DeployRun(r)
  BY <1>3 DEF DeployRun, SetContainer
<1>4. CASE DeployRunConflict(r)
  BY <1>4 DEF DeployRunConflict
<1>5. CASE DeployWriteRoute(r)
  BY <1>5 DEF DeployWriteRoute, Write, Stale, AfterSync
<1>6. CASE DeployRemoveStale(r)
  BY <1>6 DEF DeployRemoveStale, Stale, Verify
<1>7. CASE DeployVerify(r)
  BY <1>7 DEF DeployVerify, Verify, AfterSync
<1>8. CASE DeployRemoveOwn(r)
  BY <1>8 DEF DeployRemoveOwn, SetContainer
<1>9. CASE DeployMarkRunning(r)
  BY <1>9 DEF DeployMarkRunning, UpdateDeployment
<1>10. CASE DeployServiceRunning(r)
  BY <1>10 DEF DeployServiceRunning, UpdateService
<1>11. CASE DeployFail(r)
  BY <1>11 DEF DeployFail
<1>. QED  BY <1>1, <1>2, <1>3, <1>4, <1>5, <1>6, <1>7, <1>8, <1>9, <1>10, <1>11 DEF DeployNext

LEMMA EndPushed ==
  ASSUME TypeOK, PushedInv, NEW r \in Runs, EndNext(r)
  PROVE  PushedInv'
<1>. USE TaskFacts, RunFacts, PushedFrame, RunTaskPushed
     DEF TypeOK, PushedInv, RunsPushed, At, Goto, rows, queue, host
<1>1. CASE FailDeployment(r)
  BY <1>1 DEF FailDeployment, UpdateDeployment
<1>2. CASE FailService(r)
  BY <1>2 DEF FailService, UpdateService
<1>3. CASE Ack(r)
  <2>1. pc' = [pc EXCEPT ![r] = "off"] /\ pushed' = pushed
    BY <1>3 DEF Ack
  <2>2. PushedBeforeUse'
    BY ONLY <1>3, TypeOK, PushedInv, OwnTaskPushed, r \in Runs
    DEF Ack, TypeOK, At, Goto, rows, queue, host
  <2>3. RunsPushed'
    BY <2>1
  <2>. QED  BY <2>2, <2>3
<1>4. CASE ReturnError(r)
  <2>1. PushedBeforeUse'
    BY <1>4 DEF ReturnError, GiveBack
  <2>2. RunsPushed'
    BY <1>4 DEF ReturnError
  <2>. QED  BY <2>1, <2>2
<1>5. CASE ExhaustedFailDeployment(r)
  BY <1>5 DEF ExhaustedFailDeployment, UpdateDeployment
<1>6. CASE ExhaustedFailService(r)
  <2>1. PushedBeforeUse'
    BY ONLY <1>6, TypeOK, PushedInv, OwnTaskPushed, r \in Runs
    DEF ExhaustedFailService, GiveBack, TypeOK, At, Goto, rows, queue, host
  <2>2. pc' = [pc EXCEPT ![r] = "off"] /\ pushed' = pushed
    BY <1>6 DEF ExhaustedFailService
  <2>3. RunsPushed'
    BY <2>2
  <2>. QED  BY <2>1, <2>3
<1>. QED  BY <1>1, <1>2, <1>3, <1>4, <1>5, <1>6 DEF EndNext

LEMMA PushedInvariant == Spec => []PushedInv
<1>1. TypeOK /\ PushedInv /\ [Next]_vars => PushedInv'
  <2>. SUFFICES ASSUME TypeOK, PushedInv, [Next]_vars  PROVE PushedInv'
    OBVIOUS
  <2>1. CASE UNCHANGED vars
    BY <2>1 DEF PushedInv, PushedBeforeUse, RunsPushed, vars, rows, queue, host
  <2>2. CASE Next
    BY <2>2, ReqPushed, QueuePushed, WorkerPushed, BuildPushed, DeployPushed, EndPushed
    DEF Next, RunNext
  <2>. QED  BY <2>1, <2>2
<1>. QED  BY <1>1, InitPushed, TypeCorrect, PTL DEF Spec

\* Under every fault and for every number of overlapping deliveries, whatever
\* is deployed, recorded as deployable or put into service has been pushed.
THEOREM OnlyPushedIsUsed == Spec => []PushedBeforeUse
<1>1. PushedInv => PushedBeforeUse
  BY DEF PushedInv
<1>. QED  BY <1>1, PushedInvariant, PTL

-----------------------------------------------------------------------------
(* Tasks and runs match one to one unless a handler outlives its Timeout   *)
(* or a worker dies, whatever else fails.                                  *)

\* A task that is given back is due once more, as often as it was before if nothing
\* else had given it back.
LEMMA GiveBackDue ==
  ASSUME TypeOK, NEW t \in Tasks, GiveBack(t)
  PROVE  /\ taskState'[t] \in {"retry", "archived"}
         /\ \A u \in Tasks \ {t} : taskState'[u] = taskState[u] /\ Due(u)' = Due(u)
         /\ Due(t) \in Nat /\ Due(t)' \in Nat /\ Due(t)' >= Due(t)
         /\ taskState[t] = "active" => Due(t)' = Due(t)
<1>1. /\ retried[t] \in 0 .. MaxRetry /\ MaxRetry \in Nat
      /\ retried \in [Tasks -> 0 .. MaxRetry]
      /\ taskState \in [Tasks -> InFlight \cup {"absent", "done", "archived"}]
  BY PipelineAssumption DEF TypeOK
<1>2. CASE retried[t] < MaxRetry
  BY <1>1, <1>2 DEF GiveBack, Due
<1>3. CASE ~(retried[t] < MaxRetry)
  BY <1>1, <1>3 DEF GiveBack, Due
<1>. QED  BY <1>2, <1>3

\* How one step of a run changes the queue and the places: it goes on, it hands
\* the image over to the runtime agent, or it ends together with its delivery.
RowsMove(r, l) ==
  /\ \A e \in Deployments \ {DepOf(r)} :
       depStatus'[e] = depStatus[e] /\ buildStatus'[e] = buildStatus[e]
  /\ depStatus'[DepOf(r)] = "running" => depStatus[DepOf(r)] = "running" \/ l = "svcRunning"
  /\ pc[r] = "svcRunning" => depStatus'[DepOf(r)] = depStatus[DepOf(r)]
  /\ \/ buildStatus'[DepOf(r)] = buildStatus[DepOf(r)]
     \/ pc[r] \in BuildPCs \ {"markDeploying", "enqueue"}
  /\ l = "markDeploying" => buildStatus'[DepOf(r)] = "success"
  /\ l = "enqueue" => pc[r] = "markDeploying"
  /\ l = "svcRunning" => pc[r] = "markRunning"
  /\ l = "ack" <=> pc[r] = "svcRunning"

GoesOn(r, l) ==
  /\ RowsMove(r, l)
  /\ Goto(r, l)
  /\ pc[r] \notin {"off", "ack"} /\ l # "off"
  /\ l \in BuildPCs => pc[r] \in BuildPCs
  /\ UNCHANGED <<queue, req, restarts>>

HandsOver(r) ==
  /\ TaskOf(r) = BuildTask(DepOf(r))
  /\ pc[r] = "enqueue" /\ Goto(r, "ack")
  /\ taskState' = [taskState EXCEPT ![DeployTask(DepOf(r), r[2])] = "pending"]
  /\ UNCHANGED <<retried, starts, req, restarts, depStatus, buildStatus>>

Ends(r) ==
  /\ pc[r] \in {"ack", "err", "exhaustedSvc"} /\ Goto(r, "off")
  /\ taskState' = [taskState EXCEPT ![TaskOf(r)] = taskState'[TaskOf(r)]]
  /\ taskState'[TaskOf(r)] \notin {"active", "absent"}
  /\ pc[r] = "ack" => taskState'[TaskOf(r)] = "done"
  /\ \A t \in Tasks : Due(t)' = Due(t)
  /\ UNCHANGED <<starts, req, restarts, depStatus, buildStatus>>

LEMMA BuildShape ==
  ASSUME TypeOK, NEW r \in Runs, pc[r] # "off", BuildNext(r)
  PROVE  HandsOver(r) \/ \E l : GoesOn(r, l)
<1>1. CASE ~BuildEnqueueDeploy(r)
  <2>. SUFFICES \E l : GoesOn(r, l)
    OBVIOUS
  <2>. USE TaskFacts, RunFacts, OutcomesAreBooleans
       DEF TypeOK, BuildStep, At, rows, queue, host, GoesOn, RowsMove, BuildPCs
  <2>1. CASE BuildLoad(r)
    BY <2>1 DEF BuildLoad, UpdateBuild
  <2>2. CASE BuildClone(r)
    BY <2>2 DEF BuildClone, BuildCommand, UpdateBuild
  <2>3. CASE BuildDetect(r)
    BY <2>3 DEF BuildDetect, BuildCommand, UpdateBuild
  <2>4. CASE BuildImage(r)
    BY <2>4 DEF BuildImage, BuildCommand, UpdateBuild
  <2>5. BuildMarkPushing(r) => GoesOn(r, "push")
    BY DEF BuildMarkPushing, UpdateDeployment
  <2>6. CASE BuildPush(r)
    BY <2>6 DEF BuildPush
  <2>7. CASE BuildSuccess(r)
    <3>1. PICK ok \in DbOutcome(r) :
            /\ BuildStep(r, "success", IF ok THEN "markDeploying" ELSE "err")
            /\ UpdateBuild(DepOf(r), "success", ok)
      BY <2>7 DEF BuildSuccess
    <3>2. GoesOn(r, IF ok THEN "markDeploying" ELSE "err")
      BY <2>7, <3>1 DEF BuildSuccess, UpdateBuild
    <3>. QED  BY ONLY <3>2
  <2>8. BuildMarkDeploying(r) => GoesOn(r, "enqueue")
    BY DEF BuildMarkDeploying, UpdateDeployment
  <2>9. CASE BuildFail(r)
    BY <2>9 DEF BuildFail, UpdateBuild
  <2>. QED  BY <1>1, <2>1, <2>2, <2>3, <2>4, <2>5, <2>6, <2>7, <2>8, <2>9 DEF BuildNext
<1>2. CASE BuildEnqueueDeploy(r)
  <2>1. PICK ok \in {TRUE, ~EnqueueErrors} :
          /\ BuildStep(r, "enqueue", IF ok THEN "ack" ELSE "err")
          /\ taskState' = [taskState EXCEPT
               ![DeployTask(DepOf(r), r[2])] = IF ok THEN "pending" ELSE @]
    BY <1>2 DEF BuildEnqueueDeploy
  <2>2. UNCHANGED <<retried, starts, req, restarts, depStatus, buildStatus>>
    BY <1>2 DEF BuildEnqueueDeploy, rows
  <2>3. CASE ok = TRUE
    BY <2>1, <2>2, <2>3, RunFacts DEF HandsOver, BuildStep, At
  <2>4. CASE ok = FALSE
    <3>1. taskState' = taskState
      BY <2>1, <2>4 DEF TypeOK
    <3>2. GoesOn(r, "err")
      BY <2>1, <2>2, <2>4, <3>1 DEF GoesOn, RowsMove, BuildStep, At, BuildPCs, queue
    <3>. QED  BY <3>2
  <2>. QED  BY <2>1, <2>3, <2>4, PipelineAssumption
<1>. QED  BY <1>1, <1>2

LEMMA DeployShape ==
  ASSUME TypeOK, NEW r \in Runs, pc[r] # "off", DeployNext(r)
  PROVE  \E l : GoesOn(r, l)
<1>. USE TaskFacts, RunFacts, OutcomesAreBooleans
     DEF TypeOK, DeployStep, At, rows, queue, host, GoesOn, RowsMove, BuildPCs
<1>1. CASE DeployPull(r)
  BY <1>1 DEF DeployPull
<1>2. CASE DeployFreeSlot(r)
  BY <1>2 DEF DeployFreeSlot
<1>3. CASE DeployRun(r)
  BY <1>3 DEF DeployRun
<1>4. CASE DeployRunConflict(r)
  BY <1>4 DEF DeployRunConflict
<1>5. CASE DeployWriteRoute(r) \/ DeployRemoveStale(r) \/ DeployVerify(r)
  <2>1. /\ pc[r] \in {"write1", "write2", "stale1", "stale2", "verify1", "verify2"}
        /\ UNCHANGED <<depStatus, buildStatus, queue, req, restarts>>
    BY <1>5 DEF DeployWriteRoute, DeployRemoveStale, DeployVerify, Write, Stale, Verify
  <2>2. \E l \in {"stale1", "stale2", "verify1", "verify2", "write2", "rmOwn", "markRunning"} :
          Goto(r, l)
    BY <1>5 DEF DeployWriteRoute, DeployRemoveStale, DeployVerify, Write, Stale, Verify, AfterSync
  <2>. QED  BY ONLY <2>1, <2>2 DEF GoesOn, RowsMove, BuildPCs
<1>6. CASE DeployRemoveOwn(r)
  BY <1>6 DEF DeployRemoveOwn
<1>7. CASE DeployMarkRunning(r)
  BY <1>7 DEF DeployMarkRunning, UpdateDeployment
<1>8. CASE DeployServiceRunning(r)
  BY <1>8 DEF DeployServiceRunning
<1>9. CASE DeployFail(r)
  BY <1>9 DEF DeployFail
<1>. QED  BY <1>1, <1>2, <1>3, <1>4, <1>5, <1>6, <1>7, <1>8, <1>9 DEF DeployNext

LEMMA EndShape ==
  ASSUME TypeOK, NEW r \in Runs, Live(r), EndNext(r)
  PROVE  Ends(r) \/ \E l : GoesOn(r, l)
<1>. USE RunFacts DEF At, rows, queue, host
<1>1. ASSUME GiveBack(TaskOf(r))
      PROVE  /\ taskState' = [taskState EXCEPT ![TaskOf(r)] = taskState'[TaskOf(r)]]
             /\ taskState'[TaskOf(r)] \in {"retry", "archived"}
             /\ \A t \in Tasks : Due(t)' = Due(t)
  <2>1. \A t \in Tasks : Due(t)' = Due(t)
    BY <1>1, GiveBackDue DEF Live
  <2>. QED  BY <1>1, <2>1 DEF GiveBack, TypeOK
<1>2. CASE FailDeployment(r)
  <2>1. GoesOn(r, "failSvc")
    BY <1>2, OutcomesAreBooleans
    DEF FailDeployment, UpdateDeployment, GoesOn, RowsMove, TypeOK, BuildPCs
  <2>. QED  BY ONLY <2>1
<1>3. CASE FailService(r)
  BY <1>3 DEF FailService, GoesOn, RowsMove, TypeOK, BuildPCs
<1>4. CASE Ack(r)
  <2>1. taskState' = [taskState EXCEPT ![TaskOf(r)] = "done"] /\ retried' = retried
    BY <1>4 DEF Ack
  <2>2. \A t \in Tasks : Due(t)' = Due(t)
    BY <2>1 DEF Due, TypeOK, Live
  <2>. QED  BY <1>4, <2>1, <2>2 DEF Ack, Ends, TypeOK
<1>5. CASE ReturnError(r)
  <2>1. CASE Exhausted(TaskOf(r))
    <3>1. GoesOn(r, "exhaustedDep")
      BY <1>5, <2>1 DEF ReturnError, GoesOn, RowsMove, TypeOK, BuildPCs
    <3>. QED  BY <3>1
  <2>2. CASE ~Exhausted(TaskOf(r))
    <3>1. GiveBack(TaskOf(r)) /\ At(r, "err") /\ Goto(r, "off")
          /\ UNCHANGED <<rows, starts, req, restarts>>
      BY <1>5, <2>2 DEF ReturnError
    <3>2. Ends(r)
      BY <1>1, <3>1 DEF Ends
    <3>. QED  BY <3>2
  <2>. QED  BY <2>1, <2>2
<1>6. CASE ExhaustedFailDeployment(r)
  BY <1>6, PipelineAssumption
  DEF ExhaustedFailDeployment, UpdateDeployment, GoesOn, RowsMove, TypeOK, BuildPCs
<1>7. CASE ExhaustedFailService(r)
  <2>1. Ends(r)
    BY <1>1, <1>7 DEF ExhaustedFailService, Ends
  <2>. QED  BY <2>1
<1>. QED  BY <1>2, <1>3, <1>4, <1>5, <1>6, <1>7 DEF EndNext

LEMMA InitRuns == Init => RunsInv
  BY PipelineAssumption, TaskFacts, RunFacts, RunOfTask
  DEF Init, RunsInv, OnlyLiveRuns, ActiveHasRun, FreshTasks

LEMMA ReqRuns ==
  ASSUME TypeOK, RunsInv, NEW d \in Deployments, ReqNext(d)
  PROVE  RunsInv'
<1>. USE DEF RunsInv, rows, queue, host
<1>1. req \in [Deployments -> ReqActive \cup {"none", "done", "aborted"}]
  BY DEF TypeOK
<1>2. CASE ~ReqEnqueue(d)
  <2>1. /\ UNCHANGED <<taskState, starts, pc>>
        /\ req' = [req EXCEPT ![d] = req'[d]] /\ req[d] \in ReqActive \cup {"none"}
    BY <1>2 DEF ReqNext, ReqInsertDeployment, ReqInsertBuild, ReqMarkBuilding, ReqMarkService,
       ReqAbort, ReqStep, ReqActive, TypeOK
  <2>2. OnlyLiveRuns' /\ ActiveHasRun'
    BY <2>1 DEF OnlyLiveRuns, ActiveHasRun, Live
  <2>3. FreshTasks'
    BY <1>1, <2>1 DEF FreshTasks
  <2>. QED  BY <2>2, <2>3
<1>3. CASE ReqEnqueue(d)
  <2>1. /\ taskState' = [taskState EXCEPT ![BuildTask(d)] = "pending"]
        /\ UNCHANGED <<starts, pc>>
        /\ req' = [req EXCEPT ![d] = "done"]
        /\ taskState[BuildTask(d)] = "absent"
        /\ taskState \in [Tasks -> InFlight \cup {"absent", "done", "archived"}]
    BY <1>3 DEF ReqEnqueue, ReqStep, FreshTasks, ReqActive, TypeOK
  <2>2. OnlyLiveRuns'
    BY <2>1 DEF OnlyLiveRuns, Live
  <2>3. ActiveHasRun'
    BY <2>1 DEF ActiveHasRun
  <2>4. FreshTasks'
    <3>1. \A e \in Deployments, n \in Deliveries : DeployTask(e, n) # BuildTask(d)
      BY TaskFacts
    <3>2. \A e \in Deployments : e # d => BuildTask(e) # BuildTask(d)
      BY DEF BuildTask
    <3>. QED  BY <1>1, <2>1, <3>1, <3>2 DEF FreshTasks, ReqActive
  <2>. QED  BY <2>2, <2>3, <2>4
<1>. QED  BY <1>2, <1>3

\* What Start does; nobody else runs the task meanwhile.
LEMMA StartFacts ==
  ASSUME TypeOK, RunsInv, NEW t \in Tasks, Start(t)
  PROVE  LET n == starts[t] + 1 IN
         /\ taskState[t] \in {"pending", "retry"}
         /\ taskState' = [taskState EXCEPT ![t] = "active"]
         /\ starts' = [starts EXCEPT ![t] = n]
         /\ pc' = [pc EXCEPT ![<<t, n>>] = FirstStep(t)]
         /\ UNCHANGED <<rows, req, pushed, host>>
         /\ starts[t] \in 0 .. MaxDeliveries /\ n \in Deliveries
         /\ <<t, n>> \in Runs /\ TaskOf(<<t, n>>) = t
         /\ \A q \in Runs : TaskOf(q) = t => pc[q] = "off"
<1>1. starts[t] + 1 \in Deliveries
  BY PipelineAssumption DEF TypeOK, Deliveries, Start
<1>. QED  BY <1>1, RunOfTask DEF TypeOK, RunsInv, OnlyLiveRuns, Live, Start, Goto

LEMMA QueueRuns ==
  ASSUME TypeOK, RunsInv, ~Timeouts, NEW t \in Tasks, QueueNext(t)
  PROVE  Start(t) /\ RunsInv'
<1>. USE DEF RunsInv
<1>1. Start(t)
  BY DEF QueueNext, Expire, Recover, ActiveHasRun
<1>. DEFINE n == starts[t] + 1
<1>2. /\ taskState[t] \in {"pending", "retry"}
      /\ taskState' = [taskState EXCEPT ![t] = "active"]
      /\ starts' = [starts EXCEPT ![t] = n]
      /\ pc' = [pc EXCEPT ![<<t, n>>] = FirstStep(t)]
      /\ UNCHANGED req
      /\ starts[t] \in 0 .. MaxDeliveries /\ n \in Deliveries
      /\ starts \in [Tasks -> 0 .. MaxDeliveries]
      /\ taskState \in [Tasks -> InFlight \cup {"absent", "done", "archived"}]
      /\ pc \in [Runs -> BuildPCs \cup DeployPCs \cup CommonPCs]
      /\ <<t, n>> \in Runs /\ TaskOf(<<t, n>>) = t
      /\ \A q \in Runs : TaskOf(q) = t => pc[q] = "off"
  BY <1>1, StartFacts DEF TypeOK
<1>. HIDE DEF n
<1>3. FirstStep(t) # "off"
  BY DEF FirstStep
<1>4. OnlyLiveRuns'
  <2>. SUFFICES ASSUME NEW q \in Runs, pc'[q] # "off"  PROVE Live(q)'
    BY DEF OnlyLiveRuns
  <2>1. CASE q = <<t, n>>
    BY <1>2, <2>1 DEF Live
  <2>2. CASE q # <<t, n>>
    <3>1. pc[q] # "off" /\ TaskOf(q) # t
      BY <1>2, <2>2
    <3>. QED  BY <1>2, <3>1, RunFacts DEF OnlyLiveRuns, Live
  <2>. QED  BY <2>1, <2>2
<1>5. \A u \in Tasks \ {t} : \A m : <<u, m>> # <<t, n>>
  OBVIOUS
<1>6. ActiveHasRun'
  BY <1>2, <1>3, <1>5 DEF ActiveHasRun
<1>7. FreshTasks'
  <2>1. \A u \in Tasks : taskState[u] = "absent" => taskState'[u] = "absent"
    BY <1>2
  <2>2. ASSUME NEW d \in Deployments, NEW m \in Deliveries,
               starts'[BuildTask(d)] < m \/ pc'[<<BuildTask(d), m>>] \in BuildPCs
        PROVE  taskState[DeployTask(d, m)] = "absent"
    <3>1. CASE starts[BuildTask(d)] < m \/ pc[<<BuildTask(d), m>>] \in BuildPCs
      BY <3>1 DEF FreshTasks
    <3>2. CASE BuildTask(d) = t /\ m = n
      <4>1. starts[BuildTask(d)] < m
        BY <1>2, <3>2 DEF n
      <4>. QED  BY <4>1 DEF FreshTasks
    <3>3. CASE BuildTask(d) = t /\ starts'[BuildTask(d)] < m
      <4>1. starts[BuildTask(d)] < m
        BY <1>2, <3>3 DEF n, Deliveries
      <4>. QED  BY <4>1 DEF FreshTasks
    <3>. QED  BY <1>2, <2>2, <3>1, <3>2, <3>3, RunOfTask, TaskFacts
  <2>. QED  BY <1>2, <2>1, <2>2, TaskFacts DEF FreshTasks
<1>. QED  BY <1>1, <1>4, <1>6, <1>7

\* What an orderly stop does: every run of the worker is live, and its task is
\* queued again.
LEMMA RestartFacts ==
  ASSUME TypeOK, RunsInv, NEW kind \in {"build", "deploy"}, Restart(kind)
  PROVE  /\ UNCHANGED <<starts, req, rows>>
         /\ pc' = [r \in Runs |-> IF TaskOf(r)[1] = kind THEN "off" ELSE pc[r]]
         /\ \A t \in Tasks :
              /\ t[1] # kind => taskState'[t] = taskState[t]
              /\ t[1] = kind /\ taskState[t] = "active" => taskState'[t] = "pending"
              /\ taskState[t] # "active" => taskState'[t] = taskState[t]
<1>. USE DEF RunsInv, rows, queue, host
<1>1. /\ UNCHANGED <<starts, req, rows>>
      /\ taskState' = [t \in Tasks |->
           IF \E r \in Runs : TaskOf(r) = t /\ t[1] = kind /\ pc[r] # "off" /\ Live(r)
           THEN "pending" ELSE taskState[t]]
      /\ pc' = [r \in Runs |-> IF TaskOf(r)[1] = kind THEN "off" ELSE pc[r]]
  BY DEF Restart
<1>2. ASSUME NEW t \in Tasks, taskState[t] = "active"
      PROVE  \E r \in Runs : TaskOf(r) = t /\ pc[r] # "off" /\ Live(r)
  <2>1. starts[t] \in Deliveries /\ pc[<<t, starts[t]>>] # "off"
    BY <1>2 DEF ActiveHasRun
  <2>2. <<t, starts[t]>> \in Runs /\ TaskOf(<<t, starts[t]>>) = t
    BY <2>1, RunOfTask
  <2>. QED  BY <2>1, <2>2 DEF OnlyLiveRuns
<1>. QED  BY <1>1, <1>2 DEF Live

LEMMA RestartRuns ==
  ASSUME TypeOK, RunsInv, NEW kind \in {"build", "deploy"}, Restart(kind)
  PROVE  RunsInv'
<1>. USE DEF RunsInv
<1>1. OnlyLiveRuns'
  BY RestartFacts, RunFacts DEF OnlyLiveRuns, Live
<1>2. ActiveHasRun'
  <2>. SUFFICES ASSUME NEW t \in Tasks, taskState'[t] = "active"
                PROVE  starts[t] \in Deliveries /\ pc'[<<t, starts[t]>>] # "off"
    BY RestartFacts DEF ActiveHasRun
  <2>1. t[1] # kind /\ taskState[t] = "active"
    BY RestartFacts
  <2>. QED  BY <2>1, RestartFacts, RunOfTask DEF ActiveHasRun
<1>3. FreshTasks'
  <2>1. \A t \in Tasks : taskState[t] = "absent" => taskState'[t] = "absent"
    BY RestartFacts
  <2>2. \A r \in Runs : pc'[r] \in BuildPCs => pc[r] \in BuildPCs
    BY RestartFacts DEF BuildPCs
  <2>. QED  BY <2>1, <2>2, RestartFacts, TaskFacts, RunOfTask DEF FreshTasks
<1>. QED  BY <1>1, <1>2, <1>3

\* A run that goes on stays the run of its task.
LEMMA GoesOnRuns ==
  ASSUME TypeOK, RunsInv, NEW r \in Runs, NEW l, GoesOn(r, l)
  PROVE  RunsInv'
<1>. USE DEF RunsInv
<1>1. /\ pc \in [Runs -> BuildPCs \cup DeployPCs \cup CommonPCs]
      /\ pc' = [pc EXCEPT ![r] = l]
      /\ pc[r] # "off" /\ l # "off"
      /\ l \in BuildPCs => pc[r] \in BuildPCs
      /\ UNCHANGED <<taskState, starts, req>>
  BY DEF TypeOK, Goto, GoesOn, queue
<1>2. OnlyLiveRuns'
  BY <1>1 DEF OnlyLiveRuns, Live
<1>3. ActiveHasRun'
  <2>. SUFFICES ASSUME NEW t \in Tasks, taskState[t] = "active"
                PROVE  starts[t] \in Deliveries /\ pc'[<<t, starts[t]>>] # "off"
    BY <1>1 DEF ActiveHasRun
  <2>. QED  BY <1>1, RunOfTask DEF ActiveHasRun
<1>4. FreshTasks'
  BY <1>1, RunOfTask, TaskFacts DEF FreshTasks
<1>. QED  BY <1>2, <1>3, <1>4

\* A run that ends takes its delivery along.
LEMMA EndsRuns ==
  ASSUME TypeOK, RunsInv, NEW r \in Runs, Ends(r)
  PROVE  RunsInv'
<1>. USE DEF RunsInv
<1>1. /\ pc \in [Runs -> BuildPCs \cup DeployPCs \cup CommonPCs]
      /\ pc' = [pc EXCEPT ![r] = "off"]
      /\ pc[r] # "off"
      /\ UNCHANGED <<starts, req>>
      /\ \A t \in Tasks \ {TaskOf(r)} : taskState'[t] = taskState[t]
      /\ taskState'[TaskOf(r)] \notin {"active", "absent"}
  BY DEF TypeOK, Goto, Ends
<1>2. Live(r) /\ r = <<TaskOf(r), starts[TaskOf(r)]>>
  BY <1>1, RunFacts DEF OnlyLiveRuns, Live
<1>3. OnlyLiveRuns'
  <2>. SUFFICES ASSUME NEW q \in Runs, pc'[q] # "off"  PROVE Live(q)'
    BY DEF OnlyLiveRuns
  <2>1. q # r /\ Live(q)
    BY <1>1 DEF OnlyLiveRuns
  <2>2. TaskOf(q) # TaskOf(r)
    BY <1>2, <2>1, RunFacts DEF Live
  <2>. QED  BY <1>1, <2>1, <2>2, RunFacts DEF Live
<1>4. ActiveHasRun'
  <2>. SUFFICES ASSUME NEW t \in Tasks, taskState'[t] = "active"
                PROVE  starts[t] \in Deliveries /\ pc'[<<t, starts[t]>>] # "off"
    BY <1>1 DEF ActiveHasRun
  <2>1. t # TaskOf(r) /\ taskState[t] = "active"
    BY <1>1
  <2>. QED  BY <1>1, <1>2, <2>1, RunOfTask DEF ActiveHasRun
<1>5. FreshTasks'
  <2>1. \A t \in Tasks : taskState[t] = "absent" => taskState'[t] = "absent"
    BY <1>1, <1>2 DEF Live
  <2>. QED  BY <1>1, <2>1, RunOfTask, TaskFacts DEF FreshTasks, BuildPCs
<1>. QED  BY <1>3, <1>4, <1>5

\* The task of a hand-over is new, and enqueued by the last build run there is.
LEMMA HandsOverRuns ==
  ASSUME TypeOK, RunsInv, NEW r \in Runs, HandsOver(r)
  PROVE  RunsInv' /\ taskState[DeployTask(DepOf(r), r[2])] = "absent"
<1>. USE DEF RunsInv
<1>. DEFINE u == DeployTask(DepOf(r), r[2])
<1>1. /\ UNCHANGED <<starts, req>>
      /\ taskState' = [taskState EXCEPT ![u] = "pending"]
      /\ pc' = [pc EXCEPT ![r] = "ack"]
      /\ pc[r] = "enqueue" /\ TaskOf(r) = BuildTask(DepOf(r))
      /\ pc \in [Runs -> BuildPCs \cup DeployPCs \cup CommonPCs]
      /\ taskState \in [Tasks -> InFlight \cup {"absent", "done", "archived"}]
  BY DEF HandsOver, Goto, TypeOK
<1>2. Live(r) /\ r = <<TaskOf(r), starts[TaskOf(r)]>>
  BY <1>1, RunFacts DEF OnlyLiveRuns, Live
<1>3. u \in Tasks /\ u # TaskOf(r)
  BY <1>1, RunFacts, TaskFacts
<1>4. taskState[u] = "absent"
  BY <1>1, <1>2, RunFacts DEF FreshTasks, BuildPCs
<1>. HIDE DEF u
<1>5. OnlyLiveRuns'
  BY <1>1, <1>2, <1>3, <1>4, RunFacts DEF OnlyLiveRuns, Live
<1>6. ActiveHasRun'
  <2>. SUFFICES ASSUME NEW t \in Tasks, taskState'[t] = "active"
                PROVE  starts[t] \in Deliveries /\ pc'[<<t, starts[t]>>] # "off"
    BY <1>1 DEF ActiveHasRun
  <2>1. taskState[t] = "active"
    BY <1>1
  <2>. QED  BY <1>1, <2>1, RunOfTask DEF ActiveHasRun
<1>7. FreshTasks'
  <2>1. ASSUME NEW d \in Deployments, NEW n \in Deliveries,
               starts'[BuildTask(d)] < n \/ pc'[<<BuildTask(d), n>>] \in BuildPCs
        PROVE  taskState'[DeployTask(d, n)] = "absent"
    <3>1. <<BuildTask(d), n>> # r
      <4>. SUFFICES ASSUME <<BuildTask(d), n>> = r  PROVE FALSE
        OBVIOUS
      <4>1. n = r[2] /\ BuildTask(d) = TaskOf(r)
        BY DEF TaskOf
      <4>2. n \in Nat /\ starts[BuildTask(d)] = n /\ pc'[r] = "ack"
        BY <1>1, <1>2, <4>1 DEF Deliveries, Live
      <4>. QED  BY <1>1, <2>1, <4>2 DEF BuildPCs
    <3>2. starts[BuildTask(d)] < n \/ pc[<<BuildTask(d), n>>] \in BuildPCs
      BY <1>1, <2>1, <3>1, RunOfTask, TaskFacts
    <3>3. taskState[DeployTask(d, n)] = "absent"
      BY <3>2 DEF FreshTasks
    <3>4. DeployTask(d, n) # u
      BY <1>1, <3>1, RunFacts, DeployTaskInjective DEF u
    <3>. QED  BY <1>1, <3>3, <3>4, TaskFacts
  <2>2. \A d \in Deployments : BuildTask(d) # u
    BY <1>3, TaskFacts, RunFacts DEF u
  <2>. QED  BY <1>1, <2>1, <2>2 DEF FreshTasks
<1>. QED  BY <1>4, <1>5, <1>6, <1>7 DEF u

\* The shapes of a step of a live run.
LEMMA RunShape ==
  ASSUME TypeOK, RunsInv, NEW r \in Runs, RunNext(r)
  PROVE  HandsOver(r) \/ Ends(r) \/ \E l : GoesOn(r, l)
  BY BuildShape, DeployShape, EndShape DEF RunNext, RunsInv, OnlyLiveRuns

\* As long as no handler outlives its Timeout and no worker dies, every task has
\* at most one goroutine, every active task has exactly one, and nothing is
\* enqueued twice: whatever statements and requests fail, and for any number of
\* retries and orderly restarts.
THEOREM OneRunPerTask == ~Timeouts /\ ~Crashes => (Spec => []RunsInv)
<1>. SUFFICES ASSUME ~Timeouts, ~Crashes  PROVE Spec => []RunsInv
  OBVIOUS
<1>1. TypeOK /\ RunsInv /\ [Next]_vars => RunsInv'
  <2>. SUFFICES ASSUME TypeOK, RunsInv, [Next]_vars  PROVE RunsInv'
    OBVIOUS
  <2>1. CASE UNCHANGED vars
    BY <2>1 DEF RunsInv, OnlyLiveRuns, ActiveHasRun, FreshTasks, Live, vars, rows, queue, host
  <2>2. CASE \E d \in Deployments : ReqNext(d)
    BY <2>2, ReqRuns
  <2>3. CASE \E t \in Tasks : QueueNext(t)
    BY <2>3, QueueRuns
  <2>4. CASE \E kind \in {"build", "deploy"} : Restart(kind) \/ Crash(kind)
    BY <2>4, RestartRuns DEF Crash
  <2>5. CASE \E r \in Runs : RunNext(r)
    BY <2>5, RunShape, GoesOnRuns, EndsRuns, HandsOverRuns
  <2>. QED  BY <2>1, <2>2, <2>3, <2>4, <2>5 DEF Next
<1>. QED  BY <1>1, InitRuns, TypeCorrect, PTL DEF Spec

-----------------------------------------------------------------------------
(* Retries and restarts bound the deliveries of a task, whatever fails.    *)

LEMMA DueType ==
  ASSUME TypeOK, NEW t \in Tasks
  PROVE  Due(t) \in Nat /\ Due(t) <= MaxRetry + 1 /\ starts[t] \in Nat /\ restarts \in Nat
<1>1. retried[t] \in 0 .. MaxRetry /\ MaxRetry \in Nat
  BY PipelineAssumption DEF TypeOK
<1>2. starts[t] \in Nat /\ restarts \in Nat
  BY PipelineAssumption DEF TypeOK
<1>. QED  BY <1>1, <1>2 DEF Due

LEMMA DueTypeNext ==
  ASSUME TypeOK', NEW t \in Tasks
  PROVE  Due(t)' \in Nat
<1>1. retried'[t] \in 0 .. MaxRetry /\ MaxRetry \in Nat
  BY PipelineAssumption DEF TypeOK
<1>. QED  BY <1>1 DEF Due

LEMMA InitDelivery == Init => DeliveryInv
  BY PipelineAssumption, TaskFacts, RunFacts, RunOfTask
  DEF Init, DeliveryInv, FreshTasks, DeliveredRuns, GivenBack, Due

\* A step of a run that enqueues nothing.
LEMMA NothingEnqueued ==
  ASSUME TypeOK, DeliveryInv, NEW r \in Runs, pc[r] # "off", NEW l,
         Goto(r, l), l \in BuildPCs => pc[r] \in BuildPCs,
         UNCHANGED <<starts, req, restarts>>,
         \A t \in Tasks : taskState'[t] = "absent" <=> taskState[t] = "absent"
  PROVE  FreshTasks' /\ DeliveredRuns'
<1>1. pc \in [Runs -> BuildPCs \cup DeployPCs \cup CommonPCs] /\ pc' = [pc EXCEPT ![r] = l]
  BY DEF TypeOK, Goto
<1>2. \A q \in Runs : /\ pc'[q] # "off" => pc[q] # "off"
                      /\ pc'[q] \in BuildPCs => pc[q] \in BuildPCs
  BY <1>1
<1>3. FreshTasks'
  <2>. SUFFICES ASSUME NEW d \in Deployments
                PROVE  /\ req[d] \in ReqActive \cup {"none"} => taskState'[BuildTask(d)] = "absent"
                       /\ \A n \in Deliveries :
                            starts[BuildTask(d)] < n \/ pc'[<<BuildTask(d), n>>] \in BuildPCs
                              => taskState'[DeployTask(d, n)] = "absent"
    BY DEF FreshTasks
  <2>1. /\ BuildTask(d) \in Tasks
        /\ \A n \in Deliveries : DeployTask(d, n) \in Tasks /\ <<BuildTask(d), n>> \in Runs
    BY TaskFacts, RunOfTask
  <2>2. /\ req[d] \in ReqActive \cup {"none"} => taskState[BuildTask(d)] = "absent"
        /\ \A n \in Deliveries :
             starts[BuildTask(d)] < n \/ pc[<<BuildTask(d), n>>] \in BuildPCs
               => taskState[DeployTask(d, n)] = "absent"
    BY DEF DeliveryInv, FreshTasks
  <2>. QED  BY <1>2, <2>1, <2>2
<1>4. DeliveredRuns'
  <2>. SUFFICES ASSUME NEW q \in Runs, pc'[q] # "off"
                PROVE  taskState'[TaskOf(q)] # "absent" /\ q[2] <= starts[TaskOf(q)]
    BY DEF DeliveredRuns
  <2>1. taskState[TaskOf(q)] # "absent" /\ q[2] <= starts[TaskOf(q)]
    BY <1>2 DEF DeliveryInv, DeliveredRuns
  <2>2. TaskOf(q) \in Tasks
    BY RunFacts
  <2>. QED  BY <2>1, <2>2
<1>. QED  BY <1>3, <1>4

\* A step of a run by which no task is due less often.
LEMMA NothingGivenBack ==
  ASSUME TypeOK, TypeOK', DeliveryInv, UNCHANGED <<starts, restarts>>,
         \A t \in Tasks : Due(t)' >= Due(t)
  PROVE  \A t \in Tasks : GivenBack(t)' <= restarts'
<1>. SUFFICES ASSUME NEW t \in Tasks  PROVE GivenBack(t)' <= restarts'
  OBVIOUS
<1>1. Due(t) \in Nat /\ Due(t)' \in Nat /\ starts[t] \in Nat /\ restarts \in Nat
  BY DueType, DueTypeNext
<1>. QED  BY <1>1 DEF DeliveryInv, GivenBack

LEMMA GoesOnDelivery ==
  ASSUME TypeOK, TypeOK', DeliveryInv, NEW r \in Runs, NEW l, GoesOn(r, l)
  PROVE  DeliveryInv'
<1>1. \A t \in Tasks : Due(t)' = Due(t) /\ Due(t) \in Nat
  BY DueType DEF GoesOn, Due, queue
<1>2. \A t \in Tasks : GivenBack(t)' <= restarts'
  BY <1>1, NothingGivenBack DEF GoesOn, queue
<1>3. FreshTasks' /\ DeliveredRuns'
  BY NothingEnqueued DEF GoesOn, queue
<1>. QED  BY <1>2, <1>3 DEF DeliveryInv

\* What is handed over is enqueued once by every delivery of the build.
LEMMA HandsOverDelivery ==
  ASSUME TypeOK, TypeOK', DeliveryInv, NEW r \in Runs, HandsOver(r)
  PROVE  DeliveryInv'
<1>. DEFINE d == DepOf(r)
            u == DeployTask(d, r[2])
<1>1. /\ UNCHANGED <<retried, starts, req, restarts>>
      /\ taskState' = [taskState EXCEPT ![u] = "pending"]
      /\ pc' = [pc EXCEPT ![r] = "ack"]
      /\ pc[r] = "enqueue" /\ TaskOf(r) = BuildTask(d)
      /\ r = <<BuildTask(d), r[2]>> /\ r[2] \in Deliveries /\ d \in Deployments
      /\ pc \in [Runs -> BuildPCs \cup DeployPCs \cup CommonPCs]
      /\ taskState \in [Tasks -> InFlight \cup {"absent", "done", "archived"}]
  BY RunFacts DEF HandsOver, Goto, TypeOK
<1>2. u \in Tasks /\ \A e \in Deployments : BuildTask(e) # u
  BY <1>1, TaskFacts
<1>3. taskState[u] = "absent"
  BY <1>1 DEF DeliveryInv, FreshTasks, BuildPCs
<1>4. r[2] <= starts[BuildTask(d)] /\ starts[BuildTask(d)] \in Nat /\ r[2] \in Nat
  BY <1>1, DueType, TaskFacts DEF DeliveryInv, DeliveredRuns, Deliveries
<1>5. \A e \in Deployments, n \in Deliveries : DeployTask(e, n) = u => e = d /\ n = r[2]
  BY DeployTaskInjective
<1>. HIDE DEF u, d
<1>6. FreshTasks'
  <2>1. \A e \in Deployments : taskState'[BuildTask(e)] = taskState[BuildTask(e)]
    BY <1>1, <1>2, TaskFacts
  <2>2. ASSUME NEW e \in Deployments, NEW n \in Deliveries,
               starts[BuildTask(e)] < n \/ pc'[<<BuildTask(e), n>>] \in BuildPCs
        PROVE  taskState'[DeployTask(e, n)] = "absent"
    <3>1. starts[BuildTask(e)] < n \/ pc[<<BuildTask(e), n>>] \in BuildPCs
      BY <1>1, <2>2, RunOfTask, TaskFacts DEF BuildPCs
    <3>2. DeployTask(e, n) # u
      <4>. SUFFICES ASSUME e = d, n = r[2]  PROVE FALSE
        BY <1>5
      <4>1. pc'[<<BuildTask(e), n>>] = "ack"
        BY <1>1
      <4>. QED  BY <1>4, <2>2, <4>1 DEF BuildPCs
    <3>. QED  BY <1>1, <3>1, <3>2, TaskFacts DEF DeliveryInv, FreshTasks
  <2>. QED  BY <1>1, <2>1, <2>2 DEF DeliveryInv, FreshTasks
<1>7. DeliveredRuns'
  BY <1>1, RunFacts DEF DeliveryInv, DeliveredRuns
<1>8. \A t \in Tasks : GivenBack(t)' = GivenBack(t)
  BY <1>1, <1>3 DEF GivenBack, Due
<1>. QED  BY <1>1, <1>6, <1>7, <1>8 DEF DeliveryInv

\* The end of a run, asynq still waiting for it or not.
LEMMA EndDelivery ==
  ASSUME TypeOK, TypeOK', DeliveryInv, NEW r \in Runs, pc[r] # "off", EndNext(r)
  PROVE  DeliveryInv'
<1>1. \E l : Goto(r, l) /\ l \notin BuildPCs
  <2>1. \E l \in {"failSvc", "err", "off", "exhaustedDep", "exhaustedSvc"} : Goto(r, l)
    BY DEF EndNext, FailDeployment, FailService, Ack, ReturnError, ExhaustedFailDeployment,
       ExhaustedFailService
  <2>. QED  BY <2>1 DEF BuildPCs
<1>2. UNCHANGED <<starts, req, restarts>>
  BY DEF EndNext, FailDeployment, FailService, Ack, ReturnError, ExhaustedFailDeployment,
     ExhaustedFailService, queue
<1>3. taskState[TaskOf(r)] # "absent" /\ TaskOf(r) \in Tasks
  BY RunFacts DEF DeliveryInv, DeliveredRuns
<1>4. \/ UNCHANGED <<taskState, retried>>
      \/ Ack(r)
      \/ GiveBack(TaskOf(r))
  BY DEF EndNext, FailDeployment, FailService, ReturnError, ExhaustedFailDeployment,
     ExhaustedFailService, queue
<1>5. ASSUME NEW t \in Tasks
      PROVE  /\ Due(t)' >= Due(t)
             /\ taskState'[t] = "absent" <=> taskState[t] = "absent"
  <2>1. CASE UNCHANGED <<taskState, retried>>
    BY <2>1, DueType DEF Due
  <2>2. CASE Ack(r)
    <3>1. retried' = retried
          /\ taskState' = [taskState EXCEPT ![TaskOf(r)] = IF Live(r) THEN "done" ELSE @]
      BY <2>2 DEF Ack
    <3>2. Due(t)' = Due(t)
      BY <3>1 DEF Due, TypeOK, Live
    <3>. QED  BY <1>3, <3>1, <3>2, DueType DEF TypeOK
  <2>3. CASE GiveBack(TaskOf(r)) /\ t = TaskOf(r)
    BY <1>3, <2>3, GiveBackDue
  <2>4. CASE GiveBack(TaskOf(r)) /\ t # TaskOf(r)
    BY <1>3, <2>4, GiveBackDue, DueType
  <2>. QED  BY <1>4, <2>1, <2>2, <2>3, <2>4
<1>6. \A t \in Tasks : GivenBack(t)' <= restarts'
  BY <1>2, <1>5, NothingGivenBack
<1>7. FreshTasks' /\ DeliveredRuns'
  <2>1. \A t \in Tasks : taskState'[t] = "absent" <=> taskState[t] = "absent"
    BY <1>5
  <2>. QED  BY ONLY <1>1, <1>2, <2>1, NothingEnqueued, TypeOK, DeliveryInv, r \in Runs, pc[r] # "off"
<1>. QED  BY <1>6, <1>7 DEF DeliveryInv

LEMMA ReqDelivery ==
  ASSUME TypeOK, DeliveryInv, NEW d \in Deployments, ReqNext(d)
  PROVE  DeliveryInv'
<1>. USE DEF rows, queue, host
<1>1. req \in [Deployments -> ReqActive \cup {"none", "done", "aborted"}]
  BY DEF TypeOK
<1>2. CASE ~ReqEnqueue(d)
  <2>1. /\ UNCHANGED <<queue, pc, restarts>>
        /\ req' = [req EXCEPT ![d] = req'[d]] /\ req[d] \in ReqActive \cup {"none"}
    BY <1>2 DEF ReqNext, ReqInsertDeployment, ReqInsertBuild, ReqMarkBuilding, ReqMarkService,
       ReqAbort, ReqStep, ReqActive, TypeOK
  <2>2. FreshTasks'
    BY <1>1, <2>1 DEF DeliveryInv, FreshTasks
  <2>. QED  BY <2>1, <2>2 DEF DeliveryInv, DeliveredRuns, GivenBack, Due
<1>3. CASE ReqEnqueue(d)
  <2>1. /\ taskState' = [taskState EXCEPT ![BuildTask(d)] = "pending"]
        /\ UNCHANGED <<retried, starts, pc, restarts>>
        /\ req' = [req EXCEPT ![d] = "done"]
        /\ taskState[BuildTask(d)] = "absent"
        /\ taskState \in [Tasks -> InFlight \cup {"absent", "done", "archived"}]
    BY <1>3 DEF ReqEnqueue, ReqStep, DeliveryInv, FreshTasks, ReqActive, TypeOK
  <2>2. FreshTasks'
    <3>1. \A e \in Deployments, n \in Deliveries : DeployTask(e, n) # BuildTask(d)
      BY TaskFacts
    <3>2. \A e \in Deployments : e # d => BuildTask(e) # BuildTask(d)
      BY DEF BuildTask
    <3>. QED  BY <1>1, <2>1, <3>1, <3>2 DEF DeliveryInv, FreshTasks, ReqActive
  <2>3. DeliveredRuns'
    BY <2>1, RunFacts DEF DeliveryInv, DeliveredRuns
  <2>4. \A t \in Tasks : GivenBack(t)' = GivenBack(t)
    BY <2>1 DEF GivenBack, Due
  <2>. QED  BY <2>1, <2>2, <2>3, <2>4 DEF DeliveryInv
<1>. QED  BY <1>2, <1>3

LEMMA StartDelivery ==
  ASSUME TypeOK, DeliveryInv, NEW t \in Tasks, Start(t)
  PROVE  DeliveryInv'
<1>. DEFINE n == starts[t] + 1
<1>1. /\ taskState[t] \in {"pending", "retry"}
      /\ taskState' = [taskState EXCEPT ![t] = "active"]
      /\ starts' = [starts EXCEPT ![t] = n]
      /\ pc' = [pc EXCEPT ![<<t, n>>] = FirstStep(t)]
      /\ UNCHANGED <<retried, req, restarts>>
      /\ n \in Nat /\ starts[t] = n - 1 /\ starts[t] < n
      /\ starts \in [Tasks -> 0 .. MaxDeliveries] /\ MaxDeliveries \in Nat
      /\ taskState \in [Tasks -> InFlight \cup {"absent", "done", "archived"}]
      /\ pc \in [Runs -> BuildPCs \cup DeployPCs \cup CommonPCs]
      /\ retried[t] \in Nat
  BY PipelineAssumption DEF Start, Goto, TypeOK
<1>. HIDE DEF n
<1>2. \A u \in Tasks : taskState[u] = "absent" <=> taskState'[u] = "absent"
  BY <1>1
<1>3. \A u \in Tasks : starts[u] \in Nat /\ starts'[u] \in Nat /\ starts[u] <= starts'[u]
  BY <1>1
<1>4. FreshTasks'
  <2>1. ASSUME NEW d \in Deployments, NEW m \in Deliveries,
               starts'[BuildTask(d)] < m \/ pc'[<<BuildTask(d), m>>] \in BuildPCs
        PROVE  taskState[DeployTask(d, m)] = "absent"
    <3>1. m \in Nat /\ BuildTask(d) \in Tasks
      BY TaskFacts DEF Deliveries
    <3>2. CASE <<BuildTask(d), m>> = <<t, n>>
      <4>1. starts[BuildTask(d)] < m
        BY <1>1, <3>2
      <4>. QED  BY <4>1 DEF DeliveryInv, FreshTasks
    <3>3. CASE <<BuildTask(d), m>> # <<t, n>>
      <4>1. starts[BuildTask(d)] < m \/ pc[<<BuildTask(d), m>>] \in BuildPCs
        <5>1. CASE starts'[BuildTask(d)] < m
          BY <1>3, <3>1, <5>1
        <5>2. CASE pc'[<<BuildTask(d), m>>] \in BuildPCs
          BY <1>1, <3>1, <3>3, <5>2, RunOfTask
        <5>. QED  BY <2>1, <5>1, <5>2
      <4>. QED  BY <4>1 DEF DeliveryInv, FreshTasks
    <3>. QED  BY <3>2, <3>3
  <2>. QED  BY <1>1, <1>2, <2>1, TaskFacts DEF DeliveryInv, FreshTasks
<1>5. DeliveredRuns'
  <2>. SUFFICES ASSUME NEW r \in Runs, pc'[r] # "off"
                PROVE  taskState'[TaskOf(r)] # "absent" /\ r[2] <= starts'[TaskOf(r)]
    BY DEF DeliveredRuns
  <2>1. r[2] \in Nat /\ TaskOf(r) \in Tasks /\ r = <<TaskOf(r), r[2]>>
    BY RunFacts DEF Deliveries
  <2>2. CASE r = <<t, n>>
    <3>1. TaskOf(r) = t /\ r[2] = n
      BY <2>2 DEF TaskOf
    <3>. QED  BY <1>1, <3>1
  <2>3. CASE r # <<t, n>>
    <3>1. taskState[TaskOf(r)] # "absent" /\ r[2] <= starts[TaskOf(r)]
      BY <1>1, <2>3 DEF DeliveryInv, DeliveredRuns
    <3>. QED  BY <1>2, <1>3, <2>1, <3>1
  <2>. QED  BY <2>2, <2>3
<1>6. \A u \in Tasks : GivenBack(u)' = GivenBack(u)
  <2>1. \A u \in Tasks \ {t} : GivenBack(u)' = GivenBack(u)
    BY <1>1 DEF GivenBack, Due
  <2>2. GivenBack(t)' = GivenBack(t)
    BY <1>1 DEF GivenBack, Due
  <2>. QED  BY <2>1, <2>2
<1>. QED  BY <1>1, <1>4, <1>5, <1>6 DEF DeliveryInv

LEMMA GiveBackDelivery ==
  ASSUME TypeOK, TypeOK', DeliveryInv, NEW t \in Tasks, Expire(t) \/ Recover(t)
  PROVE  DeliveryInv'
<1>1. /\ taskState[t] = "active" /\ GiveBack(t)
      /\ UNCHANGED <<starts, req, pc, restarts>>
  BY DEF Expire, Recover
<1>2. \A u \in Tasks : Due(u)' = Due(u) /\ (taskState'[u] = "absent" <=> taskState[u] = "absent")
  BY <1>1, GiveBackDue
<1>3. FreshTasks'
  BY <1>1, <1>2, TaskFacts DEF DeliveryInv, FreshTasks
<1>4. DeliveredRuns'
  BY <1>1, <1>2, RunFacts DEF DeliveryInv, DeliveredRuns
<1>. QED  BY <1>1, <1>2, <1>3, <1>4 DEF DeliveryInv, GivenBack

\* A stop gives every task of the worker back at most once, a crash gives back none.
LEMMA WorkerDelivery ==
  ASSUME TypeOK, TypeOK', DeliveryInv, NEW kind \in {"build", "deploy"}, Restart(kind) \/ Crash(kind)
  PROVE  DeliveryInv'
<1>1. /\ UNCHANGED <<retried, starts, req>>
      /\ restarts' = restarts + 1
      /\ \A t \in Tasks : \/ taskState'[t] = taskState[t]
                          \/ taskState[t] = "active" /\ taskState'[t] = "pending"
      /\ pc' = [r \in Runs |-> IF TaskOf(r)[1] = kind THEN "off" ELSE pc[r]]
  BY DEF Restart, Crash, queue, rows, Live, TypeOK
<1>2. \A t \in Tasks : taskState'[t] = "absent" <=> taskState[t] = "absent"
  BY <1>1
<1>3. \A r \in Runs : /\ pc'[r] # "off" => pc[r] # "off"
                      /\ pc'[r] \in BuildPCs => pc[r] \in BuildPCs
  BY <1>1 DEF BuildPCs
<1>4. FreshTasks'
  BY <1>1, <1>2, <1>3, TaskFacts, RunOfTask DEF DeliveryInv, FreshTasks
<1>5. DeliveredRuns'
  BY <1>1, <1>2, <1>3, RunFacts DEF DeliveryInv, DeliveredRuns
<1>6. ASSUME NEW t \in Tasks  PROVE GivenBack(t)' <= restarts'
  <2>1. Due(t) \in Nat /\ Due(t)' \in Nat /\ starts[t] \in Nat /\ restarts \in Nat
    BY DueType, DueTypeNext
  <2>2. Due(t) <= Due(t)' + 1
    <3>1. retried[t] \in Nat
      BY PipelineAssumption DEF TypeOK
    <3>. QED  BY <1>1, <3>1 DEF Due
  <2>. QED  BY <1>1, <2>1, <2>2 DEF DeliveryInv, GivenBack
<1>. QED  BY <1>4, <1>5, <1>6 DEF DeliveryInv

\* Whatever fails: what is enqueued is new, and besides its retries a task is
\* delivered again no more often than workers were restarted or died.
THEOREM DeliveriesAreBounded == Spec => []DeliveryInv
<1>1. TypeOK /\ TypeOK' /\ DeliveryInv /\ [Next]_vars => DeliveryInv'
  <2>. SUFFICES ASSUME TypeOK, TypeOK', DeliveryInv, [Next]_vars  PROVE DeliveryInv'
    OBVIOUS
  <2>1. CASE UNCHANGED vars
    BY <2>1 DEF DeliveryInv, FreshTasks, DeliveredRuns, GivenBack, Due, vars, queue
  <2>2. CASE \E r \in Runs : RunNext(r)
    BY <2>2, BuildShape, DeployShape, GoesOnDelivery, HandsOverDelivery, EndDelivery
    DEF RunNext
  <2>. QED  BY <2>1, <2>2, ReqDelivery, StartDelivery, GiveBackDelivery, WorkerDelivery
       DEF Next, QueueNext
<1>. QED  BY <1>1, InitDelivery, TypeCorrect, PTL DEF Spec

\* Where there is room for the retries and the restarts, MaxDeliveries never keeps
\* asynq from delivering what is queued: the bound is one of the instance and leaves
\* no behaviour out.
THEOREM DeliveriesAreNotCut ==
  MaxDeliveries > MaxRetry + MaxRestarts =>
    (Spec => [](\A t \in Tasks :
                  taskState[t] \in {"pending", "retry"} => starts[t] < MaxDeliveries))
<1>. SUFFICES ASSUME MaxDeliveries > MaxRetry + MaxRestarts
              PROVE  Spec => [](\A t \in Tasks :
                       taskState[t] \in {"pending", "retry"} => starts[t] < MaxDeliveries)
  OBVIOUS
<1>1. TypeOK /\ DeliveryInv => \A t \in Tasks :
        taskState[t] \in {"pending", "retry"} => starts[t] < MaxDeliveries
  <2>. SUFFICES ASSUME TypeOK, DeliveryInv, NEW t \in Tasks, taskState[t] \in {"pending", "retry"}
                PROVE  starts[t] < MaxDeliveries
    OBVIOUS
  <2>1. /\ retried[t] \in Nat /\ retried[t] <= MaxRetry /\ MaxRetry \in Nat
        /\ restarts \in Nat /\ restarts <= MaxRestarts /\ MaxRestarts \in Nat
        /\ starts[t] \in Nat /\ MaxDeliveries \in Nat
    BY PipelineAssumption DEF TypeOK
  <2>2. starts[t] - retried[t] <= restarts
    BY <2>1 DEF DeliveryInv, GivenBack, Due
  <2>. QED  BY <2>1, <2>2
<1>. QED  BY <1>1, DeliveriesAreBounded, TypeCorrect, PTL

-----------------------------------------------------------------------------
(* Nothing is stranded when the infrastructure is reliable.                *)

\* Without faults every statement of a live run succeeds.
LEMMA ReliableOutcomes ==
  ASSUME Reliable, NEW r, Live(r)
  PROVE  /\ DbOutcome(r) = {TRUE}
         /\ \A ok \in {TRUE, ~(DbErrors \/ Timeouts)} : ok = TRUE
         /\ \A ok \in {TRUE, ~EnqueueErrors} : ok = TRUE
  BY PipelineAssumption DEF Reliable, DbOutcome

LEMMA InitCovered == Init => Covered
  BY DEF Init, Covered

\* A run that goes on, without passing its last write of the status or having
\* passed it, leaves its deployment covered.
LEMMA GoesOnCovered ==
  ASSUME StrandInv, NEW r \in Runs, NEW l, GoesOn(r, l),
         \/ l \notin AfterLastWrite
         \/ depStatus'[DepOf(r)] \in Terminal
         \/ pc[r] \in AfterLastWrite /\ depStatus'[DepOf(r)] = depStatus[DepOf(r)]
  PROVE  Covered'
<1>. USE DEF StrandInv, RunsInv
<1>1. /\ pc \in [Runs -> BuildPCs \cup DeployPCs \cup CommonPCs]
      /\ pc' = [pc EXCEPT ![r] = l]
      /\ pc[r] # "off"
      /\ UNCHANGED <<taskState, starts, req>>
      /\ \A d \in Deployments \ {DepOf(r)} : depStatus'[d] = depStatus[d]
  BY DEF TypeOK, Goto, GoesOn, RowsMove, queue
<1>2. Live(r) /\ r = <<TaskOf(r), starts[TaskOf(r)]>>
  BY <1>1, RunFacts DEF OnlyLiveRuns, Live
<1>3. ASSUME NEW t \in Tasks, t # TaskOf(r), Working(t)  PROVE Working(t)'
  BY <1>1, <1>3, RunOfTask DEF Working, ActiveHasRun
<1>4. ASSUME NEW d \in Deployments, d # DepOf(r)
      PROVE  \/ depStatus'[d] \in Terminal \cup {"none"}
             \/ req'[d] \in ReqActive
             \/ Working(BuildTask(d))'
             \/ \E n \in Deliveries : Working(DeployTask(d, n))'
  BY <1>1, <1>3, <1>4, TasksApart, TaskFacts DEF Covered
<1>5. CASE l \notin AfterLastWrite
  <2>1. Working(TaskOf(r))'
    BY <1>1, <1>2, <1>5 DEF Working, Live, InFlight
  <2>. QED  BY <1>4, <2>1, RunFacts, TaskFacts DEF Covered, Tasks
<1>6. CASE depStatus'[DepOf(r)] \in Terminal
  BY <1>4, <1>6 DEF Covered
<1>7. CASE pc[r] \in AfterLastWrite /\ depStatus'[DepOf(r)] = depStatus[DepOf(r)]
  <2>1. ~Working(TaskOf(r))
    BY <1>2, <1>7 DEF Working, Live
  <2>2. ASSUME NEW t \in Tasks, Working(t)  PROVE Working(t)'
    BY <1>3, <2>1, <2>2
  <2>. QED  BY <1>1, <1>4, <1>7, <2>2, TaskFacts, RunFacts DEF Covered
<1>. QED  BY <1>5, <1>6, <1>7

\* A run that ends has written its last status.
LEMMA EndsCovered ==
  ASSUME StrandInv, NEW r \in Runs, Ends(r)
  PROVE  Covered'
<1>. USE DEF StrandInv, RunsInv
<1>1. /\ pc \in [Runs -> BuildPCs \cup DeployPCs \cup CommonPCs]
      /\ pc' = [pc EXCEPT ![r] = "off"]
      /\ pc[r] \in AfterLastWrite /\ pc[r] # "off"
      /\ UNCHANGED <<starts, req, depStatus>>
      /\ \A t \in Tasks \ {TaskOf(r)} : taskState'[t] = taskState[t]
  BY DEF TypeOK, Goto, Ends, AfterLastWrite
<1>2. Live(r) /\ r = <<TaskOf(r), starts[TaskOf(r)]>>
  BY <1>1, RunFacts DEF OnlyLiveRuns, Live
<1>3. ~Working(TaskOf(r))
  BY <1>1, <1>2 DEF Working, Live
<1>4. ASSUME NEW t \in Tasks, Working(t)  PROVE Working(t)'
  BY <1>1, <1>3, <1>4, RunOfTask DEF Working, ActiveHasRun
<1>. QED  BY <1>1, <1>4, TaskFacts DEF Covered

\* A hand-over leaves the deployment to the new task.
LEMMA HandsOverCovered ==
  ASSUME StrandInv, NEW r \in Runs, HandsOver(r)
  PROVE  Covered'
<1>. USE DEF StrandInv, RunsInv
<1>. DEFINE u == DeployTask(DepOf(r), r[2])
<1>1. /\ UNCHANGED <<starts, req, depStatus>>
      /\ taskState' = [taskState EXCEPT ![u] = "pending"]
      /\ pc' = [pc EXCEPT ![r] = "ack"]
      /\ pc[r] = "enqueue" /\ TaskOf(r) = BuildTask(DepOf(r))
      /\ pc \in [Runs -> BuildPCs \cup DeployPCs \cup CommonPCs]
      /\ taskState \in [Tasks -> InFlight \cup {"absent", "done", "archived"}]
  BY DEF HandsOver, Goto, TypeOK
<1>2. u \in Tasks
  BY RunFacts, TaskFacts
<1>3. r = <<TaskOf(r), starts[TaskOf(r)]>>
  BY <1>1, RunFacts DEF OnlyLiveRuns, Live
<1>. HIDE DEF u
<1>4. Working(u)'
  BY <1>1, <1>2 DEF Working, InFlight
<1>5. ASSUME NEW t \in Tasks, t # TaskOf(r), Working(t)  PROVE Working(t)'
  BY <1>1, <1>4, <1>5, RunOfTask DEF Working, ActiveHasRun
<1>6. ASSUME NEW d \in Deployments, d # DepOf(r)
      PROVE  \/ depStatus'[d] \in Terminal \cup {"none"}
             \/ req'[d] \in ReqActive
             \/ Working(BuildTask(d))'
             \/ \E n \in Deliveries : Working(DeployTask(d, n))'
  BY <1>1, <1>5, <1>6, TasksApart, TaskFacts DEF Covered
<1>. QED  BY <1>4, <1>6, RunFacts DEF Covered, u

LEMMA ReqCovered ==
  ASSUME StrandInv, Reliable, NEW d \in Deployments, ReqNext(d)
  PROVE  Covered'
<1>. USE DEF StrandInv, rows, queue, host
<1>1. req \in [Deployments -> ReqActive \cup {"none", "done", "aborted"}]
  BY DEF TypeOK
<1>2. CASE ~ReqEnqueue(d)
  <2>a. ~ReqAbort(d)
    BY DEF Reliable, ReqAbort
  <2>b. /\ UNCHANGED <<taskState, starts, pc>>
        /\ \E to \in ReqActive : req' = [req EXCEPT ![d] = to]
    BY <1>2, <2>a DEF ReqNext, ReqInsertDeployment, ReqInsertBuild, ReqMarkBuilding,
       ReqMarkService, ReqStep, ReqActive
  <2>c. \A e \in Deployments \ {d} : depStatus'[e] = depStatus[e]
    BY <1>2, <2>a DEF ReqNext, ReqInsertDeployment, ReqInsertBuild, ReqMarkBuilding,
       ReqMarkService, UpdateDeployment, TypeOK
  <2>1. /\ UNCHANGED <<taskState, starts, pc>>
        /\ req' = [req EXCEPT ![d] = req'[d]] /\ req'[d] \in ReqActive
        /\ \A e \in Deployments \ {d} : depStatus'[e] = depStatus[e]
    BY <1>1, <2>b, <2>c
  <2>2. \A t : Working(t)' = Working(t)
    BY <2>1 DEF Working
  <2>. QED  BY <1>1, <2>1, <2>2 DEF Covered
<1>3. CASE ReqEnqueue(d)
  <2>1. /\ taskState' = [taskState EXCEPT ![BuildTask(d)] = "pending"]
        /\ UNCHANGED <<starts, pc, depStatus>>
        /\ req' = [req EXCEPT ![d] = "done"]
        /\ taskState \in [Tasks -> InFlight \cup {"absent", "done", "archived"}]
    BY <1>3 DEF ReqEnqueue, ReqStep, TypeOK
  <2>2. \A t \in Tasks : Working(t) => Working(t)'
    BY <2>1 DEF Working, InFlight
  <2>3. Working(BuildTask(d))'
    BY <2>1, TaskFacts DEF Working, InFlight
  <2>. QED  BY <1>1, <2>1, <2>2, <2>3, TaskFacts DEF Covered
<1>. QED  BY <1>2, <1>3

LEMMA QueueCovered ==
  ASSUME StrandInv, Reliable, NEW t \in Tasks, QueueNext(t)
  PROVE  Covered'
<1>. USE DEF StrandInv, RunsInv
<1>. DEFINE n == starts[t] + 1
<1>1. /\ taskState' = [taskState EXCEPT ![t] = "active"]
      /\ starts' = [starts EXCEPT ![t] = n]
      /\ pc' = [pc EXCEPT ![<<t, n>>] = FirstStep(t)]
      /\ UNCHANGED <<req, depStatus>>
      /\ starts \in [Tasks -> 0 .. MaxDeliveries]
      /\ taskState \in [Tasks -> InFlight \cup {"absent", "done", "archived"}]
      /\ pc \in [Runs -> BuildPCs \cup DeployPCs \cup CommonPCs]
      /\ <<t, n>> \in Runs
  BY QueueRuns, StartFacts DEF TypeOK, Reliable, rows
<1>. HIDE DEF n
<1>2. FirstStep(t) \notin AfterLastWrite
  BY DEF FirstStep, AfterLastWrite
<1>3. Working(t)'
  BY <1>1, <1>2 DEF Working, InFlight
<1>4. \A u \in Tasks \ {t} : \A m : <<u, m>> # <<t, n>>
  OBVIOUS
<1>5. ASSUME NEW u \in Tasks \ {t}, Working(u)  PROVE Working(u)'
  BY <1>1, <1>4, <1>5, RunOfTask DEF Working, ActiveHasRun
<1>. QED  BY <1>1, <1>3, <1>5, TaskFacts DEF Covered

LEMMA WorkerCovered ==
  ASSUME StrandInv, Reliable, NEW kind \in {"build", "deploy"}, Restart(kind) \/ Crash(kind)
  PROVE  Covered'
<1>. USE DEF StrandInv, RunsInv
<1>1. Restart(kind)
  BY DEF Reliable, Crash
<1>2. ASSUME NEW t \in Tasks, Working(t)  PROVE Working(t)'
  <2>1. CASE taskState[t] = "active" /\ t[1] # kind
    <3>1. taskState'[t] = "active" /\ pc'[<<t, starts[t]>>] = pc[<<t, starts[t]>>]
      BY <1>1, <2>1, RestartFacts, RunOfTask DEF ActiveHasRun
    <3>. QED  BY <1>1, <1>2, <3>1, RestartFacts DEF Working
  <2>2. CASE taskState[t] = "active" /\ t[1] = kind
    BY <1>1, <2>2, RestartFacts DEF Working, InFlight
  <2>3. CASE taskState[t] # "active"
    BY <1>1, <1>2, <2>3, RestartFacts DEF Working
  <2>. QED  BY <2>1, <2>2, <2>3
<1>. QED  BY <1>1, <1>2, RestartFacts, TaskFacts DEF Covered, rows

\* A step of a run that goes on passes its last write only by writing a status
\* that is final.
LEMMA LastWriteIsFinal ==
  ASSUME StrandInv, Reliable, NEW r \in Runs, NEW l, RunNext(r), GoesOn(r, l)
  PROVE  \/ l \notin AfterLastWrite
         \/ depStatus'[DepOf(r)] \in Terminal
         \/ pc[r] \in AfterLastWrite /\ depStatus'[DepOf(r)] = depStatus[DepOf(r)]
<1>. USE DEF At, Goto, rows, Terminal
<1>1. Live(r) /\ DepOf(r) \in Deployments
  BY RunFacts DEF RunNext, StrandInv, RunsInv, OnlyLiveRuns
<1>2. DbOutcome(r) = {TRUE}
  BY <1>1, ReliableOutcomes
<1>3. pc'[r] = l /\ depStatus \in [Deployments -> {"none", "queued", "building", "pushing",
                                                    "deploying", "running", "failed"}]
  BY DEF GoesOn, StrandInv, TypeOK
<1>4. CASE BuildNext(r)
  <2>. USE DEF BuildStep, TypeOK, StrandInv
  <2>1. CASE BuildLoad(r)
    BY <1>2, <1>3, <2>1 DEF BuildLoad, AfterLastWrite
  <2>2. CASE BuildClone(r) \/ BuildDetect(r) \/ BuildImage(r)
    BY <1>3, <2>2 DEF BuildClone, BuildDetect, BuildImage, BuildCommand, AfterLastWrite
  <2>3. CASE BuildMarkPushing(r) \/ BuildPush(r)
    BY <1>3, <2>3 DEF BuildMarkPushing, BuildPush, AfterLastWrite
  <2>4. CASE BuildSuccess(r)
    BY <1>2, <1>3, <2>4 DEF BuildSuccess, AfterLastWrite
  <2>5. CASE BuildMarkDeploying(r) \/ BuildFail(r)
    BY <1>3, <2>5 DEF BuildMarkDeploying, BuildFail, AfterLastWrite
  <2>6. CASE BuildEnqueueDeploy(r)
    <3>1. PICK ok \in {TRUE, ~EnqueueErrors} :
            taskState' = [taskState EXCEPT
              ![DeployTask(DepOf(r), r[2])] = IF ok THEN "pending" ELSE @]
      BY <2>6 DEF BuildEnqueueDeploy
    <3>2. ok = TRUE
      BY ONLY <1>1, ReliableOutcomes, Reliable, ok \in {TRUE, ~EnqueueErrors}
    <3>3. TaskOf(r) \in BuildTasks /\ At(r, "enqueue")
      BY <2>6 DEF BuildEnqueueDeploy
    <3>4. taskState[DeployTask(DepOf(r), r[2])] = "absent"
      BY <3>3, RunFacts DEF RunsInv, FreshTasks, BuildPCs
    <3>5. DeployTask(DepOf(r), r[2]) \in Tasks
      BY RunFacts, TaskFacts
    <3>6. taskState'[DeployTask(DepOf(r), r[2])] = "pending"
      BY <3>1, <3>2, <3>5
    <3>. QED  BY <3>4, <3>6, <3>5 DEF GoesOn, queue
  <2>. QED  BY <1>4, <2>1, <2>2, <2>3, <2>4, <2>5, <2>6 DEF BuildNext
<1>5. CASE DeployNext(r)
  <2>. USE DEF DeployStep, TypeOK, StrandInv
  <2>1. CASE DeployMarkRunning(r)
    BY <1>1, <1>2, <1>3, <2>1 DEF DeployMarkRunning, UpdateDeployment
  <2>2. CASE DeployServiceRunning(r)
    BY <1>3, <2>2 DEF DeployServiceRunning, AfterLastWrite
  <2>3. CASE DeployWriteRoute(r) \/ DeployRemoveStale(r) \/ DeployVerify(r)
    <3>1. l \in {"stale1", "stale2", "verify1", "verify2", "write2", "rmOwn", "markRunning"}
      BY <1>3, <2>3
      DEF DeployWriteRoute, DeployRemoveStale, DeployVerify, Write, Stale, Verify, AfterSync
    <3>. QED  BY <3>1 DEF AfterLastWrite
  <2>4. CASE DeployPull(r) \/ DeployFreeSlot(r) \/ DeployRun(r) \/ DeployRunConflict(r)
    <3>1. \E k \in {"slot", "run", "reslot", "rerun", "write1", "failRoute"} : Goto(r, k)
      <4>1. CASE DeployPull(r)
        BY <4>1 DEF DeployPull
      <4>2. CASE DeployFreeSlot(r)
        BY <4>2 DEF DeployFreeSlot
      <4>3. CASE DeployRun(r)
        BY <4>3 DEF DeployRun
      <4>4. CASE DeployRunConflict(r)
        BY <4>4 DEF DeployRunConflict
      <4>. QED  BY <2>4, <4>1, <4>2, <4>3, <4>4
    <3>2. l \in {"slot", "run", "reslot", "rerun", "write1", "failRoute"}
      BY <1>3, <3>1
    <3>. QED  BY <3>2 DEF AfterLastWrite
  <2>5. CASE DeployRemoveOwn(r) \/ DeployFail(r)
    <3>1. \E k \in {"failDep", "failRoute"} : Goto(r, k)
      BY <2>5 DEF DeployRemoveOwn, DeployFail
    <3>. QED  BY <1>3, <3>1 DEF AfterLastWrite
  <2>. QED  BY <1>5, <2>1, <2>2, <2>3, <2>4, <2>5 DEF DeployNext
<1>6. CASE EndNext(r)
  <2>1. CASE FailDeployment(r)
    BY <1>1, <1>2, <1>3, <2>1 DEF FailDeployment, UpdateDeployment
  <2>2. CASE FailService(r)
    BY <2>2 DEF FailService, AfterLastWrite
  <2>3. CASE Ack(r)
    BY <2>3 DEF Ack, GoesOn
  <2>4. CASE ReturnError(r)
    BY <2>4 DEF ReturnError, AfterLastWrite
  <2>5. CASE ExhaustedFailDeployment(r)
    BY <1>1, <1>3, <2>5, ReliableOutcomes DEF ExhaustedFailDeployment, UpdateDeployment
  <2>6. CASE ExhaustedFailService(r)
    BY <2>6 DEF ExhaustedFailService, AfterLastWrite
  <2>. QED  BY <1>6, <2>1, <2>2, <2>3, <2>4, <2>5, <2>6 DEF EndNext
<1>. QED  BY <1>4, <1>5, <1>6 DEF RunNext

\* The strengthening is inductive under the assumption that only the build and
\* deploy commands themselves can fail.
THEOREM StrandInvariant == Reliable => (Spec => []StrandInv)
<1>. SUFFICES ASSUME Reliable  PROVE Spec => []StrandInv
  OBVIOUS
<1>1. TypeOK /\ RunsInv /\ Covered /\ [Next]_vars => Covered'
  <2>. SUFFICES ASSUME StrandInv, [Next]_vars  PROVE Covered'
    BY DEF StrandInv
  <2>1. CASE UNCHANGED vars
    BY <2>1 DEF StrandInv, Covered, Working, vars, rows, queue
  <2>2. CASE \E r \in Runs : RunNext(r)
    <3>. PICK r \in Runs : RunNext(r)
      BY <2>2
    <3>1. HandsOver(r) \/ Ends(r) \/ \E l : GoesOn(r, l)
      BY RunShape DEF StrandInv
    <3>. QED  BY <3>1, LastWriteIsFinal, GoesOnCovered, EndsCovered, HandsOverCovered
  <2>. QED  BY <2>1, <2>2, ReqCovered, QueueCovered, WorkerCovered DEF Next
<1>2. ~Timeouts /\ ~Crashes
  BY DEF Reliable
<1>3. Spec => []RunsInv
  BY <1>2, OneRunPerTask
<1>4. TypeOK /\ RunsInv /\ Covered => StrandInv
  BY DEF StrandInv
<1>. QED  BY <1>1, <1>3, <1>4, InitCovered, TypeCorrect, PTL DEF Spec

\* A deployment shown as in progress always has a request, a queued or running
\* task, or a pending retry behind it, as long as Postgres, Redis and the
\* worker processes do not fail: for any number of services, deployments,
\* overlapping requests, retries and orderly restarts.
THEOREM NothingStranded == Reliable => (Spec => []NoStranded)
<1>. SUFFICES ASSUME Reliable  PROVE Spec => []NoStranded
  OBVIOUS
<1>1. StrandInv => NoStranded
  <2>. SUFFICES ASSUME StrandInv, NEW d \in Deployments,
                       depStatus[d] \notin Terminal \cup {"none"}
                PROVE  ~NoWork(d)
    BY DEF NoStranded
  <2>. QED  BY DEF StrandInv, Covered, Working, NoWork, TaskIdle
<1>. QED  BY <1>1, StrandInvariant, PTL
=============================================================================
