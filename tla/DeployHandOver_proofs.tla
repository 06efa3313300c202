----------------------- MODULE DeployHandOver_proofs -----------------------
(***************************************************************************)
(* How build.run hands over to deploy.run, and what becomes of the rows:   *)
(* the two jobs of a deployment follow one another unless asynq delivers a *)
(* job that has ended again, success is then final, the rows agree, and,   *)
(* whatever fails, the pipeline implements DeploymentLifecycle.            *)
(***************************************************************************)
EXTENDS DeployPipeline_proofs

-----------------------------------------------------------------------------
(* Whoever works for a deployment finds its row accepted.                  *)

\* What a step of a run may do to the rows, the queue and the places, whatever
\* fails.
WorkerStep(r) ==
  /\ UNCHANGED req
  /\ \A d \in Deployments \ {DepOf(r)} : depStatus'[d] = depStatus[d]
  /\ \/ depStatus'[DepOf(r)] = depStatus[DepOf(r)]
     \/ depStatus'[DepOf(r)] \in {"pushing", "deploying", "running", "failed"}
  /\ \A t \in Tasks : taskState[t] = "absent" =>
       \/ taskState'[t] = "absent"
       \/ t = TaskOf(r)
       \/ t = DeployTask(DepOf(r), r[2])
  /\ \A q \in Runs : pc'[q] # "off" => q = r \/ pc[q] # "off"

LEMMA BuildWorkerStep ==
  ASSUME TypeOK, NEW r \in Runs, BuildNext(r)
  PROVE  WorkerStep(r)
<1>. USE RunFacts, OutcomesAreBooleans
     DEF TypeOK, WorkerStep, BuildStep, Goto, rows, queue, host
<1>1. CASE BuildLoad(r)
  BY <1>1 DEF BuildLoad
<1>2. CASE BuildClone(r) \/ BuildDetect(r) \/ BuildImage(r)
  BY <1>2 DEF BuildClone, BuildDetect, BuildImage, BuildCommand
<1>3. CASE BuildMarkPushing(r)
  BY <1>3 DEF BuildMarkPushing, UpdateDeployment
<1>4. CASE BuildPush(r)
  BY <1>4 DEF BuildPush
<1>5. CASE BuildSuccess(r)
  BY <1>5 DEF BuildSuccess
<1>6. CASE BuildMarkDeploying(r)
  BY <1>6 DEF BuildMarkDeploying, UpdateDeployment
<1>7. CASE BuildEnqueueDeploy(r)
  BY <1>7 DEF BuildEnqueueDeploy
<1>8. CASE BuildFail(r)
  BY <1>8 DEF BuildFail
<1>. QED  BY <1>1, <1>2, <1>3, <1>4, <1>5, <1>6, <1>7, <1>8 DEF BuildNext

LEMMA DeployWorkerStep ==
  ASSUME TypeOK, NEW r \in Runs, DeployNext(r)
  PROVE  WorkerStep(r)
<1>. USE RunFacts, OutcomesAreBooleans
     DEF TypeOK, WorkerStep, DeployStep, Goto, rows, queue, host
<1>1. CASE DeployMarkRunning(r)
  BY <1>1 DEF DeployMarkRunning, UpdateDeployment
<1>2. CASE ~DeployMarkRunning(r)
  <2>1. UNCHANGED <<depStatus, taskState, req>>
    BY <1>2 DEF DeployNext, DeployPull, DeployFreeSlot, DeployRun, DeployRunConflict,
       DeployWriteRoute, DeployRemoveStale, DeployVerify, DeployRemoveOwn,
       DeployServiceRunning, DeployFail
  <2>2. \E from, to : DeployStep(r, from, to)
    <3>. HIDE DEF DeployStep
    <3>1. CASE DeployPull(r)
      BY <3>1 DEF DeployPull
    <3>2. CASE DeployFreeSlot(r)
      BY <3>2 DEF DeployFreeSlot
    <3>3. CASE DeployRun(r) \/ DeployRunConflict(r)
      BY <3>3 DEF DeployRun, DeployRunConflict
    <3>4. CASE DeployWriteRoute(r) \/ DeployRemoveStale(r) \/ DeployVerify(r)
      BY <3>4 DEF DeployWriteRoute, DeployRemoveStale, DeployVerify
    <3>5. CASE DeployRemoveOwn(r) \/ DeployServiceRunning(r) \/ DeployFail(r)
      BY <3>5 DEF DeployRemoveOwn, DeployServiceRunning, DeployFail
    <3>. QED  BY <1>2, <3>1, <3>2, <3>3, <3>4, <3>5 DEF DeployNext
  <2>3. \A q \in Runs \ {r} : pc'[q] = pc[q]
    BY <2>2
  <2>. QED  BY <2>1, <2>3
<1>. QED  BY <1>1, <1>2

LEMMA EndWorkerStep ==
  ASSUME TypeOK, NEW r \in Runs, EndNext(r)
  PROVE  WorkerStep(r)
<1>. USE RunFacts, OutcomesAreBooleans, PipelineAssumption
     DEF TypeOK, WorkerStep, Goto, rows, queue, host, GiveBack
<1>1. CASE FailDeployment(r)
  BY <1>1 DEF FailDeployment, UpdateDeployment
<1>2. CASE FailService(r)
  BY <1>2 DEF FailService
<1>3. CASE Ack(r)
  BY <1>3 DEF Ack
<1>4. CASE ReturnError(r)
  BY <1>4 DEF ReturnError
<1>5. CASE ExhaustedFailDeployment(r)
  BY <1>5 DEF ExhaustedFailDeployment, UpdateDeployment
<1>6. CASE ExhaustedFailService(r)
  BY <1>6 DEF ExhaustedFailService
<1>. QED  BY <1>1, <1>2, <1>3, <1>4, <1>5, <1>6 DEF EndNext

LEMMA InitAccepted == Init => AcceptedInv
  BY TaskFacts DEF Init, AcceptedInv

LEMMA ReqAccepted ==
  ASSUME TypeOK, AcceptedInv, NEW d \in Deployments, ReqNext(d)
  PROVE  AcceptedInv'
<1>. USE TaskFacts, RunFacts
     DEF TypeOK, AcceptedInv, Accepted, ReqStep, ReqActive, rows, queue, host
<1>1. CASE ReqInsertDeployment(d)
  BY <1>1 DEF ReqInsertDeployment, UpdateDeployment
<1>2. CASE ReqInsertBuild(d)
  BY <1>2 DEF ReqInsertBuild
<1>3. CASE ReqMarkBuilding(d)
  BY <1>3 DEF ReqMarkBuilding, UpdateDeployment
<1>4. CASE ReqMarkService(d)
  BY <1>4 DEF ReqMarkService
<1>5. CASE ReqEnqueue(d)
  BY <1>5 DEF ReqEnqueue, BuildTask, DeployTask
<1>6. CASE ReqAbort(d)
  BY <1>6 DEF ReqAbort
<1>. QED  BY <1>1, <1>2, <1>3, <1>4, <1>5, <1>6 DEF ReqNext

LEMMA QueueAccepted ==
  ASSUME TypeOK, AcceptedInv, NEW t \in Tasks, QueueNext(t)
  PROVE  AcceptedInv'
<1>1. CASE Start(t)
  <2>. DEFINE new == <<t, starts[t] + 1>>
  <2>1. /\ UNCHANGED <<req, depStatus>> /\ taskState[t] # "absent"
        /\ \A u \in Tasks : u # t => taskState'[u] = taskState[u]
        /\ \A q \in Runs : q # new => pc'[q] = pc[q]
        /\ new \in Runs => DepOf(new) \in Deployments /\ TaskOf(new) = t
    BY <1>1, RunFacts DEF Start, Goto, rows, TypeOK, TaskOf
  <2>2. ASSUME new \in Runs  PROVE Accepted(DepOf(new))
    BY <2>1, <2>2, RunFacts, TaskFacts DEF AcceptedInv, Tasks
  <2>. QED  BY <2>1, <2>2, TaskFacts DEF AcceptedInv, Accepted
<1>2. CASE Expire(t) \/ Recover(t)
  BY <1>2, TaskFacts DEF Expire, Recover, GiveBack, rows, TypeOK, AcceptedInv, Accepted
<1>. QED  BY <1>1, <1>2 DEF QueueNext

LEMMA WorkerAccepted ==
  ASSUME TypeOK, AcceptedInv, NEW kind \in {"build", "deploy"}, Restart(kind) \/ Crash(kind)
  PROVE  AcceptedInv'
<1>1. /\ UNCHANGED <<req, depStatus>>
      /\ \A q \in Runs : pc'[q] # "off" => pc[q] # "off"
      /\ \A t \in Tasks : taskState[t] = "absent" => taskState'[t] = "absent"
  BY DEF Restart, Crash, rows, queue, TypeOK, Live
<1>. QED  BY <1>1, TaskFacts DEF AcceptedInv, Accepted

LEMMA RunAccepted ==
  ASSUME TypeOK, AcceptedInv, NEW r \in Runs, RunNext(r)
  PROVE  AcceptedInv'
<1>1. WorkerStep(r) /\ Accepted(DepOf(r)) /\ DepOf(r) \in Deployments
  BY BuildWorkerStep, DeployWorkerStep, EndWorkerStep, RunFacts DEF RunNext, AcceptedInv
<1>2. \A d \in Deployments : Accepted(d) => Accepted(d)'
  BY <1>1 DEF WorkerStep, Accepted
<1>3. \A d \in Deployments \ {DepOf(r)} : depStatus'[d] = depStatus[d]
  BY <1>1 DEF WorkerStep
<1>4. req[DepOf(r)] \notin {"none", "inserted", "built"}
  BY <1>1 DEF AcceptedInv, Accepted
<1>5. ASSUME NEW d \in Deployments, d # DepOf(r)
      PROVE  /\ taskState[BuildTask(d)] = "absent" => taskState'[BuildTask(d)] = "absent"
             /\ \A n \in Deliveries :
                  taskState[DeployTask(d, n)] = "absent" => taskState'[DeployTask(d, n)] = "absent"
  BY <1>1, <1>5, TasksApart, TaskFacts DEF WorkerStep, DeployTask, BuildTask
<1>. QED  BY <1>1, <1>2, <1>3, <1>4, <1>5, RunFacts DEF AcceptedInv, WorkerStep

\* Whatever fails, and however often jobs are delivered, nobody works for a
\* deployment whose row the request has not finished writing.
THEOREM AcceptedInvariant == Spec => []AcceptedInv
<1>1. TypeOK /\ AcceptedInv /\ [Next]_vars => AcceptedInv'
  <2>. SUFFICES ASSUME TypeOK, AcceptedInv, [Next]_vars  PROVE AcceptedInv'
    OBVIOUS
  <2>1. CASE UNCHANGED vars
    BY <2>1 DEF AcceptedInv, Accepted, vars, rows, queue
  <2>. QED  BY <2>1, ReqAccepted, QueueAccepted, WorkerAccepted, RunAccepted DEF Next
<1>. QED  BY <1>1, InitAccepted, TypeCorrect, PTL DEF Spec

-----------------------------------------------------------------------------
(* The two jobs of a deployment follow one another until a restart gives   *)
(* one of them back.                                                       *)

LEMMA InitHandedOver == Init => \A d \in Deployments : HandedOver(d)
  BY TaskFacts DEF Init, HandedOver, OneHandOver, BuiltBeforeHandOver, RunningIsServed

\* The tasks of a deployment and their runs.
LEMMA TasksOfFacts ==
  ASSUME NEW d \in Deployments
  PROVE  /\ BuildTask(d) \in TasksOf(d)
         /\ \A n \in Deliveries : DeployTask(d, n) \in TasksOf(d)
         /\ \A t \in TasksOf(d) : t \in Tasks /\ t[2] = d
         /\ \A r \in Runs : DepOf(r) = d <=> TaskOf(r) \in TasksOf(d)
<1>1. /\ BuildTask(d) \in TasksOf(d)
      /\ \A n \in Deliveries : DeployTask(d, n) \in TasksOf(d)
  BY DEF TasksOf
<1>2. \A t \in TasksOf(d) : t \in Tasks /\ t[2] = d
  BY TaskFacts DEF TasksOf, BuildTask, DeployTask
<1>3. \A r \in Runs : TaskOf(r) \in TasksOf(d) => DepOf(r) = d
  BY <1>2 DEF TaskOf, DepOf
<1>4. \A r \in Runs : DepOf(r) = d => TaskOf(r) \in TasksOf(d)
  BY RunFacts DEF Tasks, TasksOf
<1>. QED  BY <1>1, <1>2, <1>3, <1>4

\* What others do does not concern a deployment.
LEMMA OthersAt ==
  ASSUME TypeOK, RunsInv, NEW d \in Deployments, NEW t \in TasksOf(d), NEW places,
         taskState'[t] = taskState[t], starts'[t] = starts[t],
         \A r \in Runs : DepOf(r) = d => pc'[r] = pc[r]
  PROVE  TaskAt(t, places)' <=> TaskAt(t, places)
<1>1. taskState[t] = "active" => <<t, starts[t]>> \in Runs /\ DepOf(<<t, starts[t]>>) = d
  BY TasksOfFacts, RunOfTask DEF RunsInv, ActiveHasRun
<1>. QED  BY <1>1 DEF TaskAt

LEMMA OthersHandedOver ==
  ASSUME TypeOK, RunsInv, NEW d \in Deployments, HandedOver(d),
         depStatus'[d] = depStatus[d], buildStatus'[d] = buildStatus[d],
         \A t \in TasksOf(d) : taskState'[t] = taskState[t] /\ starts'[t] = starts[t],
         \A r \in Runs : DepOf(r) = d => pc'[r] = pc[r]
  PROVE  HandedOver(d)'
<1>1. /\ taskState'[BuildTask(d)] = taskState[BuildTask(d)]
      /\ \A n \in Deliveries : taskState'[DeployTask(d, n)] = taskState[DeployTask(d, n)]
  BY TasksOfFacts
<1>2. ASSUME NEW t \in TasksOf(d), NEW places
      PROVE  TaskAt(t, places)' <=> TaskAt(t, places)
  BY OthersAt
<1>3. OneHandOver(d)'
  BY <1>1, <1>2, TasksOfFacts DEF HandedOver, OneHandOver
<1>4. BuiltBeforeHandOver(d)'
  BY <1>1 DEF HandedOver, BuiltBeforeHandOver
<1>5. RunningIsServed(d)'
  BY <1>1, <1>2, TasksOfFacts DEF HandedOver, RunningIsServed
<1>. QED  BY <1>3, <1>4, <1>5 DEF HandedOver

\* While the build is not acknowledged nothing has been handed over.
LEMMA NotHandedOver ==
  ASSUME NEW d \in Deployments, HandedOver(d), NEW n \in Deliveries,
         taskState[BuildTask(d)] # "done", ~TaskAt(BuildTask(d), {"ack"})
  PROVE  taskState[DeployTask(d, n)] = "absent"
  BY DEF HandedOver, OneHandOver

\* The build run of a deployment is the one its task is at.
LEMMA BuildRunFacts ==
  ASSUME TypeOK, RunsInv, NEW r \in Runs, pc[r] # "off"
  PROVE  /\ taskState[TaskOf(r)] = "active"
         /\ r = <<TaskOf(r), starts[TaskOf(r)]>>
         /\ r[2] = starts[TaskOf(r)]
         /\ pc[r] \in BuildPCs => TaskOf(r) = BuildTask(DepOf(r))
         /\ pc[r] \in DeployPCs => TaskOf(r) \in DeployTasks
  BY RunFacts, TaskFacts DEF TypeOK, RunsInv, OnlyLiveRuns, Live, Tasks

\* A run that works for a deployment that is running has written that itself.
LEMMA RunningHasNoWriter ==
  ASSUME TypeOK, RunsInv, NEW r \in Runs, HandedOver(DepOf(r)),
         pc[r] \notin {"off", "svcRunning", "ack"}
  PROVE  depStatus[DepOf(r)] # "running"
<1>. SUFFICES ASSUME depStatus[DepOf(r)] = "running"  PROVE FALSE
  OBVIOUS
<1>1. PICK n \in Deliveries :
        \/ taskState[DeployTask(DepOf(r), n)] = "done"
        \/ TaskAt(DeployTask(DepOf(r), n), {"svcRunning", "ack"})
  BY RunFacts DEF HandedOver, RunningIsServed
<1>2. taskState[DeployTask(DepOf(r), n)] # "absent"
  BY <1>1 DEF TaskAt
<1>3. /\ taskState[BuildTask(DepOf(r))] = "done" \/ TaskAt(BuildTask(DepOf(r)), {"ack"})
      /\ \A m \in Deliveries \ {n} : taskState[DeployTask(DepOf(r), m)] = "absent"
  BY <1>2, RunFacts DEF HandedOver, OneHandOver
<1>4. taskState[TaskOf(r)] = "active" /\ r = <<TaskOf(r), starts[TaskOf(r)]>>
  BY BuildRunFacts
<1>5. CASE TaskOf(r) = BuildTask(DepOf(r))
  BY <1>3, <1>4, <1>5 DEF TaskAt
<1>6. CASE \E m \in Deliveries : TaskOf(r) = DeployTask(DepOf(r), m)
  BY <1>1, <1>3, <1>4, <1>6 DEF TaskAt
<1>. QED  BY <1>5, <1>6, RunFacts DEF Tasks

LEMMA ReqHandOver ==
  ASSUME TypeOK, RunsInv, NEW d \in Deployments, HandedOver(d),
         NEW e \in Deployments, ReqNext(e)
  PROVE  HandedOver(d)'
<1>. USE DEF rows, queue, host
<1>1. CASE e # d
  <2>1. /\ UNCHANGED <<starts, pc>>
        /\ depStatus'[d] = depStatus[d] /\ buildStatus'[d] = buildStatus[d]
    BY <1>1 DEF ReqNext, ReqInsertDeployment, ReqInsertBuild, ReqMarkBuilding, ReqMarkService,
       ReqEnqueue, ReqAbort, UpdateDeployment, UpdateBuild, TypeOK
  <2>2. \A t \in Tasks : t # BuildTask(e) => taskState'[t] = taskState[t]
    BY DEF ReqNext, ReqInsertDeployment, ReqInsertBuild, ReqMarkBuilding, ReqMarkService,
       ReqEnqueue, ReqAbort, TypeOK
  <2>3. BuildTask(e) \notin TasksOf(d)
    BY <1>1, TasksOfFacts DEF BuildTask
  <2>. QED  BY <2>1, <2>2, <2>3, TasksOfFacts, OthersHandedOver
<1>2. CASE e = d /\ ReqEnqueue(d)
  <2>1. /\ taskState' = [taskState EXCEPT ![BuildTask(d)] = "pending"]
        /\ UNCHANGED <<starts, pc, depStatus, buildStatus>>
        /\ taskState[BuildTask(d)] = "absent"
        /\ taskState \in [Tasks -> InFlight \cup {"absent", "done", "archived"}]
    BY <1>2 DEF ReqEnqueue, ReqStep, RunsInv, FreshTasks, ReqActive, TypeOK
  <2>2. \A n \in Deliveries : taskState'[DeployTask(d, n)] = taskState[DeployTask(d, n)]
    BY <2>1 DEF DeployTask, BuildTask
  <2>3. \A n \in Deliveries : taskState[DeployTask(d, n)] = "absent"
    BY <2>1, NotHandedOver DEF TaskAt
  <2>. QED  BY <2>1, <2>2, <2>3
       DEF HandedOver, OneHandOver, BuiltBeforeHandOver, RunningIsServed, TaskAt
<1>3. CASE e = d /\ ~ReqEnqueue(d)
  <2>1. /\ UNCHANGED <<taskState, starts, pc>>
        /\ depStatus'[d] = "running" => depStatus[d] = "running"
        /\ buildStatus'[d] = buildStatus[d] \/ req[d] \in ReqActive
    <3>1. CASE ReqInsertBuild(d)
      BY <3>1 DEF ReqInsertBuild, ReqStep, ReqActive, UpdateBuild, TypeOK
    <3>2. CASE ~ReqInsertBuild(d)
      BY <1>3, <3>2 DEF ReqNext, ReqInsertDeployment, ReqMarkBuilding, ReqMarkService,
         ReqAbort, UpdateDeployment, TypeOK
    <3>. QED  BY <3>1, <3>2
  <2>2. ASSUME req[d] \in ReqActive
        PROVE  /\ \A n \in Deliveries : taskState[DeployTask(d, n)] = "absent"
               /\ \A r \in Runs : pc[r] \in BuildPCs => DepOf(r) # d
    <3>1. taskState[BuildTask(d)] = "absent"
      BY <2>2 DEF RunsInv, FreshTasks
    <3>. QED  BY <3>1, NotHandedOver, BuildRunFacts DEF TaskAt, BuildPCs
  <2>3. BuiltBeforeHandOver(d)'
    BY <2>1, <2>2, RunFacts DEF HandedOver, BuiltBeforeHandOver, BuildPCs
  <2>. QED  BY <2>1, <2>3 DEF HandedOver, OneHandOver, RunningIsServed, TaskAt
<1>. QED  BY <1>1, <1>2, <1>3

LEMMA StartHandOver ==
  ASSUME TypeOK, RunsInv, NEW d \in Deployments, HandedOver(d), NEW t \in Tasks, Start(t)
  PROVE  HandedOver(d)'
<1>. DEFINE n == starts[t] + 1
<1>1. /\ taskState[t] \in {"pending", "retry"}
      /\ taskState' = [taskState EXCEPT ![t] = "active"]
      /\ starts' = [starts EXCEPT ![t] = n]
      /\ pc' = [pc EXCEPT ![<<t, n>>] = FirstStep(t)]
      /\ UNCHANGED <<depStatus, buildStatus>>
      /\ taskState \in [Tasks -> InFlight \cup {"absent", "done", "archived"}]
      /\ starts \in [Tasks -> 0 .. MaxDeliveries]
      /\ pc \in [Runs -> BuildPCs \cup DeployPCs \cup CommonPCs]
      /\ \A q \in Runs : TaskOf(q) = t => pc[q] = "off"
  BY StartFacts DEF TypeOK, rows
<1>. HIDE DEF n
<1>2. \A u \in Tasks \ {t} :
        /\ taskState'[u] = taskState[u] /\ starts'[u] = starts[u]
        /\ \A m : <<u, m>> \in Runs => pc'[<<u, m>>] = pc[<<u, m>>]
  BY <1>1
<1>3. \A u \in Tasks :
        /\ taskState'[u] = "absent" <=> taskState[u] = "absent"
        /\ taskState[u] = "done" => taskState'[u] = "done"
  BY <1>1
<1>4. ASSUME NEW u \in Tasks, NEW places, TaskAt(u, places)
      PROVE  taskState'[u] = "active" /\ pc'[<<u, starts'[u]>>] \in places
  <2>1. u # t /\ taskState[u] = "active"
    BY <1>1, <1>4 DEF TaskAt
  <2>2. <<u, starts[u]>> \in Runs
    BY <2>1, RunOfTask DEF RunsInv, ActiveHasRun
  <2>. QED  BY <1>2, <1>4, <2>1, <2>2 DEF TaskAt
<1>5. OneHandOver(d)'
  <2>. SUFFICES ASSUME NEW m \in Deliveries, taskState'[DeployTask(d, m)] # "absent"
                PROVE  /\ \/ taskState'[BuildTask(d)] = "done"
                          \/ /\ taskState'[BuildTask(d)] = "active"
                             /\ pc'[<<BuildTask(d), starts'[BuildTask(d)]>>] \in {"ack"}
                       /\ \A k \in Deliveries \ {m} : taskState'[DeployTask(d, k)] = "absent"
    BY DEF OneHandOver, TaskAt
  <2>1. taskState[DeployTask(d, m)] # "absent"
    BY <1>3, TaskFacts
  <2>. QED  BY <1>3, <1>4, <2>1, TaskFacts DEF HandedOver, OneHandOver
<1>6. BuiltBeforeHandOver(d)'
  <2>1. \A r \in Runs : pc'[r] \in {"markDeploying", "enqueue"} => pc[r] = pc'[r]
    BY <1>1 DEF FirstStep
  <2>. QED  BY <1>1, <1>3, <2>1, TaskFacts DEF HandedOver, BuiltBeforeHandOver
<1>7. RunningIsServed(d)'
  BY <1>1, <1>3, <1>4, TaskFacts DEF HandedOver, RunningIsServed, TaskAt
<1>. QED  BY <1>5, <1>6, <1>7 DEF HandedOver

\* A run changes nothing of another deployment's jobs and rows.
LEMMA OthersRunHandOver ==
  ASSUME TypeOK, RunsInv, NEW d \in Deployments, HandedOver(d), NEW r \in Runs, DepOf(r) # d,
         HandsOver(r) \/ Ends(r) \/ \E l : GoesOn(r, l)
  PROVE  HandedOver(d)'
<1>1. /\ depStatus'[d] = depStatus[d] /\ buildStatus'[d] = buildStatus[d]
      /\ starts' = starts
      /\ \A q \in Runs \ {r} : pc'[q] = pc[q]
  BY DEF HandsOver, Ends, GoesOn, RowsMove, Goto, queue, TypeOK
<1>2. TaskOf(r) \notin TasksOf(d) /\ DeployTask(DepOf(r), r[2]) \notin TasksOf(d)
  BY TasksOfFacts, RunFacts DEF DeployTask
<1>3. \A t \in Tasks \ {TaskOf(r), DeployTask(DepOf(r), r[2])} : taskState'[t] = taskState[t]
  BY DEF HandsOver, Ends, GoesOn, queue, TypeOK
<1>. QED  BY <1>1, <1>2, <1>3, TasksOfFacts, OthersHandedOver

LEMMA GoesOnHandOver ==
  ASSUME TypeOK, RunsInv, NEW r \in Runs, HandedOver(DepOf(r)), NEW l, GoesOn(r, l)
  PROVE  HandedOver(DepOf(r))'
<1>. DEFINE d == DepOf(r)
<1>1. /\ pc \in [Runs -> BuildPCs \cup DeployPCs \cup CommonPCs]
      /\ pc' = [pc EXCEPT ![r] = l]
      /\ pc[r] \notin {"off", "ack"}
      /\ UNCHANGED <<taskState, starts>>
      /\ d \in Deployments
  BY RunFacts DEF TypeOK, Goto, GoesOn, queue
<1>2. /\ taskState[TaskOf(r)] = "active" /\ r = <<TaskOf(r), starts[TaskOf(r)]>>
      /\ pc[r] \in BuildPCs => TaskOf(r) = BuildTask(d)
      /\ pc[r] \in DeployPCs => TaskOf(r) \in DeployTasks
  BY <1>1, BuildRunFacts
<1>3. ASSUME NEW t \in Tasks, NEW places, TaskAt(t, places), t # TaskOf(r) \/ l \in places
      PROVE  taskState'[t] = "active" /\ pc'[<<t, starts'[t]>>] \in places
  <2>1. <<t, starts[t]>> \in Runs /\ taskState[t] = "active"
    BY <1>3, RunOfTask DEF TaskAt, RunsInv, ActiveHasRun
  <2>. QED  BY <1>1, <1>2, <1>3, <2>1 DEF TaskAt
<1>4. RowsMove(r, l)
  BY DEF GoesOn
<1>5. OneHandOver(d)'
  <2>. SUFFICES ASSUME NEW n \in Deliveries,
                       taskState[DeployTask(d, n)] # "absent", taskState[BuildTask(d)] # "done"
                PROVE  taskState[BuildTask(d)] = "active" /\ pc'[<<BuildTask(d), starts[BuildTask(d)]>>] = "ack"
    BY <1>1 DEF HandedOver, OneHandOver, TaskAt
  <2>1. TaskAt(BuildTask(d), {"ack"})
    BY DEF HandedOver, OneHandOver
  <2>2. BuildTask(d) # TaskOf(r)
    BY <1>1, <1>2, <2>1 DEF TaskAt
  <2>. QED  BY <1>1, <1>3, <2>1, <2>2, TaskFacts
<1>6. BuiltBeforeHandOver(d)'
  <2>1. ASSUME NEW q \in Runs, DepOf(q) = d, pc'[q] \in {"markDeploying", "enqueue"}
        PROVE  buildStatus'[d] = "success"
    <3>1. CASE q = r
      <4>1. l = pc'[q]
        BY <1>1, <3>1
      <4>. QED  BY <1>1, <1>4, <2>1, <3>1, <4>1
           DEF RowsMove, HandedOver, BuiltBeforeHandOver, BuildPCs
    <3>2. CASE q # r
      <4>1. pc[q] = pc'[q] /\ buildStatus[d] = "success"
        BY <1>1, <2>1, <3>2 DEF HandedOver, BuiltBeforeHandOver
      <4>2. TaskOf(q) = BuildTask(d) /\ q = <<TaskOf(q), starts[TaskOf(q)]>>
        BY <2>1, <4>1, BuildRunFacts DEF BuildPCs
      <4>3. TaskOf(r) # BuildTask(d)
        BY <1>2, <3>2, <4>2
      <4>. QED  BY <1>2, <1>4, <4>1, <4>3 DEF RowsMove
    <3>. QED  BY <3>1, <3>2
  <2>2. ASSUME NEW n \in Deliveries, taskState[DeployTask(d, n)] # "absent"
        PROVE  buildStatus'[d] = "success"
    <3>1. buildStatus[d] = "success"
      BY <2>2 DEF HandedOver, BuiltBeforeHandOver
    <3>2. pc[r] \notin BuildPCs
      BY <1>1, <1>2, <2>2, NotHandedOver DEF TaskAt, BuildPCs
    <3>. QED  BY <1>4, <3>1, <3>2 DEF RowsMove
  <2>. QED  BY <1>1, <2>1, <2>2 DEF BuiltBeforeHandOver
<1>7. RunningIsServed(d)'
  <2>. SUFFICES ASSUME depStatus'[d] = "running"
                PROVE  \E n \in Deliveries : LET t == DeployTask(d, n) IN
                         \/ taskState[t] = "done"
                         \/ taskState[t] = "active" /\ pc'[<<t, starts[t]>>] \in {"svcRunning", "ack"}
    BY <1>1 DEF RunningIsServed, TaskAt
  <2>1. CASE depStatus[d] = "running"
    <3>1. PICK n \in Deliveries :
            \/ taskState[DeployTask(d, n)] = "done"
            \/ TaskAt(DeployTask(d, n), {"svcRunning", "ack"})
      BY <2>1 DEF HandedOver, RunningIsServed
    <3>2. ASSUME TaskAt(DeployTask(d, n), {"svcRunning", "ack"}), TaskOf(r) = DeployTask(d, n)
          PROVE  l = "ack"
      <4>1. pc[r] = "svcRunning"
        BY <1>1, <1>2, <3>2 DEF TaskAt
      <4>. QED  BY <1>4, <4>1 DEF RowsMove
    <3>. QED  BY <1>1, <1>3, <3>1, <3>2, TaskFacts
  <2>2. CASE depStatus[d] # "running"
    <3>1. l = "svcRunning" /\ pc[r] = "markRunning"
      BY <1>4, <2>2 DEF RowsMove
    <3>2. PICK n \in Deliveries : TaskOf(r) = DeployTask(d, n)
      BY <1>2, <3>1, RunFacts DEF DeployPCs
    <3>. QED  BY <1>1, <1>2, <3>1, <3>2
  <2>. QED  BY <2>1, <2>2
<1>. QED  BY <1>5, <1>6, <1>7 DEF HandedOver

LEMMA EndsHandOver ==
  ASSUME TypeOK, RunsInv, NEW r \in Runs, HandedOver(DepOf(r)), Ends(r)
  PROVE  HandedOver(DepOf(r))'
<1>. DEFINE d == DepOf(r)
<1>1. /\ pc' = [pc EXCEPT ![r] = "off"]
      /\ pc[r] \in {"ack", "err", "exhaustedSvc"} /\ pc[r] # "off"
      /\ UNCHANGED <<starts, depStatus, buildStatus>>
      /\ \A t \in Tasks \ {TaskOf(r)} : taskState'[t] = taskState[t]
      /\ taskState'[TaskOf(r)] \notin {"active", "absent"}
      /\ pc[r] = "ack" => taskState'[TaskOf(r)] = "done"
      /\ pc \in [Runs -> BuildPCs \cup DeployPCs \cup CommonPCs]
      /\ d \in Deployments
  BY RunFacts DEF Ends, Goto, TypeOK
<1>2. taskState[TaskOf(r)] = "active" /\ r = <<TaskOf(r), starts[TaskOf(r)]>>
  BY <1>1, BuildRunFacts
<1>3. ASSUME NEW t \in Tasks, NEW places, places \subseteq {"svcRunning", "ack"},
             taskState[t] = "done" \/ TaskAt(t, places)
      PROVE  \/ taskState'[t] = "done"
             \/ taskState'[t] = "active" /\ pc'[<<t, starts'[t]>>] \in places
  <2>1. CASE t = TaskOf(r)
    BY <1>1, <1>2, <1>3, <2>1 DEF TaskAt
  <2>2. CASE t # TaskOf(r)
    <3>1. taskState[t] = "active" => <<t, starts[t]>> \in Runs
      BY RunOfTask DEF RunsInv, ActiveHasRun
    <3>. QED  BY <1>1, <1>2, <1>3, <2>2, <3>1 DEF TaskAt
  <2>. QED  BY <2>1, <2>2
<1>4. \A t \in Tasks : taskState'[t] = "absent" <=> taskState[t] = "absent"
  BY <1>1, <1>2
<1>5. OneHandOver(d)'
  <2>. SUFFICES ASSUME NEW m \in Deliveries, taskState'[DeployTask(d, m)] # "absent"
                PROVE  /\ \/ taskState'[BuildTask(d)] = "done"
                          \/ /\ taskState'[BuildTask(d)] = "active"
                             /\ pc'[<<BuildTask(d), starts'[BuildTask(d)]>>] \in {"ack"}
                       /\ \A k \in Deliveries \ {m} : taskState'[DeployTask(d, k)] = "absent"
    BY DEF OneHandOver, TaskAt
  <2>1. taskState[DeployTask(d, m)] # "absent"
    BY <1>1, <1>4, TaskFacts
  <2>. QED  BY <1>1, <1>3, <1>4, <2>1, TaskFacts DEF HandedOver, OneHandOver
<1>6. BuiltBeforeHandOver(d)'
  <2>1. \A q \in Runs : pc'[q] \in {"markDeploying", "enqueue"} => pc[q] = pc'[q]
    BY <1>1
  <2>. QED  BY <1>1, <1>4, <2>1, TaskFacts DEF HandedOver, BuiltBeforeHandOver
<1>7. RunningIsServed(d)'
  BY <1>1, <1>3, TaskFacts DEF HandedOver, RunningIsServed, TaskAt
<1>. QED  BY <1>5, <1>6, <1>7 DEF HandedOver

LEMMA HandsOverHandOver ==
  ASSUME TypeOK, RunsInv, NEW r \in Runs, HandedOver(DepOf(r)), HandsOver(r)
  PROVE  HandedOver(DepOf(r))'
<1>. DEFINE d == DepOf(r)
            u == DeployTask(d, r[2])
<1>1. /\ pc' = [pc EXCEPT ![r] = "ack"]
      /\ pc[r] = "enqueue" /\ TaskOf(r) = BuildTask(d)
      /\ taskState' = [taskState EXCEPT ![u] = "pending"]
      /\ UNCHANGED <<starts, depStatus, buildStatus>>
      /\ taskState[u] = "absent"
      /\ d \in Deployments /\ r[2] \in Deliveries
      /\ pc \in [Runs -> BuildPCs \cup DeployPCs \cup CommonPCs]
      /\ taskState \in [Tasks -> InFlight \cup {"absent", "done", "archived"}]
  BY HandsOverRuns, RunFacts DEF HandsOver, Goto, TypeOK
<1>2. taskState[BuildTask(d)] = "active" /\ r = <<BuildTask(d), starts[BuildTask(d)]>>
  BY <1>1, BuildRunFacts
<1>3. u \in Tasks /\ BuildTask(d) # u
  BY <1>1, TaskFacts
<1>4. \A n \in Deliveries : taskState[DeployTask(d, n)] = "absent"
  BY <1>1, <1>2, NotHandedOver DEF TaskAt
<1>5. \A n \in Deliveries \ {r[2]} : taskState'[DeployTask(d, n)] = "absent"
  BY <1>1, <1>4, TaskFacts DEF DeployTask
<1>6. taskState'[BuildTask(d)] = "active" /\ pc'[<<BuildTask(d), starts'[BuildTask(d)]>>] = "ack"
  BY <1>1, <1>2, <1>3
<1>7. OneHandOver(d)'
  BY <1>5, <1>6 DEF OneHandOver, TaskAt
<1>8. BuiltBeforeHandOver(d)'
  BY <1>1 DEF HandedOver, BuiltBeforeHandOver
<1>9. RunningIsServed(d)'
  BY <1>1, <1>4 DEF HandedOver, RunningIsServed, TaskAt
<1>. QED  BY <1>7, <1>8, <1>9 DEF HandedOver

-----------------------------------------------------------------------------
(* Only a restart gives back a task that no error has ended.               *)

LEMMA GivenBackType ==
  ASSUME TypeOK, NEW t \in Tasks
  PROVE  GivenBack(t) \in Int
  BY DueType DEF GivenBack

LEMMA QueueGivenBack ==
  ASSUME TypeOK, RunsInv, NEW t \in Tasks, NEW u \in Tasks, Start(u)
  PROVE  GivenBack(t)' = GivenBack(t)
<1>1. /\ taskState[u] \in {"pending", "retry"}
      /\ taskState' = [taskState EXCEPT ![u] = "active"]
      /\ starts' = [starts EXCEPT ![u] = starts[u] + 1]
      /\ retried' = retried /\ retried[u] \in Nat /\ starts[u] \in Nat
      /\ starts \in [Tasks -> 0 .. MaxDeliveries]
      /\ taskState \in [Tasks -> InFlight \cup {"absent", "done", "archived"}]
  BY PipelineAssumption DEF Start, TypeOK
<1>2. CASE t = u
  BY <1>1, <1>2 DEF GivenBack, Due
<1>3. CASE t # u
  BY <1>1, <1>3 DEF GivenBack, Due
<1>. QED  BY <1>2, <1>3

LEMMA RunGivenBack ==
  ASSUME TypeOK, RunsInv, NEW t \in Tasks, NEW r \in Runs, RunNext(r)
  PROVE  GivenBack(t)' = GivenBack(t)
<1>1. CASE HandsOver(r)
  <2>1. taskState[DeployTask(DepOf(r), r[2])] = "absent"
    BY <1>1, HandsOverRuns
  <2>. QED  BY <1>1, <2>1 DEF HandsOver, GivenBack, Due, TypeOK
<1>2. CASE Ends(r)
  BY <1>2 DEF Ends, GivenBack
<1>3. CASE \E l : GoesOn(r, l)
  BY <1>3 DEF GoesOn, GivenBack, Due, queue
<1>. QED  BY <1>1, <1>2, <1>3, RunShape

LEMMA ReqGivenBack ==
  ASSUME TypeOK, RunsInv, NEW t \in Tasks, NEW d \in Deployments, ReqNext(d)
  PROVE  GivenBack(t)' = GivenBack(t)
<1>1. CASE ReqEnqueue(d)
  <2>1. taskState[BuildTask(d)] = "absent"
    BY <1>1 DEF ReqEnqueue, ReqStep, RunsInv, FreshTasks, ReqActive
  <2>. QED  BY <1>1, <2>1 DEF ReqEnqueue, GivenBack, Due, TypeOK
<1>2. CASE ~ReqEnqueue(d)
  BY <1>2 DEF ReqNext, ReqInsertDeployment, ReqInsertBuild, ReqMarkBuilding, ReqMarkService,
     ReqAbort, GivenBack, Due, queue
<1>. QED  BY <1>1, <1>2

LEMMA RestartGivenBack ==
  ASSUME TypeOK, RunsInv, NEW t \in Tasks, NEW kind \in {"build", "deploy"}, Restart(kind)
  PROVE  IF taskState[t] = "active" /\ t[1] = kind
         THEN GivenBack(t)' = GivenBack(t) + 1
         ELSE GivenBack(t)' = GivenBack(t)
<1>1. UNCHANGED <<starts, retried>> /\ retried[t] \in Nat /\ starts[t] \in Nat
  BY PipelineAssumption DEF Restart, TypeOK
<1>2. CASE taskState[t] = "active" /\ t[1] = kind
  <2>1. taskState'[t] = "pending"
    BY <1>2, RestartFacts
  <2>. QED  BY <1>1, <1>2, <2>1 DEF GivenBack, Due
<1>3. CASE ~(taskState[t] = "active" /\ t[1] = kind)
  <2>1. taskState'[t] = taskState[t]
    BY <1>3, RestartFacts
  <2>. QED  BY <1>1, <1>3, <2>1 DEF GivenBack, Due
<1>. QED  BY <1>2, <1>3

\* Once given back, always given back.
LEMMA GivenBackGrows ==
  ASSUME TypeOK, RunsInv, ~Timeouts, ~Crashes, [Next]_vars, NEW t \in Tasks
  PROVE  GivenBack(t)' \in Int /\ GivenBack(t)' >= GivenBack(t)
<1>. USE GivenBackType
<1>1. CASE UNCHANGED vars
  BY <1>1 DEF GivenBack, Due, vars, queue
<1>2. CASE \E d \in Deployments : ReqNext(d)
  BY <1>2, ReqGivenBack
<1>3. CASE \E u \in Tasks : QueueNext(u)
  BY <1>3, QueueRuns, QueueGivenBack
<1>4. CASE \E kind \in {"build", "deploy"} : Restart(kind) \/ Crash(kind)
  BY <1>4, RestartGivenBack DEF Crash
<1>5. CASE \E r \in Runs : RunNext(r)
  BY <1>5, RunGivenBack
<1>. QED  BY <1>1, <1>2, <1>3, <1>4, <1>5 DEF Next

LEMMA RedeliveredGrows ==
  ASSUME TypeOK, RunsInv, ~Timeouts, ~Crashes, [Next]_vars,
         NEW d \in Deployments, Redelivered(d)
  PROVE  Redelivered(d)'
<1>1. PICK t \in TasksOf(d) : GivenBack(t) > 0
  BY DEF Redelivered
<1>2. t \in Tasks /\ GivenBack(t) \in Int
  BY GivenBackType, TasksOfFacts
<1>3. GivenBack(t)' \in Int /\ GivenBack(t)' >= GivenBack(t)
  BY <1>2, GivenBackGrows
<1>4. GivenBack(t)' > 0
  BY <1>1, <1>2, <1>3
<1>. QED  BY <1>4 DEF Redelivered, TasksOf

\* A restart gives a job of a deployment back, or does not touch the deployment.
LEMMA RestartGivesBack ==
  ASSUME TypeOK, RunsInv, \A t \in Tasks : GivenBack(t) >= 0, NEW d \in Deployments,
         NEW kind \in {"build", "deploy"}, Restart(kind), ~Redelivered(d)'
  PROVE  /\ \A t \in TasksOf(d) : taskState'[t] = taskState[t] /\ starts'[t] = starts[t]
         /\ \A r \in Runs : DepOf(r) = d => pc'[r] = pc[r]
         /\ UNCHANGED rows
<1>1. CASE \E t \in TasksOf(d) : taskState[t] = "active" /\ t[1] = kind
  <2>1. PICK t \in TasksOf(d) : taskState[t] = "active" /\ t[1] = kind
    BY <1>1
  <2>2. t \in Tasks /\ GivenBack(t) \in Int /\ GivenBack(t) >= 0
    BY GivenBackType, TasksOfFacts
  <2>3. GivenBack(t)' = GivenBack(t) + 1
    BY <2>1, <2>2, RestartGivenBack
  <2>4. GivenBack(t)' > 0
    BY <2>2, <2>3
  <2>. QED  BY <2>4 DEF Redelivered, TasksOf
<1>2. CASE ~\E t \in TasksOf(d) : taskState[t] = "active" /\ t[1] = kind
  <2>1. /\ UNCHANGED <<starts, rows>>
        /\ pc' = [r \in Runs |-> IF TaskOf(r)[1] = kind THEN "off" ELSE pc[r]]
    BY RestartFacts
  <2>2. \A t \in TasksOf(d) : taskState'[t] = taskState[t]
    BY <1>2, RestartFacts, TasksOfFacts
  <2>3. ASSUME NEW r \in Runs, DepOf(r) = d  PROVE pc'[r] = pc[r]
    <3>1. pc[r] # "off" => taskState[TaskOf(r)] = "active"
      BY DEF RunsInv, OnlyLiveRuns, Live
    <3>. QED  BY <1>2, <2>1, <2>3, <3>1, TasksOfFacts
  <2>. QED  BY <2>1, <2>2, <2>3
<1>. QED  BY <1>1, <1>2

\* A step that gives nothing back.
LEMMA StepHandOver ==
  ASSUME TypeOK, RunsInv, NEW d \in Deployments, HandedOver(d), ~Timeouts, ~Crashes, [Next]_vars,
         ~\E kind \in {"build", "deploy"} : Restart(kind)
  PROVE  HandedOver(d)'
<1>1. CASE UNCHANGED vars
  BY <1>1, OthersHandedOver DEF vars, rows, queue
<1>2. CASE \E e \in Deployments : ReqNext(e)
  BY <1>2, ReqHandOver
<1>3. CASE \E t \in Tasks : QueueNext(t)
  BY <1>3, QueueRuns, StartHandOver
<1>4. CASE \E r \in Runs : RunNext(r)
  <2>. PICK r \in Runs : RunNext(r)
    BY <1>4
  <2>1. HandsOver(r) \/ Ends(r) \/ \E l : GoesOn(r, l)
    BY RunShape
  <2>2. CASE DepOf(r) = d
    BY <2>1, <2>2, GoesOnHandOver, EndsHandOver, HandsOverHandOver
  <2>3. CASE DepOf(r) # d
    BY <2>1, <2>3, OthersRunHandOver
  <2>. QED  BY <2>2, <2>3
<1>. QED  BY <1>1, <1>2, <1>3, <1>4 DEF Next, Crash

\* Without crashes and timeouts, whatever statements and requests fail, however
\* often jobs are retried and workers restarted: of every deployment whose jobs
\* no restart has given back, build.run hands over at most once, what it handed
\* over has been built, and only the deploy.run that is at its end has set it to
\* running.
THEOREM HandOverInvariant == ~Timeouts /\ ~Crashes => (Spec => []HandOverInv)
<1>. SUFFICES ASSUME ~Timeouts, ~Crashes  PROVE Spec => []HandOverInv
  OBVIOUS
<1>1. TypeOK /\ RunsInv /\ RunsInv' /\ HandOverInv /\ [Next]_vars => HandOverInv'
  <2>. SUFFICES ASSUME TypeOK, RunsInv, RunsInv', HandOverInv, [Next]_vars  PROVE HandOverInv'
    OBVIOUS
  <2>1. ASSUME NEW t \in Tasks  PROVE GivenBack(t)' >= 0
    <3>1. GivenBack(t) \in Int /\ GivenBack(t) >= 0
      BY GivenBackType DEF HandOverInv
    <3>2. GivenBack(t)' \in Int /\ GivenBack(t)' >= GivenBack(t)
      BY GivenBackGrows
    <3>. QED  BY <3>1, <3>2
  <2>2. ASSUME NEW d \in Deployments, ~Redelivered(d)'  PROVE HandedOver(d)'
    <3>1. HandedOver(d)
      BY <2>2, RedeliveredGrows DEF HandOverInv
    <3>2. CASE ~\E kind \in {"build", "deploy"} : Restart(kind)
      BY <3>1, <3>2, StepHandOver
    <3>3. CASE \E kind \in {"build", "deploy"} : Restart(kind)
      BY <2>2, <3>1, <3>3, RestartGivesBack, OthersHandedOver DEF HandOverInv, rows
    <3>. QED  BY <3>2, <3>3
  <2>. QED  BY <2>1, <2>2 DEF HandOverInv
<1>2. Init => HandOverInv
  BY InitHandedOver, InitRuns, PipelineAssumption DEF HandOverInv, Init, GivenBack, Due
<1>. QED  BY <1>1, <1>2, OneRunPerTask, TypeCorrect, PTL DEF Spec

\* Success is final: no step of anybody, whatever fails, takes a deployment back
\* from running whose jobs no restart has given back.
THEOREM SuccessIsFinal == ~Timeouts /\ ~Crashes => (Spec => RunningIsFinal)
<1>. SUFFICES ASSUME ~Timeouts, ~Crashes  PROVE Spec => RunningIsFinal
  OBVIOUS
<1>1. Spec => []HandOverInv
  BY HandOverInvariant
<1>2. TypeOK /\ HandOverInv /\ [Next]_vars =>
        [\A d \in Deployments :
           depStatus[d] = "running" /\ ~Redelivered(d) => depStatus'[d] = "running"]_vars
  <2>. SUFFICES ASSUME TypeOK, HandOverInv, Next,
                       NEW d \in Deployments, depStatus[d] = "running", ~Redelivered(d)
                PROVE  depStatus'[d] = "running"
    OBVIOUS
  <2>1. HandedOver(d) /\ RunsInv
    BY DEF HandOverInv
  <2>2. CASE \E e \in Deployments : ReqNext(e)
    <3>. PICK e \in Deployments : ReqNext(e)
      BY <2>2
    <3>1. req[d] \notin ReqActive \cup {"none"}
      <4>1. \E n \in Deliveries : taskState[DeployTask(d, n)] # "absent"
        BY <2>1 DEF HandedOver, RunningIsServed, TaskAt
      <4>2. taskState[BuildTask(d)] # "absent"
        BY <2>1, <4>1, NotHandedOver DEF TaskAt
      <4>. QED  BY <2>1, <4>2 DEF RunsInv, FreshTasks
    <3>2. \A f \in Deployments :
            f # e \/ req[f] \notin ReqActive \cup {"none"} => depStatus'[f] = depStatus[f]
      BY DEF ReqNext, ReqInsertDeployment, ReqInsertBuild, ReqMarkBuilding, ReqMarkService,
         ReqEnqueue, ReqAbort, ReqStep, ReqActive, UpdateDeployment, rows, TypeOK
    <3>. QED  BY <3>1, <3>2
  <2>3. CASE \E t \in Tasks : QueueNext(t)
    BY <2>3 DEF QueueNext, Start, Expire, Recover, rows
  <2>4. CASE \E kind \in {"build", "deploy"} : Restart(kind) \/ Crash(kind)
    BY <2>4 DEF Restart, Crash, rows
  <2>5. CASE \E r \in Runs : RunNext(r)
    <3>. PICK r \in Runs : RunNext(r)
      BY <2>5
    <3>1. HandsOver(r) \/ Ends(r) \/ \E l : GoesOn(r, l)
      BY <2>1, RunShape
    <3>2. CASE \E l : GoesOn(r, l)
      <4>. PICK l : GoesOn(r, l)
        BY <3>2
      <4>1. RowsMove(r, l) /\ pc[r] \notin {"off", "ack"}
        BY DEF GoesOn
      <4>. QED  BY <2>1, <4>1, RunningHasNoWriter DEF RowsMove
    <3>. QED  BY <3>1, <3>2 DEF HandsOver, Ends
  <2>. QED  BY <2>2, <2>3, <2>4, <2>5 DEF Next
<1>. QED  BY <1>1, <1>2, TypeCorrect, PTL DEF Spec, RunningIsFinal

\* Where workers are not restarted, no job is given back.
LEMMA NothingRedelivered ==
  ASSUME MaxRestarts = 0, TypeOK, DeliveryInv, NEW d \in Deployments
  PROVE  ~Redelivered(d)
<1>1. restarts = 0
  BY DEF TypeOK
<1>2. \A t \in TasksOf(d) : GivenBack(t) <= 0 /\ GivenBack(t) \in Int
  BY <1>1, TasksOfFacts, GivenBackType DEF DeliveryInv
<1>. QED  BY <1>2 DEF Redelivered

THEOREM AllHandedOverInvariant == ~Redelivery => (Spec => []AllHandedOver)
<1>. SUFFICES ASSUME ~Redelivery  PROVE Spec => []AllHandedOver
  OBVIOUS
<1>1. ~Timeouts /\ ~Crashes /\ MaxRestarts = 0
  BY PipelineAssumption DEF Redelivery
<1>2. Spec => []HandOverInv
  BY <1>1, HandOverInvariant
<1>3. TypeOK /\ DeliveryInv /\ HandOverInv => AllHandedOver
  BY <1>1, NothingRedelivered DEF HandOverInv, AllHandedOver
<1>. QED  BY <1>2, <1>3, DeliveriesAreBounded, TypeCorrect, PTL

-----------------------------------------------------------------------------
(* The pipeline implements the life cycle of a deployment's row.           *)

LEMMA InitLifecycle == Init => Lifecycle!Init
  BY DEF Init, Lifecycle!Init

\* A run that may still write the row works on an accepted deployment, which is
\* not running unless asynq has delivered a job that had ended.
LEMMA WriterIsWorking ==
  ASSUME TypeOK, AcceptedInv, ~Redelivery => AllHandedOver,
         NEW r \in Runs, pc[r] \notin {"off", "svcRunning", "ack"}
  PROVE  Lifecycle!Worked(DepOf(r))
<1>1. depStatus[DepOf(r)] \notin {"none", "queued"}
  BY DEF AcceptedInv, Accepted
<1>2. depStatus[DepOf(r)] = "running" => Redelivery
  BY RunningHasNoWriter, RunFacts DEF AllHandedOver
<1>. QED  BY <1>1, <1>2 DEF Lifecycle!Worked

LEMMA ReqLifecycle ==
  ASSUME TypeOK, AcceptedInv, NEW d \in Deployments, ReqNext(d)
  PROVE  Lifecycle!Next \/ UNCHANGED Lifecycle!vars
<1>. USE DEF rows, Lifecycle!vars
<1>1. CASE ReqInsertDeployment(d)
  <2>1. Lifecycle!Submit(d)
    BY <1>1 DEF ReqInsertDeployment, ReqStep, UpdateDeployment, AcceptedInv,
       Lifecycle!Submit, Lifecycle!SetStatus
  <2>. QED  BY <2>1 DEF Lifecycle!Next
<1>2. CASE ReqMarkBuilding(d)
  <2>1. Lifecycle!Accept(d)
    BY <1>2 DEF ReqMarkBuilding, ReqStep, UpdateDeployment, AcceptedInv,
       Lifecycle!Accept, Lifecycle!SetStatus
  <2>. QED  BY <2>1 DEF Lifecycle!Next
<1>3. CASE ~(ReqInsertDeployment(d) \/ ReqMarkBuilding(d))
  BY <1>3 DEF ReqNext, ReqInsertBuild, ReqMarkService, ReqEnqueue, ReqAbort
<1>. QED  BY <1>1, <1>2, <1>3

LEMMA BuildLifecycle ==
  ASSUME TypeOK, PushedInv, NEW r \in Runs, Lifecycle!Worked(DepOf(r)), BuildNext(r)
  PROVE  Lifecycle!Next \/ UNCHANGED Lifecycle!vars
<1>. DEFINE d == DepOf(r)
<1>. USE RunFacts DEF rows, Lifecycle!vars
<1>1. CASE BuildMarkPushing(r)
  <2>1. depStatus' = [depStatus EXCEPT ![d] = "pushing"] \/ depStatus' = depStatus
    BY <1>1, OutcomesAreBooleans DEF BuildMarkPushing, UpdateDeployment, TypeOK
  <2>2. UNCHANGED <<imageRefs, pushed>>
    BY <1>1 DEF BuildMarkPushing
  <2>3. Lifecycle!MarkPushing(d) \/ depStatus' = depStatus
    BY <2>1, <2>2 DEF Lifecycle!MarkPushing, Lifecycle!SetStatus
  <2>. QED  BY <2>2, <2>3 DEF Lifecycle!Next
<1>2. CASE BuildPush(r)
  <2>1. Lifecycle!Push(d) \/ pushed' = pushed
    BY <1>2 DEF BuildPush, Lifecycle!Push
  <2>. QED  BY <1>2, <2>1 DEF BuildPush, Lifecycle!Next
<1>3. CASE BuildMarkDeploying(r)
  <2>1. d \in pushed
    BY <1>3 DEF BuildMarkDeploying, BuildStep, At, PushedInv, RunsPushed
  <2>2. PICK ok \in DbOutcome(r) :
          /\ UpdateDeployment(d, "deploying", ok)
          /\ imageRefs' = IF ok THEN imageRefs \cup {d} ELSE imageRefs
    BY <1>3 DEF BuildMarkDeploying
  <2>3. pushed' = pushed
    BY <1>3 DEF BuildMarkDeploying
  <2>4. Lifecycle!Deploy(d, "deploying") \/ UNCHANGED <<depStatus, imageRefs>>
    BY <2>1, <2>2, <2>3, OutcomesAreBooleans
    DEF UpdateDeployment, TypeOK, Lifecycle!Deploy, Lifecycle!SetStatus
  <2>. QED  BY <2>3, <2>4 DEF Lifecycle!Next
<1>4. CASE ~(BuildMarkPushing(r) \/ BuildPush(r) \/ BuildMarkDeploying(r))
  BY <1>4 DEF BuildNext, BuildLoad, BuildClone, BuildDetect, BuildImage, BuildCommand,
     BuildSuccess, BuildEnqueueDeploy, BuildFail
<1>. QED  BY <1>1, <1>2, <1>3, <1>4

LEMMA DeployLifecycle ==
  ASSUME TypeOK, PushedInv, NEW r \in Runs, pc[r] # "off", DeployNext(r),
         pc[r] # "svcRunning" => Lifecycle!Worked(DepOf(r))
  PROVE  Lifecycle!Next \/ UNCHANGED Lifecycle!vars
<1>. DEFINE d == DepOf(r)
<1>. USE RunFacts DEF rows, Lifecycle!vars
<1>1. CASE DeployMarkRunning(r)
  <2>1. d \in pushed
    BY <1>1, TaskFacts DEF DeployMarkRunning, DeployStep, At, PushedInv, RunsPushed
  <2>2. PICK ok \in DbOutcome(r) :
          /\ UpdateDeployment(d, "running", ok)
          /\ imageRefs' = IF ok THEN imageRefs \cup {d} ELSE imageRefs
    BY <1>1 DEF DeployMarkRunning
  <2>3. pushed' = pushed /\ pc[r] = "markRunning"
    BY <1>1 DEF DeployMarkRunning, DeployStep, At
  <2>4. Lifecycle!Deploy(d, "running") \/ UNCHANGED <<depStatus, imageRefs>>
    BY <2>1, <2>2, <2>3, OutcomesAreBooleans
    DEF UpdateDeployment, TypeOK, Lifecycle!Deploy, Lifecycle!SetStatus
  <2>. QED  BY <2>3, <2>4 DEF Lifecycle!Next
<1>2. CASE ~DeployMarkRunning(r)
  BY <1>2 DEF DeployNext, DeployPull, DeployFreeSlot, DeployRun, DeployRunConflict,
     DeployWriteRoute, DeployRemoveStale, DeployVerify, DeployRemoveOwn,
     DeployServiceRunning, DeployFail
<1>. QED  BY <1>1, <1>2

LEMMA EndLifecycle ==
  ASSUME TypeOK, NEW r \in Runs, EndNext(r),
         pc[r] \notin {"off", "svcRunning", "ack"} => Lifecycle!Worked(DepOf(r))
  PROVE  Lifecycle!Next \/ UNCHANGED Lifecycle!vars
<1>. DEFINE d == DepOf(r)
<1>. USE RunFacts DEF rows, Lifecycle!vars
<1>1. CASE FailDeployment(r) \/ ExhaustedFailDeployment(r)
  <2>1. /\ depStatus' = [depStatus EXCEPT ![d] = "failed"] \/ depStatus' = depStatus
        /\ UNCHANGED <<imageRefs, pushed>>
        /\ pc[r] \in {"failDep", "exhaustedDep"}
    BY <1>1, OutcomesAreBooleans, PipelineAssumption
    DEF FailDeployment, ExhaustedFailDeployment, UpdateDeployment, At, TypeOK
  <2>2. Lifecycle!Fail(d) \/ depStatus' = depStatus
    BY <2>1 DEF Lifecycle!Fail, Lifecycle!SetStatus
  <2>. QED  BY <2>1, <2>2 DEF Lifecycle!Next
<1>2. CASE ~(FailDeployment(r) \/ ExhaustedFailDeployment(r))
  BY <1>2 DEF EndNext, FailService, Ack, ReturnError, ExhaustedFailService
<1>. QED  BY <1>1, <1>2

\* Every step of the pipeline is a step of the abstract life cycle or leaves the
\* row, the image_refs and the registry alone: for any number of services and
\* deployments, and under every combination of aborted requests, failing
\* statements, retries, timeouts, restarts and crashes.
THEOREM PipelineImplementsLifecycle == Spec => ImplementsLifecycle
<1>1. TypeOK /\ PushedInv /\ AcceptedInv /\ (~Redelivery => AllHandedOver) /\ [Next]_vars
        => [Lifecycle!Next]_(Lifecycle!vars)
  <2>. SUFFICES ASSUME TypeOK, PushedInv, AcceptedInv, ~Redelivery => AllHandedOver, [Next]_vars
                PROVE  Lifecycle!Next \/ UNCHANGED Lifecycle!vars
    OBVIOUS
  <2>1. CASE UNCHANGED vars
    BY <2>1 DEF vars, rows, Lifecycle!vars
  <2>2. CASE \E d \in Deployments : ReqNext(d)
    BY <2>2, ReqLifecycle
  <2>3. CASE \E t \in Tasks : QueueNext(t)
    BY <2>3 DEF QueueNext, Start, Expire, Recover, rows, Lifecycle!vars
  <2>4. CASE \E kind \in {"build", "deploy"} : Restart(kind) \/ Crash(kind)
    BY <2>4 DEF Restart, Crash, rows, Lifecycle!vars
  <2>5. CASE \E r \in Runs : RunNext(r)
    <3>. PICK r \in Runs : RunNext(r)
      BY <2>5
    <3>1. pc[r] \notin {"off", "svcRunning", "ack"} => Lifecycle!Worked(DepOf(r))
      BY WriterIsWorking
    <3>2. CASE BuildNext(r)
      <4>1. pc[r] \in BuildPCs
        BY <3>2 DEF BuildNext, BuildLoad, BuildClone, BuildDetect, BuildImage, BuildCommand,
           BuildMarkPushing, BuildPush, BuildSuccess, BuildMarkDeploying, BuildEnqueueDeploy,
           BuildFail, BuildStep, At, BuildPCs
      <4>. QED  BY <3>1, <3>2, <4>1, BuildLifecycle DEF BuildPCs
    <3>3. CASE DeployNext(r)
      <4>1. pc[r] # "ack"
        BY <3>3, DeployShape DEF RunNext, GoesOn
      <4>. QED  BY <3>1, <3>3, <4>1, DeployLifecycle DEF RunNext
    <3>4. CASE EndNext(r)
      BY <3>1, <3>4, EndLifecycle
    <3>. QED  BY <3>2, <3>3, <3>4 DEF RunNext
  <2>. QED  BY <2>1, <2>2, <2>3, <2>4, <2>5 DEF Next
<1>2. ~Redelivery => (Spec => []AllHandedOver)
  BY AllHandedOverInvariant
<1>3. CASE Redelivery
  <2>1. TypeOK /\ PushedInv /\ AcceptedInv /\ [Next]_vars => [Lifecycle!Next]_(Lifecycle!vars)
    BY <1>1, <1>3
  <2>. QED  BY <2>1, InitLifecycle, TypeCorrect, PushedInvariant, AcceptedInvariant, PTL
            DEF Spec, ImplementsLifecycle, Lifecycle!Spec
<1>4. CASE ~Redelivery
  <2>1. TypeOK /\ PushedInv /\ AcceptedInv /\ AllHandedOver /\ [Next]_vars
          => [Lifecycle!Next]_(Lifecycle!vars)
    BY <1>1
  <2>2. Spec => []AllHandedOver
    BY <1>2, <1>4
  <2>. QED  BY <2>1, <2>2, InitLifecycle, TypeCorrect, PushedInvariant, AcceptedInvariant, PTL
            DEF Spec, ImplementsLifecycle, Lifecycle!Spec
<1>. QED  BY <1>3, <1>4

-----------------------------------------------------------------------------
(* The build's row and the deployment's row agree.                         *)

\* A step of a run leaves the tasks of the others where they are; at most it
\* enqueues a deploy.run.
LEMMA OtherTasks ==
  ASSUME TypeOK, RunsInv, NEW r \in Runs, RunNext(r), NEW t \in Tasks, t # TaskOf(r)
  PROVE  /\ \/ taskState'[t] = taskState[t]
            \/ t \in DeployTasks /\ taskState[t] = "absent" /\ taskState'[t] = "pending"
         /\ starts'[t] = starts[t]
         /\ taskState[t] = "active" => pc'[<<t, starts[t]>>] = pc[<<t, starts[t]>>]
<1>1. HandsOver(r) \/ Ends(r) \/ \E l : GoesOn(r, l)
  BY RunShape
<1>2. taskState[t] = "active" => <<t, starts[t]>> \in Runs /\ <<t, starts[t]>> # r
  BY RunOfTask DEF RunsInv, ActiveHasRun
<1>3. CASE HandsOver(r)
  <2>. DEFINE u == DeployTask(DepOf(r), r[2])
  <2>1. /\ u \in DeployTasks /\ taskState[u] = "absent"
        /\ taskState' = [taskState EXCEPT ![u] = "pending"]
        /\ starts' = starts /\ pc' = [pc EXCEPT ![r] = "ack"]
    BY <1>3, HandsOverRuns, RunFacts, TaskFacts DEF HandsOver, Goto
  <2>. HIDE DEF u
  <2>. QED  BY <1>2, <2>1 DEF TypeOK
<1>4. CASE Ends(r)
  BY <1>2, <1>4 DEF Ends, Goto, TypeOK
<1>5. CASE \E l : GoesOn(r, l)
  BY <1>2, <1>5 DEF GoesOn, Goto, TypeOK, queue
<1>. QED  BY <1>1, <1>3, <1>4, <1>5

\* What the build leg writes, statement by statement, when no statement fails.
LEMMA BuildRows ==
  ASSUME TypeOK, RunsInv, NEW r \in Runs, FailedBuildFails(DepOf(r)), Reliable, RunNext(r),
         NEW l, GoesOn(r, l), TaskOf(r) = BuildTask(DepOf(r))
  PROVE  /\ pc[r] \in BuildPCs => buildStatus'[DepOf(r)] # "failed" \/ l = "failDep"
         /\ pc[r] = "failDep" => depStatus'[DepOf(r)] = "failed"
         /\ pc[r] \notin BuildPCs \cup {"failDep"} => depStatus'[DepOf(r)] = depStatus[DepOf(r)]
<1>. DEFINE d == DepOf(r)
<1>. USE DEF At, Goto, rows, TypeOK
<1>1. /\ Live(r) /\ d \in Deployments /\ TaskOf(r) \in BuildTasks
      /\ taskState[BuildTask(d)] = "active" /\ r = <<BuildTask(d), starts[BuildTask(d)]>>
      /\ pc[r] \notin DeployPCs
  BY RunFacts, TaskFacts, BuildRunFacts DEF RunNext, RunsInv, OnlyLiveRuns
<1>2. DbOutcome(r) = {TRUE}
  BY <1>1, ReliableOutcomes
<1>3. pc'[r] = l /\ pc[r] # "ack"
  BY DEF GoesOn
<1>4. pc[r] \in BuildPCs \ {"load"} => buildStatus[d] # "failed"
  BY <1>1 DEF FailedBuildFails, TaskAt
<1>5. CASE BuildNext(r)
  <2>. USE DEF BuildStep, BuildPCs
  <2>1. CASE BuildLoad(r)
    BY <1>1, <1>2, <2>1 DEF BuildLoad, UpdateBuild
  <2>2. CASE BuildClone(r)
    BY <1>1, <1>2, <1>4, <2>2, OutcomesAreBooleans DEF BuildClone, BuildCommand, UpdateBuild
  <2>3. CASE BuildDetect(r)
    BY <1>1, <1>2, <1>4, <2>3, OutcomesAreBooleans DEF BuildDetect, BuildCommand, UpdateBuild
  <2>4. CASE BuildImage(r)
    BY <1>1, <1>2, <1>4, <2>4, OutcomesAreBooleans DEF BuildImage, BuildCommand, UpdateBuild
  <2>5. CASE BuildMarkPushing(r) \/ BuildPush(r) \/ BuildMarkDeploying(r) \/ BuildEnqueueDeploy(r)
    BY <1>4, <2>5 DEF BuildMarkPushing, BuildPush, BuildMarkDeploying, BuildEnqueueDeploy
  <2>6. CASE BuildSuccess(r)
    BY <1>1, <1>2, <2>6 DEF BuildSuccess, UpdateBuild
  <2>7. CASE BuildFail(r)
    BY <1>3, <2>7 DEF BuildFail
  <2>. QED  BY <1>5, <2>1, <2>2, <2>3, <2>4, <2>5, <2>6, <2>7 DEF BuildNext
<1>6. CASE DeployNext(r)
  <2>1. TaskOf(r) \in DeployTasks
    BY <1>6 DEF DeployNext, DeployPull, DeployFreeSlot, DeployRun, DeployRunConflict,
       DeployWriteRoute, DeployRemoveStale, DeployVerify, DeployRemoveOwn,
       DeployMarkRunning, DeployServiceRunning, DeployFail, DeployStep
  <2>. QED  BY <1>1, <2>1, TaskFacts
<1>7. CASE EndNext(r)
  <2>. USE DEF BuildPCs, DeployPCs
  <2>1. CASE FailDeployment(r)
    BY <1>1, <1>2, <2>1 DEF FailDeployment, UpdateDeployment
  <2>2. CASE FailService(r) \/ Ack(r) \/ ReturnError(r) \/ ExhaustedFailService(r)
    BY <2>2 DEF FailService, Ack, ReturnError, ExhaustedFailService
  <2>3. CASE ExhaustedFailDeployment(r)
    BY <1>1, <2>3 DEF ExhaustedFailDeployment
  <2>. QED  BY <1>7, <2>1, <2>2, <2>3 DEF EndNext
<1>. QED  BY <1>5, <1>6, <1>7 DEF RunNext

LEMMA OthersFailed ==
  ASSUME TypeOK, RunsInv, NEW d \in Deployments, FailedBuildFails(d),
         depStatus'[d] = depStatus[d], buildStatus'[d] = buildStatus[d],
         \A t \in TasksOf(d) : taskState'[t] = taskState[t] /\ starts'[t] = starts[t],
         \A r \in Runs : DepOf(r) = d => pc'[r] = pc[r]
  PROVE  FailedBuildFails(d)'
<1>1. BuildTask(d) \in TasksOf(d)
  BY TasksOfFacts
<1>2. /\ TaskAt(BuildTask(d), {"failDep"})' <=> TaskAt(BuildTask(d), {"failDep"})
      /\ TaskAt(BuildTask(d), BuildPCs \ {"load"})' <=> TaskAt(BuildTask(d), BuildPCs \ {"load"})
  <2>1. ASSUME NEW places  PROVE TaskAt(BuildTask(d), places)' <=> TaskAt(BuildTask(d), places)
    BY <1>1, OthersAt
  <2>. QED  BY <2>1 DEF TaskAt, BuildPCs
<1>. QED  BY <1>1, <1>2 DEF FailedBuildFails

LEMMA ReqFailed ==
  ASSUME TypeOK, RunsInv, NEW d \in Deployments, FailedBuildFails(d), Reliable,
         NEW e \in Deployments, ReqNext(e)
  PROVE  FailedBuildFails(d)'
<1>. USE DEF rows, queue, host
<1>1. CASE e = d
  <2>1. taskState[BuildTask(d)] = "absent" /\ buildStatus[d] \in {"none", "queued"}
    BY <1>1 DEF ReqNext, ReqInsertDeployment, ReqInsertBuild, ReqMarkBuilding, ReqMarkService,
       ReqEnqueue, ReqAbort, ReqStep, ReqActive, Reliable, RunsInv, FreshTasks,
       FailedBuildFails
  <2>2. /\ buildStatus'[d] \in {"none", "queued"}
        /\ taskState'[BuildTask(d)] \in {"absent", "pending"}
    <3>1. CASE ReqEnqueue(d)
      BY <2>1, <3>1, TaskFacts DEF ReqEnqueue, BuildTask, TypeOK
    <3>2. CASE ReqInsertBuild(d)
      BY <2>1, <3>2 DEF ReqInsertBuild, UpdateBuild, TypeOK
    <3>3. CASE ReqInsertDeployment(d) \/ ReqMarkBuilding(d) \/ ReqMarkService(d) \/ ReqAbort(d)
      BY <2>1, <3>3 DEF ReqInsertDeployment, ReqMarkBuilding, ReqMarkService, ReqAbort,
         UpdateDeployment, TypeOK
    <3>. QED  BY <1>1, <3>1, <3>2, <3>3 DEF ReqNext
  <2>. QED  BY <2>2 DEF FailedBuildFails, TaskAt
<1>2. CASE e # d
  <2>1. /\ UNCHANGED <<starts, pc>>
        /\ depStatus'[d] = depStatus[d] /\ buildStatus'[d] = buildStatus[d]
        /\ \A t \in Tasks \ {BuildTask(e)} : taskState'[t] = taskState[t]
    BY <1>2 DEF ReqNext, ReqInsertDeployment, ReqInsertBuild, ReqMarkBuilding, ReqMarkService,
       ReqEnqueue, ReqAbort, UpdateDeployment, UpdateBuild, TypeOK
  <2>2. BuildTask(e) \notin TasksOf(d)
    BY <1>2, TasksOfFacts DEF BuildTask
  <2>. QED  BY <2>1, <2>2, TasksOfFacts, OthersFailed
<1>. QED  BY <1>1, <1>2

LEMMA StartFailed ==
  ASSUME TypeOK, RunsInv, NEW d \in Deployments, FailedBuildFails(d), NEW t \in Tasks, Start(t)
  PROVE  FailedBuildFails(d)'
<1>. DEFINE n == starts[t] + 1
<1>1. /\ taskState[t] \in {"pending", "retry"}
      /\ taskState' = [taskState EXCEPT ![t] = "active"]
      /\ starts' = [starts EXCEPT ![t] = n]
      /\ pc' = [pc EXCEPT ![<<t, n>>] = FirstStep(t)]
      /\ <<t, n>> \in Runs
      /\ UNCHANGED <<depStatus, buildStatus>>
  BY StartFacts DEF rows
<1>. HIDE DEF n
<1>2. /\ taskState'[t] = "active" /\ pc'[<<t, starts'[t]>>] = FirstStep(t)
      /\ \A u \in Tasks \ {t} : taskState'[u] = taskState[u] /\ starts'[u] = starts[u]
  BY <1>1 DEF TypeOK
<1>3. CASE BuildTask(d) = t
  <2>1. FirstStep(BuildTask(d)) = "load"
    BY DEF FirstStep, BuildTask
  <2>. QED  BY <1>1, <1>2, <1>3, <2>1 DEF FailedBuildFails, TaskAt
<1>4. CASE BuildTask(d) # t
  <2>1. BuildTask(d) \in Tasks \ {t}
    BY <1>4, TaskFacts
  <2>2. taskState[BuildTask(d)] = "active" =>
          pc'[<<BuildTask(d), starts[BuildTask(d)]>>] = pc[<<BuildTask(d), starts[BuildTask(d)]>>]
    <3>1. taskState[BuildTask(d)] = "active" => <<BuildTask(d), starts[BuildTask(d)]>> \in Runs
      BY <2>1, RunOfTask DEF RunsInv, ActiveHasRun
    <3>. QED  BY <1>1, <2>1, <3>1 DEF TypeOK
  <2>. QED  BY <1>1, <1>2, <2>1, <2>2 DEF FailedBuildFails, TaskAt
<1>. QED  BY <1>3, <1>4

\* A build run agrees with its build's row at every place.
LEMMA BuildRunFailed ==
  ASSUME TypeOK, RunsInv, NEW r \in Runs, FailedBuildFails(DepOf(r)), Reliable, RunNext(r),
         TaskOf(r) = BuildTask(DepOf(r))
  PROVE  FailedBuildFails(DepOf(r))'
<1>. DEFINE d == DepOf(r)
<1>1. d \in Deployments /\ pc[r] # "off"
  BY RunFacts DEF RunNext
<1>2. taskState[BuildTask(d)] = "active" /\ r = <<BuildTask(d), starts[BuildTask(d)]>>
  BY <1>1, BuildRunFacts
<1>3. CASE HandsOver(r)
  <2>1. buildStatus[d] # "failed"
    BY <1>1, <1>2, <1>3 DEF FailedBuildFails, TaskAt, HandsOver, BuildPCs
  <2>2. taskState'[BuildTask(d)] = "active" /\ buildStatus' = buildStatus
    BY <1>1, <1>2, <1>3, TaskFacts, RunFacts DEF HandsOver, TypeOK
  <2>. QED  BY <2>1, <2>2 DEF FailedBuildFails
<1>4. CASE Ends(r)
  <2>1. buildStatus[d] = "failed" => depStatus[d] = "failed"
    BY <1>1, <1>2, <1>4 DEF FailedBuildFails, TaskAt, Ends
  <2>. QED  BY <1>4, <2>1 DEF Ends, FailedBuildFails, TaskAt
<1>5. CASE \E l : GoesOn(r, l)
  <2>. PICK l : GoesOn(r, l)
    BY <1>5
  <2>1. /\ taskState'[BuildTask(d)] = "active"
        /\ pc'[<<BuildTask(d), starts'[BuildTask(d)]>>] = l
        /\ l \in BuildPCs => pc[r] \in BuildPCs
        /\ pc[r] \notin BuildPCs => buildStatus'[d] = buildStatus[d]
    BY <1>2 DEF GoesOn, RowsMove, Goto, TypeOK, queue
  <2>2. /\ pc[r] \in BuildPCs => buildStatus'[d] # "failed" \/ l = "failDep"
        /\ pc[r] = "failDep" => depStatus'[d] = "failed"
        /\ pc[r] \notin BuildPCs \cup {"failDep"} => depStatus'[d] = depStatus[d]
    BY <1>1, BuildRows
  <2>3. buildStatus[d] = "failed" => depStatus[d] = "failed" \/ pc[r] = "failDep"
    BY <1>1, <1>2 DEF FailedBuildFails, TaskAt
  <2>. QED  BY <2>1, <2>2, <2>3 DEF FailedBuildFails, TaskAt, BuildPCs
<1>. QED  BY <1>3, <1>4, <1>5, RunShape

LEMMA RunFailed ==
  ASSUME TypeOK, RunsInv, NEW d \in Deployments, HandedOver(d), FailedBuildFails(d), Reliable,
         NEW r \in Runs, RunNext(r)
  PROVE  FailedBuildFails(d)'
<1>1. HandsOver(r) \/ Ends(r) \/ \E l : GoesOn(r, l)
  BY RunShape
<1>2. CASE DepOf(r) # d
  <2>1. /\ depStatus'[d] = depStatus[d] /\ buildStatus'[d] = buildStatus[d]
        /\ starts' = starts
        /\ \A q \in Runs \ {r} : pc'[q] = pc[q]
    BY <1>1, <1>2 DEF HandsOver, Ends, GoesOn, RowsMove, Goto, queue, TypeOK
  <2>2. TaskOf(r) \notin TasksOf(d) /\ DeployTask(DepOf(r), r[2]) \notin TasksOf(d)
    BY <1>2, TasksOfFacts, RunFacts DEF DeployTask
  <2>3. \A t \in Tasks \ {TaskOf(r), DeployTask(DepOf(r), r[2])} : taskState'[t] = taskState[t]
    BY <1>1 DEF HandsOver, Ends, GoesOn, queue, TypeOK
  <2>. QED  BY <1>2, <2>1, <2>2, <2>3, TasksOfFacts, OthersFailed
<1>3. CASE DepOf(r) = d /\ TaskOf(r) = BuildTask(d)
  BY <1>3, BuildRunFailed
<1>4. CASE DepOf(r) = d /\ TaskOf(r) # BuildTask(d)
  <2>1. PICK n \in Deliveries : TaskOf(r) = DeployTask(d, n)
    BY <1>4, RunFacts DEF Tasks
  <2>2. taskState[BuildTask(d)] # "absent" /\ buildStatus[d] = "success"
    <3>1. taskState[TaskOf(r)] = "active"
      BY BuildRunFacts DEF RunNext
    <3>. QED  BY <2>1, <3>1 DEF HandedOver, OneHandOver, BuiltBeforeHandOver, TaskAt
  <2>3. pc[r] \notin BuildPCs
    BY <1>4, BuildRunFacts DEF RunNext
  <2>4. buildStatus'[d] = "success"
    BY <1>1, <1>4, <2>2, <2>3 DEF HandsOver, Ends, GoesOn, RowsMove
  <2>5. taskState'[BuildTask(d)] # "absent"
    BY <1>4, <2>2, OtherTasks, TaskFacts
  <2>. QED  BY <2>4, <2>5 DEF FailedBuildFails
<1>. QED  BY <1>2, <1>3, <1>4

\* Half of RowsAgree needs no reliable statements: until a restart gives one of its
\* jobs back, a deployment shown as running has a build that is recorded as a
\* success, whichever updates of the two rows failed before.
THEOREM RunningWasBuilt ==
  ~Timeouts /\ ~Crashes =>
    (Spec => [](\A d \in Deployments :
                  depStatus[d] = "running" /\ ~Redelivered(d) => buildStatus[d] = "success"))
<1>. SUFFICES ASSUME ~Timeouts, ~Crashes
              PROVE  Spec => [](\A d \in Deployments :
                       depStatus[d] = "running" /\ ~Redelivered(d) => buildStatus[d] = "success")
  OBVIOUS
<1>1. Spec => []HandOverInv
  BY HandOverInvariant
<1>2. HandOverInv => \A d \in Deployments :
        depStatus[d] = "running" /\ ~Redelivered(d) => buildStatus[d] = "success"
  BY DEF HandOverInv, HandedOver, RunningIsServed, BuiltBeforeHandOver, TaskAt
<1>. QED  BY <1>1, <1>2, PTL

\* When only the commands of build and deploy can fail: until a restart gives one of
\* its jobs back, a running deployment was built with success, and a build that
\* failed for good has taken its deployment along, for any number of overlapping
\* requests, retries and restarts.
THEOREM RowsAlwaysAgree == Reliable => (Spec => []RowsAgree)
<1>. SUFFICES ASSUME Reliable  PROVE Spec => []RowsAgree
  OBVIOUS
<1>. DEFINE Failed == \A d \in Deployments : Redelivered(d) \/ FailedBuildFails(d)
<1>1. ~Timeouts /\ ~Crashes
  BY DEF Reliable
<1>2. Spec => []HandOverInv
  BY <1>1, HandOverInvariant
<1>3. TypeOK /\ HandOverInv /\ Failed /\ [Next]_vars => Failed'
  <2>. SUFFICES ASSUME TypeOK, HandOverInv, Failed, [Next]_vars,
                       NEW d \in Deployments, ~Redelivered(d)'
                PROVE  FailedBuildFails(d)'
    OBVIOUS
  <2>1. FailedBuildFails(d) /\ HandedOver(d) /\ RunsInv
    BY <1>1, RedeliveredGrows DEF HandOverInv
  <2>2. CASE UNCHANGED vars
    BY <2>1, <2>2, OthersFailed DEF vars, rows, queue
  <2>3. CASE \E e \in Deployments : ReqNext(e)
    BY <2>1, <2>3, ReqFailed
  <2>4. CASE \E t \in Tasks : QueueNext(t)
    BY <1>1, <2>1, <2>4, QueueRuns, StartFailed
  <2>5. CASE \E kind \in {"build", "deploy"} : Restart(kind) \/ Crash(kind)
    BY <1>1, <2>1, <2>5, RestartGivesBack, OthersFailed DEF HandOverInv, Crash, rows
  <2>6. CASE \E r \in Runs : RunNext(r)
    BY <2>1, <2>6, RunFailed
  <2>. QED  BY <2>2, <2>3, <2>4, <2>5, <2>6 DEF Next
<1>4. Init => Failed
  BY TaskFacts DEF Init, FailedBuildFails, TaskAt
<1>5. HandOverInv /\ Failed => RowsAgree
  <2>. SUFFICES ASSUME HandOverInv, Failed, NEW d \in Deployments, ~Redelivered(d)
                PROVE  /\ depStatus[d] = "running" => buildStatus[d] = "success"
                       /\ buildStatus[d] = "failed" /\ NoWork(d) => depStatus[d] = "failed"
    BY DEF RowsAgree
  <2>1. depStatus[d] = "running" => buildStatus[d] = "success"
    BY DEF HandOverInv, HandedOver, RunningIsServed, BuiltBeforeHandOver, TaskAt
  <2>2. NoWork(d) => taskState[BuildTask(d)] # "active"
    BY DEF NoWork, TaskIdle, InFlight
  <2>. QED  BY <2>1, <2>2 DEF FailedBuildFails, TaskAt
<1>. QED  BY <1>2, <1>3, <1>4, <1>5, TypeCorrect, PTL DEF Spec

=============================================================================
