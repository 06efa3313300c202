--------------------------- MODULE DeployPipeline ---------------------------
(***************************************************************************)
(* The deploy pipeline: the API's enqueueBuild request, the asynq task     *)
(* queue, the build worker, the runtime agent, and the Postgres rows,      *)
(* registry, containers and Traefik route files they share.                *)
(*                                                                         *)
(* A deployment d is one row of `deployments` with its one row of `builds` *)
(* and its image tag (composeImageRef puts the deployment id in the tag).  *)
(* A task is a queued job; a RUN <<t, n>> is the goroutine executing the   *)
(* n-th delivery of task t. A run whose task asynq has taken back (the     *)
(* task's Timeout passed) goes on with an expired context: commands and    *)
(* queries fail at once, file operations and Enqueue still take effect.    *)
(***************************************************************************)
EXTENDS Integers

CONSTANTS
  Services,        \* rows of `services`
  Deployments,     \* deployment ids a request may create
  ServiceOf,       \* [Deployments -> Services]
  NoImage,         \* SQL NULL, and "no container"
  MaxRetry,        \* asynq MaxRetry of both jobs (2 in the code)
  MaxDeliveries,   \* BOUND: deliveries of one task
  MaxRestarts,     \* BOUND: worker restarts and crashes altogether
  RequestPolicy,   \* when clients deploy: "any", "settledRow" or "quiet"
  ApiAborts,       \* a request may die between two statements
  DbErrors,        \* a worker's statement may fail
  EnqueueErrors,   \* a worker's Enqueue may fail (Redis)
  Timeouts,        \* a handler may outlive its task's Timeout
  Crashes          \* a worker may die without requeueing its tasks

ASSUME PipelineAssumption ==
  /\ ServiceOf \in [Deployments -> Services]
  /\ NoImage \notin Deployments
  /\ MaxRetry \in Nat
  /\ MaxDeliveries \in Nat \ {0}
  /\ MaxRestarts \in Nat
  /\ RequestPolicy \in {"any", "settledRow", "quiet"}
  /\ {ApiAborts, DbErrors, EnqueueErrors, Timeouts, Crashes} \subseteq BOOLEAN

Deliveries == 1 .. MaxDeliveries

\* The build.run task of a deployment, and the deploy.run task that the n-th
\* delivery of its build enqueues.
BuildTask(d) == <<"build", d, 0>>
DeployTask(d, n) == <<"deploy", d, n>>
BuildTasks == {"build"} \X Deployments \X {0}
DeployTasks == {"deploy"} \X Deployments \X Deliveries
Tasks == BuildTasks \cup DeployTasks
Runs == Tasks \X Deliveries

VARIABLES
  (* Postgres *)
  depStatus,   \* deployments.status ("none": no row)
  imageRefs,   \* deployments whose image_ref is set
  buildStatus, \* builds.status
  svcStatus,   \* services.status
  svcImage,    \* services.current_image, as the deployment it was built for
  (* asynq, in Redis *)
  taskState, retried, starts,
  (* processes *)
  req,         \* where the API request creating a deployment is
  pc,          \* where each run is ("off": no such goroutine)
  restarts,    \* worker restarts and crashes so far
  (* registry and host *)
  pushed,      \* deployments whose image is in the registry
  container,   \* the container under the service's stable name, by deployment
  started,     \* that container was started
  route        \* the service's nebula-*.yml exists

rows == <<depStatus, imageRefs, buildStatus, svcStatus, svcImage>>
queue == <<taskState, retried, starts>>
host == <<container, started, route>>
vars == <<rows, queue, req, pc, restarts, pushed, host>>

TaskOf(r) == r[1]
DepOf(r) == r[1][2]
SvcOf(r) == ServiceOf[DepOf(r)]

\* The run asynq is still waiting for; any other run has an expired context.
Live(r) == taskState[TaskOf(r)] = "active" /\ starts[TaskOf(r)] = r[2]

\* How a statement on a context-bound connection may end.
DbOutcome(r) == {ok \in BOOLEAN : (ok => Live(r)) /\ (ok \/ DbErrors \/ ~Live(r))}

\* How an external command (git, docker, pack) may end.
CmdOutcome(r) == {ok \in BOOLEAN : ok => Live(r)}

At(r, l) == pc[r] = l
Goto(r, l) == pc' = [pc EXCEPT ![r] = l]

Terminal == {"running", "failed"}
InFlight == {"pending", "active", "retry"}

Init ==
  /\ depStatus = [d \in Deployments |-> "none"]
  /\ imageRefs = {}
  /\ buildStatus = [d \in Deployments |-> "none"]
  /\ svcStatus = [s \in Services |-> "idle"]
  /\ svcImage = [s \in Services |-> NoImage]
  /\ taskState = [t \in Tasks |-> "absent"]
  /\ retried = [t \in Tasks |-> 0]
  /\ starts = [t \in Tasks |-> 0]
  /\ req = [d \in Deployments |-> "none"]
  /\ pc = [r \in Runs |-> "off"]
  /\ restarts = 0
  /\ pushed = {}
  /\ container = [s \in Services |-> NoImage]
  /\ started = [s \in Services |-> FALSE]
  /\ route = [s \in Services |-> FALSE]

-----------------------------------------------------------------------------
(* The row updates of the repository. *)

\* UpdateDeploymentWorker: unconditional on the previous status.
UpdateDeployment(d, status, ok) ==
  depStatus' = [depStatus EXCEPT ![d] = IF ok THEN status ELSE @]

UpdateBuild(d, status, ok) ==
  buildStatus' = [buildStatus EXCEPT ![d] = IF ok THEN status ELSE @]

\* PatchServiceRuntimeImage with a NULL image.
UpdateService(s, status, ok) ==
  svcStatus' = [svcStatus EXCEPT ![s] = IF ok THEN status ELSE @]

-----------------------------------------------------------------------------
(* API: enqueueBuild, statement by statement, without a transaction. *)

ReqActive == {"inserted", "built", "marked", "svcMarked"}

TaskIdle(t) == taskState[t] \notin InFlight

NoWork(d) ==
  /\ req[d] \notin ReqActive
  /\ TaskIdle(BuildTask(d))
  /\ \A n \in Deliveries : TaskIdle(DeployTask(d, n))

\* The environment: a client deploys at any time, only once no row of the
\* service is in progress, or only once nothing works for the service.
ClientMayDeploy(s) ==
  \A e \in Deployments : ServiceOf[e] = s =>
    CASE RequestPolicy = "any" -> TRUE
      [] RequestPolicy = "settledRow" -> depStatus[e] \in Terminal \cup {"none"}
      [] RequestPolicy = "quiet" -> NoWork(e)

ReqStep(d, from, to) == req[d] = from /\ req' = [req EXCEPT ![d] = to]

ReqInsertDeployment(d) ==
  /\ ReqStep(d, "none", "inserted")
  /\ ClientMayDeploy(ServiceOf[d])
  /\ UpdateDeployment(d, "queued", TRUE)
  /\ UNCHANGED <<imageRefs, buildStatus, svcStatus, svcImage, queue, pc,
                 restarts, pushed, host>>

ReqInsertBuild(d) ==
  /\ ReqStep(d, "inserted", "built")
  /\ UpdateBuild(d, "queued", TRUE)
  /\ UNCHANGED <<depStatus, imageRefs, svcStatus, svcImage, queue, pc,
                 restarts, pushed, host>>

ReqMarkBuilding(d) ==
  /\ ReqStep(d, "built", "marked")
  /\ UpdateDeployment(d, "building", TRUE)
  /\ UNCHANGED <<imageRefs, buildStatus, svcStatus, svcImage, queue, pc,
                 restarts, pushed, host>>

\* MUTANT of ReqMarkService: the service keeps its status.
ReqMarkServiceForgotten(d) ==
  /\ ReqStep(d, "marked", "svcMarked")
  /\ UNCHANGED <<rows, queue, pc, restarts, pushed, host>>

\* An error here is only logged: the request goes on.
ReqMarkService(d) ==
  /\ ReqStep(d, "marked", "svcMarked")
  /\ \E ok \in {TRUE, ~ApiAborts} : UpdateService(ServiceOf[d], "building", ok)
  /\ UNCHANGED <<depStatus, imageRefs, buildStatus, svcImage, queue, pc,
                 restarts, pushed, host>>

ReqEnqueue(d) ==
  /\ ReqStep(d, "svcMarked", "done")
  /\ taskState' = [taskState EXCEPT ![BuildTask(d)] = "pending"]
  /\ UNCHANGED <<rows, retried, starts, pc, restarts, pushed, host>>

\* Any statement (or Enqueue) errs, the client hangs up and its context is
\* cancelled, or the API process stops: the handler returns, nothing is undone.
ReqAbort(d) ==
  /\ ApiAborts
  /\ req[d] \in ReqActive
  /\ req' = [req EXCEPT ![d] = "aborted"]
  /\ UNCHANGED <<rows, queue, pc, restarts, pushed, host>>

ReqNext(d) ==
  \/ ReqInsertDeployment(d) \/ ReqInsertBuild(d) \/ ReqMarkBuilding(d)
  \/ ReqMarkService(d) \/ ReqEnqueue(d) \/ ReqAbort(d)

-----------------------------------------------------------------------------
(* asynq (external): at-least-once delivery, MaxRetry, Timeout, recovery. *)

\* MUTANT of GiveBack: the job is enqueued without a limit on its retries.
GiveBackForEver(t) ==
  /\ taskState' = [taskState EXCEPT ![t] = "retry"]
  /\ UNCHANGED retried

\* Retry the task, or archive it when its retries are used up.
GiveBack(t) ==
  IF retried[t] < MaxRetry
  THEN /\ taskState' = [taskState EXCEPT ![t] = "retry"]
       /\ retried' = [retried EXCEPT ![t] = @ + 1]
  ELSE /\ taskState' = [taskState EXCEPT ![t] = "archived"]
       /\ UNCHANGED retried

FirstStep(t) == IF t[1] = "build" THEN "load" ELSE "pull"

Start(t) ==
  /\ taskState[t] \in {"pending", "retry"}
  /\ starts[t] < MaxDeliveries
  /\ taskState' = [taskState EXCEPT ![t] = "active"]
  /\ starts' = [starts EXCEPT ![t] = @ + 1]
  /\ Goto(<<t, starts[t] + 1>>, FirstStep(t))
  /\ UNCHANGED <<rows, retried, req, restarts, pushed, host>>

ErrorHandling(r) == pc[r] \in {"exhaustedDep", "exhaustedSvc"}

\* The Timeout of the task passes. asynq calls the error handler with the
\* expired context, on which deployExhaustedHandler can write nothing, and
\* gives the task back; the handler's goroutine goes on.
Expire(t) ==
  /\ Timeouts
  /\ taskState[t] = "active"
  /\ pc[<<t, starts[t]>>] # "off"
  /\ ~ErrorHandling(<<t, starts[t]>>)
  /\ GiveBack(t)
  /\ UNCHANGED <<rows, starts, req, pc, restarts, pushed, host>>

\* A worker shuts down in order: the error handler's statements are waited
\* for, the other runs end and their tasks are requeued as they are.
Restart(kind) ==
  /\ restarts < MaxRestarts
  /\ \A r \in Runs : TaskOf(r)[1] = kind => ~ErrorHandling(r)
  /\ restarts' = restarts + 1
  /\ taskState' = [t \in Tasks |->
       IF \E r \in Runs : TaskOf(r) = t /\ t[1] = kind /\ pc[r] # "off" /\ Live(r)
       THEN "pending" ELSE taskState[t]]
  /\ pc' = [r \in Runs |-> IF TaskOf(r)[1] = kind THEN "off" ELSE pc[r]]
  /\ UNCHANGED <<rows, retried, starts, req, pushed, host>>

\* A worker dies: its runs end, their tasks stay active until recovered.
Crash(kind) ==
  /\ Crashes
  /\ restarts < MaxRestarts
  /\ restarts' = restarts + 1
  /\ pc' = [r \in Runs |-> IF TaskOf(r)[1] = kind THEN "off" ELSE pc[r]]
  /\ UNCHANGED <<rows, queue, req, pushed, host>>

\* asynq's recoverer gives back an active task whose lease has expired,
\* without calling the error handler.
Recover(t) ==
  /\ taskState[t] = "active"
  /\ pc[<<t, starts[t]>>] = "off"
  /\ GiveBack(t)
  /\ UNCHANGED <<rows, starts, req, pc, restarts, pushed, host>>

QueueNext(t) == Start(t) \/ Expire(t) \/ Recover(t)

\* A handler returned nil.
Ack(r) ==
  /\ At(r, "ack")
  /\ Goto(r, "off")
  /\ taskState' = [taskState EXCEPT ![TaskOf(r)] = IF Live(r) THEN "done" ELSE @]
  /\ UNCHANGED <<rows, retried, starts, req, restarts, pushed, host>>

\* MUTANT of Exhausted: the error handler is installed for both kinds of job.
ExhaustedOfAnyKind(t) == retried[t] >= MaxRetry

Exhausted(t) == t[1] = "deploy" /\ retried[t] >= MaxRetry

\* A handler returned an error: the error handler first, if it applies.
ReturnError(r) ==
  /\ At(r, "err")
  /\ IF ~Live(r)
     THEN Goto(r, "off") /\ UNCHANGED <<taskState, retried>>
     ELSE IF Exhausted(TaskOf(r))
     THEN Goto(r, "exhaustedDep") /\ UNCHANGED <<taskState, retried>>
     ELSE Goto(r, "off") /\ GiveBack(TaskOf(r))
  /\ UNCHANGED <<rows, starts, req, restarts, pushed, host>>

\* deployExhaustedHandler: fail() again, with no routes directory.
ExhaustedFailDeployment(r) ==
  /\ At(r, "exhaustedDep")
  /\ Goto(r, "exhaustedSvc")
  /\ \E ok \in {TRUE, ~(DbErrors \/ Timeouts)} : UpdateDeployment(DepOf(r), "failed", ok)
  /\ UNCHANGED <<imageRefs, buildStatus, svcStatus, svcImage, queue, req,
                 restarts, pushed, host>>

ExhaustedFailService(r) ==
  /\ At(r, "exhaustedSvc")
  /\ Goto(r, "off")
  /\ \E ok \in {TRUE, ~(DbErrors \/ Timeouts)} : UpdateService(SvcOf(r), "failed", ok)
  /\ GiveBack(TaskOf(r))
  /\ UNCHANGED <<depStatus, imageRefs, buildStatus, svcImage, starts, req,
                 restarts, pushed, host>>

-----------------------------------------------------------------------------
(* Build worker: buildHandler. Each step is one statement or command and   *)
(* the builds.status marker written right after it (its error is ignored). *)

BuildStep(r, from, to) == TaskOf(r) \in BuildTasks /\ At(r, from) /\ Goto(r, to)

\* MUTANT of BuildCommand: the error is returned without fail().
BuildCommandWithoutFail(r, from, to, marker) ==
  \E done \in CmdOutcome(r) :
    /\ BuildStep(r, from, IF done THEN to ELSE "err")
    /\ \E ok \in DbOutcome(r) : UpdateBuild(DepOf(r), marker, done /\ ok)
    /\ UNCHANGED <<depStatus, imageRefs, svcStatus, svcImage, queue, req,
                   restarts, pushed, host>>

\* A command of the build leg: on success the next marker, else fail().
BuildCommand(r, from, to, marker) ==
  \E done \in CmdOutcome(r) :
    /\ BuildStep(r, from, IF done THEN to ELSE "failBuild")
    /\ \E ok \in DbOutcome(r) : UpdateBuild(DepOf(r), marker, done /\ ok)
    /\ UNCHANGED <<depStatus, imageRefs, svcStatus, svcImage, queue, req,
                   restarts, pushed, host>>

\* LoadBuildJobContext: an error is returned as it is, without fail().
BuildLoad(r) ==
  \E done \in DbOutcome(r) :
    /\ BuildStep(r, "load", IF done THEN "clone" ELSE "err")
    /\ \E ok \in DbOutcome(r) : UpdateBuild(DepOf(r), "cloning", done /\ ok)
    /\ UNCHANGED <<depStatus, imageRefs, svcStatus, svcImage, queue, req,
                   restarts, pushed, host>>

BuildClone(r) == BuildCommand(r, "clone", "detect", "detecting")
BuildDetect(r) == BuildCommand(r, "detect", "image", "building")
BuildImage(r) == BuildCommand(r, "image", "markPushing", "pushing")

BuildMarkPushing(r) ==
  /\ BuildStep(r, "markPushing", "push")
  /\ \E ok \in DbOutcome(r) : UpdateDeployment(DepOf(r), "pushing", ok)
  /\ UNCHANGED <<imageRefs, buildStatus, svcStatus, svcImage, queue, req,
                 restarts, pushed, host>>

\* MUTANT of BuildPush: the error of docker push is ignored.
BuildPushUnchecked(r) ==
  \E done \in CmdOutcome(r) :
    /\ BuildStep(r, "push", "success")
    /\ pushed' = IF done THEN pushed \cup {DepOf(r)} ELSE pushed
    /\ UNCHANGED <<rows, queue, req, restarts, host>>

BuildPush(r) ==
  \E done \in CmdOutcome(r) :
    /\ BuildStep(r, "push", IF done THEN "success" ELSE "failBuild")
    /\ pushed' = IF done THEN pushed \cup {DepOf(r)} ELSE pushed
    /\ UNCHANGED <<rows, queue, req, restarts, host>>

\* MUTANT of BuildSuccess: the build's row is not updated.
BuildSuccessForgotten(r) ==
  /\ BuildStep(r, "success", "markDeploying")
  /\ UNCHANGED <<rows, queue, req, restarts, pushed, host>>

\* The one marker whose error is returned, again without fail().
BuildSuccess(r) ==
  \E ok \in DbOutcome(r) :
    /\ BuildStep(r, "success", IF ok THEN "markDeploying" ELSE "err")
    /\ UpdateBuild(DepOf(r), "success", ok)
    /\ UNCHANGED <<depStatus, imageRefs, svcStatus, svcImage, queue, req,
                   restarts, pushed, host>>

BuildMarkDeploying(r) ==
  /\ BuildStep(r, "markDeploying", "enqueue")
  /\ \E ok \in DbOutcome(r) :
       /\ UpdateDeployment(DepOf(r), "deploying", ok)
       /\ imageRefs' = IF ok THEN imageRefs \cup {DepOf(r)} ELSE imageRefs
  /\ UNCHANGED <<buildStatus, svcStatus, svcImage, queue, req, restarts,
                 pushed, host>>

\* Enqueue does not look at the context: an expired run still enqueues.
BuildEnqueueDeploy(r) ==
  \E ok \in {TRUE, ~EnqueueErrors} :
    /\ BuildStep(r, "enqueue", IF ok THEN "ack" ELSE "err")
    /\ taskState' = [taskState EXCEPT
         ![DeployTask(DepOf(r), r[2])] = IF ok THEN "pending" ELSE @]
    /\ UNCHANGED <<rows, retried, starts, req, restarts, pushed, host>>

\* MUTANT of BuildFail: the runtime agent's fail(), which removes the route.
BuildFailAndUnroute(r) ==
  /\ BuildStep(r, "failBuild", "failDep")
  /\ \E ok \in DbOutcome(r) : UpdateBuild(DepOf(r), "failed", ok)
  /\ route' = [route EXCEPT ![SvcOf(r)] = FALSE]
  /\ UNCHANGED <<depStatus, imageRefs, svcStatus, svcImage, queue, req,
                 restarts, pushed, container, started>>

BuildFail(r) ==
  /\ BuildStep(r, "failBuild", "failDep")
  /\ \E ok \in DbOutcome(r) : UpdateBuild(DepOf(r), "failed", ok)
  /\ UNCHANGED <<depStatus, imageRefs, svcStatus, svcImage, queue, req,
                 restarts, pushed, host>>

BuildNext(r) ==
  \/ BuildLoad(r) \/ BuildClone(r) \/ BuildDetect(r) \/ BuildImage(r)
  \/ BuildMarkPushing(r) \/ BuildPush(r) \/ BuildSuccess(r)
  \/ BuildMarkDeploying(r) \/ BuildEnqueueDeploy(r) \/ BuildFail(r)

-----------------------------------------------------------------------------
(* Both workers end fail() with the two row updates, errors ignored.       *)

\* MUTANT of FailDeployment: the deployment's row is not updated.
FailDeploymentForgotten(r) ==
  /\ At(r, "failDep")
  /\ Goto(r, "failSvc")
  /\ UNCHANGED <<rows, queue, req, restarts, pushed, host>>

FailDeployment(r) ==
  /\ At(r, "failDep")
  /\ Goto(r, "failSvc")
  /\ \E ok \in DbOutcome(r) : UpdateDeployment(DepOf(r), "failed", ok)
  /\ UNCHANGED <<imageRefs, buildStatus, svcStatus, svcImage, queue, req,
                 restarts, pushed, host>>

FailService(r) ==
  /\ At(r, "failSvc")
  /\ Goto(r, "err")
  /\ \E ok \in DbOutcome(r) : UpdateService(SvcOf(r), "failed", ok)
  /\ UNCHANGED <<depStatus, imageRefs, buildStatus, svcImage, queue, req,
                 restarts, pushed, host>>

EndNext(r) ==
  \/ FailDeployment(r) \/ FailService(r) \/ Ack(r) \/ ReturnError(r)
  \/ ExhaustedFailDeployment(r) \/ ExhaustedFailService(r)

-----------------------------------------------------------------------------
(* Runtime agent: deployHandler. Containers and route files carry names    *)
(* derived from the service, not from the deployment: every deployment of  *)
(* a service works on the same container name and the same route file.     *)

DeployStep(r, from, to) == TaskOf(r) \in DeployTasks /\ At(r, from) /\ Goto(r, to)

SetContainer(s, image, up) ==
  /\ container' = [container EXCEPT ![s] = image]
  /\ started' = [started EXCEPT ![s] = up]

\* docker pull finds only what was pushed.
DeployPull(r) ==
  \E done \in CmdOutcome(r) :
    /\ done => DepOf(r) \in pushed
    /\ DeployStep(r, "pull", IF done THEN "slot" ELSE "failRoute")
    /\ UNCHANGED <<rows, queue, req, restarts, pushed, host>>

\* ensureContainerSlotFree: before docker run, and after a name conflict.
\* Giving up, it may or may not have removed the container.
DeployFreeSlot(r) ==
  \E from \in {"slot", "reslot"}, done, removed \in CmdOutcome(r) :
    /\ done => removed
    /\ DeployStep(r, from, IF ~done THEN "failRoute"
                           ELSE IF from = "slot" THEN "run" ELSE "rerun")
    /\ IF removed THEN SetContainer(SvcOf(r), NoImage, FALSE)
                  ELSE UNCHANGED <<container, started>>
    /\ UNCHANGED <<rows, queue, req, restarts, pushed, route>>

\* MUTANT of DeployRun: running is recorded before the route is verified.
DeployRunRecordsRunning(r) ==
  \E from \in {"run", "rerun"}, done \in CmdOutcome(r) :
    /\ container[SvcOf(r)] = NoImage
    /\ DeployStep(r, from, IF done THEN "write1" ELSE "failRoute")
    /\ UpdateDeployment(DepOf(r), "running", done)
    /\ IF done THEN SetContainer(SvcOf(r), DepOf(r), TRUE)
               ELSE UNCHANGED <<container, started>>
    /\ UNCHANGED <<imageRefs, buildStatus, svcStatus, svcImage, queue, req,
                   restarts, pushed, route>>

\* docker run under a free name. On an error the container may not exist, be
\* created but not started, or run all the same (the client was cut off).
DeployRun(r) ==
  \E from \in {"run", "rerun"}, done, up, created \in CmdOutcome(r) :
    /\ container[SvcOf(r)] = NoImage
    /\ (done => up) /\ (up => created)
    /\ DeployStep(r, from, IF done THEN "write1" ELSE "failRoute")
    /\ IF created THEN SetContainer(SvcOf(r), DepOf(r), up)
                  ELSE UNCHANGED <<container, started>>
    /\ UNCHANGED <<rows, queue, req, restarts, pushed, route>>

\* docker run under a taken name: one cleanup and one more try.
DeployRunConflict(r) ==
  \E from \in {"run", "rerun"} :
    /\ container[SvcOf(r)] # NoImage
    /\ DeployStep(r, from,
         IF from = "run" /\ Live(r) THEN "reslot" ELSE "failRoute")
    /\ UNCHANGED <<rows, queue, req, restarts, pushed, host>>

(* SyncDeployRoute, tried twice. WaitContainerReady, before it, changes    *)
(* nothing and its error is only logged.                                   *)
Write == <<"write1", "write2">>
Stale == <<"stale1", "stale2">>
Verify == <<"verify1", "verify2">>
AfterSync == <<"write2", "rmOwn">>

\* WriteUserRoute: a file operation, whatever the context.
DeployWriteRoute(r) ==
  \E i \in 1 .. 2, done \in BOOLEAN :
    /\ DeployStep(r, Write[i], IF done THEN Stale[i] ELSE AfterSync[i])
    /\ route' = [route EXCEPT ![SvcOf(r)] = done \/ @]
    /\ UNCHANGED <<rows, queue, req, restarts, pushed, container, started>>

\* RemoveStaleUserRoutes: every nebula-*.yml but this service's.
DeployRemoveStale(r) ==
  \E i \in 1 .. 2 :
    /\ DeployStep(r, Stale[i], Verify[i])
    /\ route' = [s \in Services |-> s = SvcOf(r) /\ route[s]]
    /\ UNCHANGED <<rows, queue, req, restarts, pushed, container, started>>

\* VerifyRoute probes the host name: some started container must answer.
DeployVerify(r) ==
  \E i \in 1 .. 2, done \in CmdOutcome(r) :
    /\ done => started[SvcOf(r)]
    /\ DeployStep(r, Verify[i], IF done THEN "markRunning" ELSE AfterSync[i])
    /\ route' = [route EXCEPT ![SvcOf(r)] = done /\ @]
    /\ UNCHANGED <<rows, queue, req, restarts, pushed, container, started>>

\* docker rm -f by the service's container name, whoever started it.
DeployRemoveOwn(r) ==
  \E removed \in CmdOutcome(r) :
    /\ DeployStep(r, "rmOwn", "failRoute")
    /\ IF removed THEN SetContainer(SvcOf(r), NoImage, FALSE)
                  ELSE UNCHANGED <<container, started>>
    /\ UNCHANGED <<rows, queue, req, restarts, pushed, route>>

\* MUTANT of DeployMarkRunning: only the service's row is updated, later.
DeployMarkRunningForgotten(r) ==
  /\ DeployStep(r, "markRunning", "svcRunning")
  /\ UNCHANGED <<rows, queue, req, restarts, pushed, host>>

\* removeOrphanServiceContainers, before it, finds no other container of the
\* service: all of them are created under the stable name.
DeployMarkRunning(r) ==
  /\ DeployStep(r, "markRunning", "svcRunning")
  /\ \E ok \in DbOutcome(r) :
       /\ UpdateDeployment(DepOf(r), "running", ok)
       /\ imageRefs' = IF ok THEN imageRefs \cup {DepOf(r)} ELSE imageRefs
  /\ UNCHANGED <<buildStatus, svcStatus, svcImage, queue, req, restarts,
                 pushed, host>>

DeployServiceRunning(r) ==
  /\ DeployStep(r, "svcRunning", "ack")
  /\ \E ok \in DbOutcome(r) :
       /\ UpdateService(SvcOf(r), "running", ok)
       /\ svcImage' = [svcImage EXCEPT ![SvcOf(r)] = IF ok THEN DepOf(r) ELSE @]
  /\ UNCHANGED <<depStatus, imageRefs, buildStatus, queue, req, restarts,
                 pushed, host>>

\* fail() first removes the route file, with no context.
DeployFail(r) ==
  /\ DeployStep(r, "failRoute", "failDep")
  /\ route' = [route EXCEPT ![SvcOf(r)] = FALSE]
  /\ UNCHANGED <<rows, queue, req, restarts, pushed, container, started>>

DeployNext(r) ==
  \/ DeployPull(r) \/ DeployFreeSlot(r) \/ DeployRun(r) \/ DeployRunConflict(r)
  \/ DeployWriteRoute(r) \/ DeployRemoveStale(r) \/ DeployVerify(r)
  \/ DeployRemoveOwn(r) \/ DeployMarkRunning(r) \/ DeployServiceRunning(r)
  \/ DeployFail(r)

-----------------------------------------------------------------------------
RunNext(r) == pc[r] # "off" /\ (BuildNext(r) \/ DeployNext(r) \/ EndNext(r))

Next ==
  \/ \E d \in Deployments : ReqNext(d)
  \/ \E t \in Tasks : QueueNext(t)
  \/ \E kind \in {"build", "deploy"} : Restart(kind) \/ Crash(kind)
  \/ \E r \in Runs : RunNext(r)

\* A started request goes on to its end; asynq delivers what is queued and
\* recovers what is lost; a run that is not stopped goes on. Clients need not
\* deploy, and nothing forces a restart, a crash or a timeout.
Fairness ==
  /\ \A d \in Deployments : WF_vars(req[d] # "none" /\ ReqNext(d))
  /\ \A t \in Tasks : WF_vars(Start(t)) /\ WF_vars(Recover(t))
  /\ \A r \in Runs : WF_vars(RunNext(r))

Spec == Init /\ [][Next]_vars
FairSpec == Spec /\ Fairness

-----------------------------------------------------------------------------
BuildPCs ==
  {"load", "clone", "detect", "image", "markPushing", "push", "success",
   "markDeploying", "enqueue", "failBuild"}
DeployPCs ==
  {"pull", "slot", "run", "reslot", "rerun", "write1", "stale1", "verify1",
   "write2", "stale2", "verify2", "rmOwn", "markRunning", "svcRunning",
   "failRoute", "exhaustedDep", "exhaustedSvc"}
CommonPCs == {"off", "failDep", "failSvc", "err", "ack"}

\* Every variable keeps its type; in particular the two handlers' program
\* counters never mix, and both workers write only statuses the CHECK
\* constraints of the schema allow.
TypeOK ==
  /\ depStatus \in [Deployments ->
       {"none", "queued", "building", "pushing", "deploying", "running", "failed"}]
  /\ imageRefs \subseteq Deployments
  /\ buildStatus \in [Deployments ->
       {"none", "queued", "cloning", "detecting", "building", "pushing",
        "success", "failed"}]
  /\ svcStatus \in [Services -> {"idle", "building", "running", "failed"}]
  /\ svcImage \in [Services -> Deployments \cup {NoImage}]
  /\ taskState \in [Tasks -> InFlight \cup {"absent", "done", "archived"}]
  /\ retried \in [Tasks -> 0 .. MaxRetry]
  /\ starts \in [Tasks -> 0 .. MaxDeliveries]
  /\ req \in [Deployments -> ReqActive \cup {"none", "done", "aborted"}]
  /\ pc \in [Runs -> BuildPCs \cup DeployPCs \cup CommonPCs]
  /\ \A r \in Runs : IF TaskOf(r) \in BuildTasks THEN pc[r] \notin DeployPCs
                                                 ELSE pc[r] \notin BuildPCs
  /\ restarts \in 0 .. MaxRestarts
  /\ pushed \subseteq Deployments
  /\ container \in [Services -> Deployments \cup {NoImage}]
  /\ started \in [Services -> BOOLEAN]
  /\ route \in [Services -> BOOLEAN]

-----------------------------------------------------------------------------
(* Deliveries that no error accounts for: those after a restart gave the   *)
(* job back as it was.                                                     *)

\* How often t has been delivered when only its errors have given it back.
Due(t) == retried[t] + IF taskState[t] \in {"absent", "pending", "retry"} THEN 0 ELSE 1

GivenBack(t) == starts[t] - Due(t)

TasksOf(d) == {BuildTask(d)} \cup {DeployTask(d, n) : n \in Deliveries}

Redelivered(d) == \E t \in TasksOf(d) : GivenBack(t) > 0

-----------------------------------------------------------------------------
(* Safety.                                                                 *)

\* A deployment whose row is still in progress has somebody working on it: a
\* request that has not returned, or a task that is queued, running or waiting
\* for a retry. Otherwise it would be shown as in progress for ever. It takes
\* every error path of enqueueBuild, buildHandler and deployHandler to keep
\* it; it is promised when the workers' infrastructure does not fail.
NoStranded ==
  \A d \in Deployments :
    depStatus[d] \notin Terminal \cup {"none"} => ~NoWork(d)

\* An image is in the registry before anything refers to it as deployable: a
\* deploy.run task, an image_ref (which rollbacks re-use, DEPLOY-FLOW.md), a
\* container or a service's current_image. Two workers and a queue lie between
\* the push and the last of these, and deliveries may repeat, overlap and die.
PushedBeforeUse ==
  \A d \in Deployments :
    (\/ \E n \in Deliveries : taskState[DeployTask(d, n)] # "absent"
     \/ d \in imageRefs
     \/ \E s \in Services : d \in {container[s], svcImage[s]})
    => d \in pushed

\* No restart has given back a job of the service.
Steady(s) == \A d \in Deployments : ServiceOf[d] = s => ~Redelivered(d)

\* A service reported running runs what it reports: the container under its
\* name was started from current_image and its route file exists. Enqueueing
\* sets the service to building before any of its containers is touched; a job
\* that a restart gives back starts over without that.
ServiceTruthful ==
  \A s \in Services : svcStatus[s] = "running" /\ Steady(s) =>
    /\ svcImage[s] # NoImage
    /\ container[s] = svcImage[s]
    /\ started[s] /\ route[s]

\* As long as no other deployment of the service reaches the runtime agent, and
\* no restart gives back a job of its own, the version that was put into service
\* keeps running and stays routed, however builds of the service fail meanwhile
\* (DEPLOY-FLOW.md:101-103).
BuildFailureKeepsPrevious ==
  \A s \in Services :
    (/\ svcImage[s] # NoImage
     /\ ~Redelivered(svcImage[s])
     /\ \A d \in Deployments \ {svcImage[s]}, n \in Deliveries :
          ServiceOf[d] = s => taskState[DeployTask(d, n)] = "absent")
    => container[s] = svcImage[s] /\ started[s] /\ route[s]

\* Once a deployment is running, no later step of its own build or deploy
\* takes it back: success is final unless a restart has given one of them back.
RunningIsFinal ==
  [][\A d \in Deployments :
       depStatus[d] = "running" /\ ~Redelivered(d) => depStatus'[d] = "running"]_vars

\* A build's row and its deployment's row agree until a restart has given one of
\* the jobs back: a deployment that is running was built with success, one whose
\* build failed for good is failed.
RowsAgree ==
  \A d \in Deployments : ~Redelivered(d) =>
    /\ depStatus[d] = "running" => buildStatus[d] = "success"
    /\ buildStatus[d] = "failed" /\ NoWork(d) => depStatus[d] = "failed"

\* Its inductive strengthening: a build run past its push, and every deploy
\* run, works for an image in the registry.
RunsPushed ==
  \A r \in Runs :
    (IF TaskOf(r) \in BuildTasks
     THEN pc[r] \in {"success", "markDeploying", "enqueue", "ack"}
     ELSE pc[r] # "off") => DepOf(r) \in pushed

PushedInv == PushedBeforeUse /\ RunsPushed

-----------------------------------------------------------------------------
(* The abstract view of a deployment's row.                                *)

\* A job that has ended is delivered again only after a restart, a crash or a
\* timeout.
Redelivery == MaxRestarts > 0 \/ Timeouts \/ Crashes

Lifecycle ==
  INSTANCE DeploymentLifecycle WITH
    status <- depStatus, images <- imageRefs, registry <- pushed

\* The pipeline implements it: whatever requests, deliveries, retries, stops and
\* failures interleave, no row goes back to the request's statuses, no image_ref
\* names an image the registry lacks, and nothing overwrites a success unless a
\* job that had ended is delivered again.
ImplementsLifecycle == Lifecycle!Spec

\* What a step of the workers finds, whatever fails: the row of a deployment that
\* has a task or a run has left the request's statuses.
Accepted(d) == depStatus[d] \notin {"none", "queued"}

AcceptedInv ==
  /\ \A d \in Deployments :
       /\ req[d] = "none" => depStatus[d] = "none"
       /\ req[d] \in {"inserted", "built"} => depStatus[d] = "queued"
       /\ req[d] \in {"marked", "svcMarked"} => Accepted(d)
       /\ taskState[BuildTask(d)] # "absent" => Accepted(d)
       /\ \A n \in Deliveries : taskState[DeployTask(d, n)] # "absent" => Accepted(d)
  /\ \A r \in Runs : pc[r] # "off" => Accepted(DepOf(r))

-----------------------------------------------------------------------------
(* Why nothing is stranded: the inductive strengthening of NoStranded.     *)

\* When nothing can fail but the build and deploy commands themselves.
Reliable == ~(ApiAborts \/ DbErrors \/ EnqueueErrors \/ Timeouts \/ Crashes)

\* Places of a run after its last write of deployments.status.
AfterLastWrite ==
  {"svcRunning", "failSvc", "err", "ack", "exhaustedDep", "exhaustedSvc"}

\* A task that still has a write of deployments.status ahead.
Working(t) ==
  /\ taskState[t] \in InFlight
  /\ taskState[t] = "active" => pc[<<t, starts[t]>>] \notin AfterLastWrite

OnlyLiveRuns == \A r \in Runs : pc[r] # "off" => Live(r)

ActiveHasRun ==
  \A t \in Tasks : taskState[t] = "active" =>
    starts[t] \in Deliveries /\ pc[<<t, starts[t]>>] # "off"

Covered ==
  \A d \in Deployments :
    \/ depStatus[d] \in Terminal \cup {"none"}
    \/ req[d] \in ReqActive
    \/ Working(BuildTask(d))
    \/ \E n \in Deliveries : Working(DeployTask(d, n))

\* A task that is about to be enqueued is not queued already.
FreshTasks ==
  \A d \in Deployments :
    /\ req[d] \in ReqActive \cup {"none"} => taskState[BuildTask(d)] = "absent"
    /\ \A n \in Deliveries :
         starts[BuildTask(d)] < n \/ pc[<<BuildTask(d), n>>] \in BuildPCs
           => taskState[DeployTask(d, n)] = "absent"

\* The queue's part: tasks and runs match one to one, what is enqueued is new.
RunsInv == OnlyLiveRuns /\ ActiveHasRun /\ FreshTasks

StrandInv == TypeOK /\ RunsInv /\ Covered

-----------------------------------------------------------------------------
(* How build.run hands over to deploy.run: the inductive strengthening of  *)
(* RunningIsFinal, which RowsAgree, BuildFailureKeepsPrevious and          *)
(* ServiceTruthful rest on, too.                                           *)

\* Nobody works for a task that is not enqueued and delivered.
DeliveredRuns ==
  \A r \in Runs : pc[r] # "off" =>
    taskState[TaskOf(r)] # "absent" /\ r[2] <= starts[TaskOf(r)]

\* What is enqueued is new, and given back, errors apart, no more often than workers
\* were restarted or died, whatever fails: that bounds the deliveries of a task.
DeliveryInv ==
  /\ FreshTasks
  /\ DeliveredRuns
  /\ \A t \in Tasks : GivenBack(t) <= restarts

\* A task whose run is at one of the places, the last a task is at.
TaskAt(t, places) == taskState[t] = "active" /\ pc[<<t, starts[t]>>] \in places

\* There is at most one deploy.run task, and only when build.run has enqueued it.
OneHandOver(d) ==
  \A n \in Deliveries : taskState[DeployTask(d, n)] # "absent" =>
    /\ taskState[BuildTask(d)] = "done" \/ TaskAt(BuildTask(d), {"ack"})
    /\ \A m \in Deliveries \ {n} : taskState[DeployTask(d, m)] = "absent"

\* A build is recorded as a success before it is handed over, and not touched
\* afterwards.
BuiltBeforeHandOver(d) ==
  /\ \A r \in Runs : DepOf(r) = d /\ pc[r] \in {"markDeploying", "enqueue"} =>
       buildStatus[d] = "success"
  /\ \A n \in Deliveries : taskState[DeployTask(d, n)] # "absent" => buildStatus[d] = "success"

\* A deployment is running only when its deploy.run is past its last write of it.
RunningIsServed(d) ==
  depStatus[d] = "running" =>
    \E n \in Deliveries : LET t == DeployTask(d, n) IN
      taskState[t] = "done" \/ TaskAt(t, {"svcRunning", "ack"})

HandedOver(d) == OneHandOver(d) /\ BuiltBeforeHandOver(d) /\ RunningIsServed(d)

\* build.run hands over to one deploy.run, when what it built is recorded, and only
\* that deploy.run, at its end, sets the deployment to running (build-worker and
\* runtime-agent main.go), unless a restart has given one of the two jobs back.
HandOverInv ==
  /\ RunsInv
  /\ \A t \in Tasks : GivenBack(t) >= 0
  /\ \A d \in Deployments : Redelivered(d) \/ HandedOver(d)

\* The same of all deployments, when no job is ever given back.
AllHandedOver == RunsInv /\ \A d \in Deployments : HandedOver(d)

\* A build that is recorded as failed takes the deployment's row along in its next
\* statement, until the build is delivered again and starts over.
FailedBuildFails(d) ==
  /\ buildStatus[d] = "failed" => depStatus[d] = "failed" \/ TaskAt(BuildTask(d), {"failDep"})
  /\ taskState[BuildTask(d)] = "absent" => buildStatus[d] \in {"none", "queued"}
  /\ TaskAt(BuildTask(d), BuildPCs \ {"load"}) => buildStatus[d] # "failed"

-----------------------------------------------------------------------------
(* What a deploy.run that nobody of its service interferes with has made   *)
(* of the host.                                                            *)

\* Containers are a service's own. Routes are not: a deploy of one service removes
\* those of all others (RemoveStaleUserRoutes).
OneService == \A s, u \in Services : s = u

\* The container runs from docker run on, the route exists from its writing on.
Placed ==
  {"write1", "stale1", "verify1", "write2", "stale2", "verify2", "markRunning", "svcRunning"}
Routed == Placed \ {"write1", "write2"}

HostReady(r) ==
  /\ pc[r] \in Placed => container[SvcOf(r)] = DepOf(r) /\ started[SvcOf(r)]
  /\ OneService /\ pc[r] \in Routed => route[SvcOf(r)]

\* current_image is on the host.
Served(s) ==
  container[s] = svcImage[s] /\ started[s] /\ (OneService => route[s])

\* No other deployment of the service has reached the runtime agent.
Alone(d) ==
  \A e \in Deployments \ {d}, n \in Deliveries :
    ServiceOf[e] = ServiceOf[d] => taskState[DeployTask(e, n)] = "absent"

\* Nor has a restart given back a job of its own.
Undisturbed(d) == Alone(d) /\ ~Redelivered(d)

\* A version in service is one its deploy.run is done with.
InService(s) ==
  svcImage[s] # NoImage =>
    /\ ServiceOf[svcImage[s]] = s
    /\ ~Redelivered(svcImage[s]) => \E n \in Deliveries : LET t == DeployTask(svcImage[s], n) IN
         taskState[t] = "done" \/ TaskAt(t, {"ack"})

\* The deploy.run that has its service to itself has made of the host what its place
\* says, and current_image is a version whose deploy.run is done with it: that is why
\* a failed build leaves the container alone, and, where no other service is
\* deployed, the route, until a restart gives back a job of that version.
KeepInv ==
  /\ \A r \in Runs : Undisturbed(DepOf(r)) => HostReady(r)
  /\ \A s \in Services :
       InService(s) /\ (svcImage[s] # NoImage /\ Undisturbed(svcImage[s]) => Served(s))

\* With requests that wait until nothing works for their service, at most one
\* deployment of it is worked on.
OneAtATime ==
  \A d, e \in Deployments : d # e /\ ServiceOf[d] = ServiceOf[e] => NoWork(d) \/ NoWork(e)

\* From the request's update of the service on, it is not shown as running until that
\* work is past its last write.
ShownWhenServed(s) ==
  \A d \in Deployments : svcStatus[s] = "running" /\ ServiceOf[d] = s =>
    /\ req[d] # "svcMarked"
    /\ \A t \in TasksOf(d) : TaskIdle(t) \/ TaskAt(t, {"ack"})

ShownIsServed(s) == svcStatus[s] = "running" => svcImage[s] # NoImage /\ Served(s)

RunsReady(s) == \A r \in Runs : SvcOf(r) = s => HostReady(r)

\* One deployment of a service is worked on at a time, and, until a restart gives back
\* a job of the service, it is not shown as running before the last write of that
\* work, and by then the host runs it.
QuietInv ==
  /\ OneAtATime
  /\ \A s \in Services : Steady(s) => ShownWhenServed(s) /\ ShownIsServed(s) /\ RunsReady(s)

-----------------------------------------------------------------------------
(* Liveness.                                                               *)

\* A request that was answered 202 is eventually decided, and stays decided.
EventuallyDecided ==
  \A d \in Deployments :
    req[d] = "done" ~> [](NoWork(d) /\ depStatus[d] \in Terminal)

\* Whatever fails, the queue drains: no task is delivered for ever.
QueueDrains == <>[](\A t \in Tasks : TaskIdle(t))

-----------------------------------------------------------------------------
(* What the documentation and comments say, where the code does otherwise. *)

\* Given up by asynq, and no goroutine is left that could still write.
Abandoned(t) ==
  taskState[t] = "archived" /\ \A n \in Deliveries : pc[<<t, n>>] = "off"

\* runtime-agent/main.go:320, "deployExhaustedHandler marks deployments failed
\* when asynq gives up retrying deploy.run".
GivenUpDeployIsFailed ==
  \A d \in Deployments, n \in Deliveries :
    Abandoned(DeployTask(d, n)) => depStatus[d] = "failed"

\* routing/traefik_file.go:65, RemoveStaleUserRoutes removes "orphan routes":
\* the route of a service that runs, with nothing working for it, is no orphan.
OnlyOrphanRoutesRemoved ==
  \A s \in Services :
    (/\ svcStatus[s] = "running"
     /\ \A d \in Deployments : ServiceOf[d] = s => NoWork(d))
    => route[s]

=============================================================================
