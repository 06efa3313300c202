------------------------ MODULE DeploymentLifecycle ------------------------
(***************************************************************************)
(* What the deploy pipeline promises about a deployment's row to those who  *)
(* read it: the API and, through it, the dashboard. DeployPipeline           *)
(* implements it; DeploymentView reads it.                                   *)
(***************************************************************************)
CONSTANTS
  Deployments,
  Redelivery   \* asynq may deliver a job that has ended again

VARIABLES
  status,      \* deployments.status ("none": no row)
  images,      \* deployments whose image_ref is set
  registry     \* deployments whose image is in the registry

vars == <<status, images, registry>>

Init ==
  /\ status = [d \in Deployments |-> "none"]
  /\ images = {}
  /\ registry = {}

SetStatus(d, s) == status' = [status EXCEPT ![d] = s]

\* The request inserts the row, and gives it to the build worker.
Submit(d) ==
  /\ status[d] = "none"
  /\ SetStatus(d, "queued")
  /\ UNCHANGED <<images, registry>>

Accept(d) ==
  /\ status[d] = "queued"
  /\ SetStatus(d, "building")
  /\ UNCHANGED <<images, registry>>

\* From then on the workers write it, in whatever order deliveries repeat; success
\* is final as long as asynq does not deliver a job again that has ended.
Worked(d) ==
  /\ status[d] \notin {"none", "queued"}
  /\ status[d] = "running" => Redelivery

MarkPushing(d) ==
  /\ Worked(d)
  /\ SetStatus(d, "pushing")
  /\ UNCHANGED <<images, registry>>

Push(d) ==
  /\ Worked(d)
  /\ registry' = registry \cup {d}
  /\ UNCHANGED <<status, images>>

\* Only what the registry has is deployed, and referred to.
Deploy(d, s) ==
  /\ Worked(d) /\ d \in registry
  /\ SetStatus(d, s)
  /\ images' = images \cup {d}
  /\ UNCHANGED registry

Fail(d) ==
  /\ Worked(d)
  /\ SetStatus(d, "failed")
  /\ UNCHANGED <<images, registry>>

Next ==
  \E d \in Deployments :
    \/ Submit(d) \/ Accept(d) \/ MarkPushing(d) \/ Push(d) \/ Fail(d)
    \/ Deploy(d, "deploying") \/ Deploy(d, "running")

Spec == Init /\ [][Next]_vars
=============================================================================
