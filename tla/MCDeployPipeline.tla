-------------------------- MODULE MCDeployPipeline --------------------------
(* Instances of DeployPipeline for TLC. *)
EXTENDS DeployPipeline, TLC

CONSTANTS s1, s2, d1, d2

\* Two deployments of one service; one deployment each of two services.
SameService == d1 :> s1 @@ d2 :> s1
OwnService == d1 :> s1 @@ d2 :> s2
OneDeployment == d1 :> s1

DeploymentSymmetry == Permutations({d1, d2})
=============================================================================
