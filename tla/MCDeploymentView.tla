-------------------------- MODULE MCDeploymentView --------------------------
(* Instances of DeploymentView for TLC: one deployment is under way, one may be  *)
(* requested.                                                                  *)
EXTENDS DeploymentView, TLC

CONSTANTS d1, d2

OneUnderWay == {d1 :> "none" @@ d2 :> "building"}
=============================================================================
