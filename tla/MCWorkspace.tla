---------------------------- MODULE MCWorkspace ----------------------------
(* Instances of Workspace for TLC: an account with an organization and one     *)
(* without.                                                                    *)
EXTENDS Workspace, TLC

CONSTANTS u1, u2, o1, o2

OneMember == (u1 :> {o1}) @@ (u2 :> {})
=============================================================================
