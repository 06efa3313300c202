------------------------------ MODULE MCSessions ------------------------------
(* Instances of Sessions for TLC. *)
EXTENDS Sessions, TLC

SessionsSymmetry ==
  Permutations(Calls) \cup Permutations(Users)
=============================================================================
