--------------------------- MODULE MCProjectPages ---------------------------
(* Instances of ProjectPages for TLC.                                          *)
EXTENDS ProjectPages, TLC

CONSTANTS p1, s1, s2, r1, r2, v1
=============================================================================
