---------------------------- MODULE MCEnvironment ----------------------------
(***************************************************************************)
(* Instances of Environment for TLC.                                       *)
(***************************************************************************)
EXTENDS Environment, TLC

CONSTANTS t1, t2, v1, v2

MCSymmetry == Permutations({t1, t2}) \cup Permutations({v1, v2})
=============================================================================
