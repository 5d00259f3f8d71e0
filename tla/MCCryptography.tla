---------------------------- MODULE MCCryptography ----------------------------
(***************************************************************************)
(* Cryptography with threads that are alike, where the first and the third *)
(* identifier are merged to the same seed.                                 *)
(***************************************************************************)
EXTENDS Cryptography, TLC

MCFolded == <<1, 2, 1>>

ThreadSymmetry == Permutations(Threads)
=============================================================================
