------------------------------ MODULE MCEnroll ------------------------------
(* An instance of Enroll for TLC.                                             *)
EXTENDS Enroll, TLC
Symmetry == Permutations(Requests) \cup Permutations(Secrets)
=============================================================================
