------------------------------ MODULE MCUpdate ------------------------------
(* An instance of Update for TLC.                                             *)
EXTENDS Update, TLC
=============================================================================
