------------------------------ MODULE MCAgent ------------------------------
(* An instance of Agent for TLC.                                              *)
EXTENDS Agent, TLC
=============================================================================
