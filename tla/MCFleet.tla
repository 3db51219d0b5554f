------------------------------ MODULE MCFleet ------------------------------
(* An instance of Fleet for TLC.                                              *)
EXTENDS Fleet, TLC

CONSTANTS m1, linux

OnLinux == [m \in Machines |-> linux]
=============================================================================
