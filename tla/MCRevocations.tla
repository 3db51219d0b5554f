---------------------------- MODULE MCRevocations ----------------------------
(* An instance of Revocations for TLC.                                        *)
EXTENDS Revocations, TLC
=============================================================================
