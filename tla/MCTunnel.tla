------------------------------ MODULE MCTunnel ------------------------------
(* An instance of Tunnel for TLC.                                             *)
EXTENDS Tunnel, TLC
=============================================================================
