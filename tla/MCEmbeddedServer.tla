-------------------------- MODULE MCEmbeddedServer --------------------------
(* An instance of EmbeddedServer for TLC.                                     *)
EXTENDS EmbeddedServer, TLC
=============================================================================
