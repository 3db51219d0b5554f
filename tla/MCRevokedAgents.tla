--------------------------- MODULE MCRevokedAgents ---------------------------
(* An instance of RevokedAgents for TLC.                                      *)
EXTENDS RevokedAgents, TLC

CONSTANTS k1, c1, c2, f1

\* One machine that was enrolled twice: two canonical names, one friendly one.
Twice == {[fp |-> k1, canonical |-> c1, friendly |-> f1],
          [fp |-> k1, canonical |-> c2, friendly |-> f1]}
==============================================================================
