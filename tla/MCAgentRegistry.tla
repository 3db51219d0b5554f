--------------------------- MODULE MCAgentRegistry ---------------------------
(* Instances of AgentRegistry for TLC.                                        *)
EXTENDS AgentRegistry, TLC

CONSTANTS k1, k2, c1, c2, f1

X(k, c, f) == [fp |-> k, canonical |-> c, friendly |-> f]

\* Two machines after one friendly name. The second also carries a certificate
\* for the canonical name of the first.
Rivals == {X(k1, c1, f1), X(k2, c2, f1), X(k2, c1, None)}

\* One machine, one certificate.
Single == {X(k1, c1, f1)}
=============================================================================
