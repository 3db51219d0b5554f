--------------------------- MODULE AgentDirectory ---------------------------
(* What the proxy's registry promises, with no connections in sight: a name   *)
(* belongs to at most one machine, only to a machine entitled to it, and it   *)
(* passes from one machine to another only by being given up first.           *)
CONSTANTS Names,       \* every name an agent can be reached under
          Machines,    \* identity keys (registration.fp)
          Entitled,    \* Entitled[k]: the names the certificate of k asks for
          None

VARIABLE holder        \* holder[n]: the machine served under n, or None

Init == holder = [n \in Names |-> None]

\* A machine takes a name that nobody holds.
Take(n, k) ==
  /\ holder[n] = None
  /\ n \in Entitled[k]
  /\ holder' = [holder EXCEPT ![n] = k]

\* The machine served under n is gone.
GiveUp(n) ==
  /\ holder[n] # None
  /\ holder' = [holder EXCEPT ![n] = None]

Next == \E n \in Names : GiveUp(n) \/ \E k \in Machines : Take(n, k)

Spec == Init /\ [][Next]_holder
=============================================================================
