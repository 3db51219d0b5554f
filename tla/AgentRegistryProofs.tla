------------------------ MODULE AgentRegistryProofs ------------------------
(* Proofs about AgentRegistry, for any number of connections, machines,       *)
(* names and certificates. The safety properties hold together or not at all: *)
(* they are proved as one inductive invariant, IInv, whose extra conjunct     *)
(* Phases says what a handler's local state is at each of its steps.          *)
EXTENDS RevokedAgents, TLAPS

Phases ==
  \A c \in Conns :
    /\ pc[c] \in {"idle", "handshake", "canonical"} => names[c] = {} /\ victim[c] = None
    /\ pc[c] = "idle" => ~open[c]
    /\ pc[c] = "removeFriendly" => ~open[c] /\ victim[c] = None
    /\ pc[c] = "friendly" => cert[c].friendly # None
    /\ \A n \in names[c] : n \in {cert[c].canonical, cert[c].friendly}
    /\ pc[c] = "removeFriendly" => names[c] \subseteq {cert[c].friendly}

IInv ==
  /\ TypeOK
  /\ Phases
  /\ NoOrphanEntry
  /\ NoStrandedAgent
  /\ EvictsOwnOnly
  /\ HostKeyDerivesName

-----------------------------------------------------------------------------
(* Facts about the building blocks.                                           *)

LEMMA CertFields ==
  ASSUME NEW x \in Certs
  PROVE  /\ x.fp \in Machines
         /\ x.canonical \in CanonicalNames
         /\ x.canonical \in Names
         /\ x.canonical # None
         /\ x.friendly # None => x.friendly \in FriendlyNames /\ x.friendly \in Names
BY CertAssumption, NoneAssumption DEF Names

LEMMA EntryFields ==
  ASSUME TypeOK, NEW n \in Names, reg[n] # None
  PROVE  /\ reg[n] \in Entry
         /\ reg[n].conn \in Conns
         /\ reg[n].fp \in Machines
         /\ reg[n].hostFP \in CanonicalNames \cup {None}
         /\ reg[n] = [conn |-> reg[n].conn, fp |-> reg[n].fp, hostFP |-> reg[n].hostFP]
BY DEF TypeOK, Entry

\* registry.add keeps the invariant: the new entry is this connection's own, and
\* whoever it replaces is of the same machine and about to be closed.
LEMMA AddKeeps ==
  ASSUME IInv, NEW c \in Conns, NEW n \in Names, NEW s \in {"claim", "wait"},
         pc[c] \in {"canonical", "friendly"}, victim[c] = None,
         n \in {cert[c].canonical, cert[c].friendly},
         ~HeldByOther(n, cert[c].fp), Add(n, c),
         pc' = [pc EXCEPT ![c] = s],
         UNCHANGED <<book, cert, open, peer, reported>>
  PROVE  IInv'
<1> USE DEF IInv
<1>1. cert[c] \in Certs
  BY DEF TypeOK
<1>2. cert[c].fp \in Machines
  BY <1>1, CertFields
<1> DEFINE e == [conn |-> c, fp |-> cert[c].fp, hostFP |-> None]
<1>3. e \in Entry /\ e # None
  BY <1>2, NoneAssumption DEF Entry
<1>4. /\ reg' = [reg EXCEPT ![n] = e]
      /\ reg'[n] = e
      /\ \A m \in Names : m # n => reg'[m] = reg[m]
  BY DEF Add, TypeOK
<1>5. reg[n] # None => reg[n].conn \in Conns /\ reg[n].fp = cert[c].fp
  BY EntryFields DEF HeldByOther
<1>6. /\ names' = [names EXCEPT ![c] = @ \cup {n}]
      /\ names'[c] = names[c] \cup {n}
      /\ \A d \in Conns : d # c => names'[d] = names[d]
  BY DEF Add, TypeOK
<1>7. /\ victim' \in [Conns -> Conns \cup {None}]
      /\ victim'[c] = IF reg[n] # None /\ reg[n].conn # c THEN reg[n].conn ELSE None
      /\ \A d \in Conns : d # c => victim'[d] = victim[d]
  BY <1>5 DEF Add, TypeOK
<1>8. pc'[c] = s /\ \A d \in Conns : d # c => pc'[d] = pc[d]
  BY DEF TypeOK
<1>9. TypeOK'
  <2>1. reg' \in [Names -> Entry \cup {None}]
    BY <1>3, <1>4 DEF TypeOK
  <2>2. names' \in [Conns -> SUBSET Names]
    BY <1>6 DEF TypeOK
  <2> QED
    BY <1>1, <1>7, <2>1, <2>2 DEF TypeOK, Steps
<1>10. Phases'
  BY <1>6, <1>7, <1>8 DEF Phases
<1>11. NoOrphanEntry'
  <2> SUFFICES ASSUME NEW m \in Names, reg'[m] # None
               PROVE  /\ pc'[reg'[m].conn] \notin {"idle", "handshake", "canonical"}
                      /\ m \in names'[reg'[m].conn]
                      /\ reg'[m].fp = cert'[reg'[m].conn].fp
    BY DEF NoOrphanEntry
  <2>1. CASE m = n
    BY <2>1, <1>4, <1>6, <1>8
  <2>2. CASE m # n
    BY <2>2, <1>4, <1>6, <1>8, EntryFields DEF NoOrphanEntry
  <2> QED
    BY <2>1, <2>2
<1>12. NoStrandedAgent'
  <2> SUFFICES ASSUME NEW d \in Conns, open[d], NEW m \in names'[d]
               PROVE  (reg'[m] # None /\ reg'[m].conn = d) \/ \E b \in Conns : victim'[b] = d
    BY DEF NoStrandedAgent, Holds
  <2>1. m \in Names
    BY <1>9 DEF TypeOK
  <2>2. CASE m = n /\ d = c
    BY <2>2, <1>3, <1>4
  <2>3. CASE m = n /\ d # c
    <3>1. m \in names[d]
      BY <2>3, <1>6
    <3>2. CASE Holds(n, d)
      BY <2>3, <3>2, <1>7 DEF Holds
    <3>3. CASE \E b \in Conns : victim[b] = d
      <4>1. PICK b \in Conns : victim[b] = d
        BY <3>3
      <4>2. b # c
        BY <4>1, NoneAssumption
      <4> QED
        BY <4>1, <4>2, <1>7
    <3> QED
      BY <2>3, <3>1, <3>2, <3>3 DEF NoStrandedAgent
  <2>4. CASE m # n
    <3>1. m \in names[d]
      BY <2>4, <1>6
    <3>2. CASE Holds(m, d)
      BY <2>4, <3>2, <2>1, <1>4 DEF Holds
    <3>3. CASE \E b \in Conns : victim[b] = d
      <4>1. PICK b \in Conns : victim[b] = d
        BY <3>3
      <4>2. b # c
        BY <4>1, NoneAssumption
      <4> QED
        BY <4>1, <4>2, <1>7
    <3> QED
      BY <3>1, <3>2, <3>3 DEF NoStrandedAgent
  <2> QED
    BY <2>2, <2>3, <2>4
<1>13. EvictsOwnOnly'
  <2> SUFFICES ASSUME NEW a \in Conns, NEW d \in Conns, victim'[d] = a, open[a]
               PROVE  cert[a].fp = cert[d].fp
    BY DEF EvictsOwnOnly
  <2>1. CASE d = c
    <3>1. reg[n] # None /\ a = reg[n].conn
      BY <2>1, <1>7, NoneAssumption
    <3> QED
      BY <2>1, <3>1, <1>5 DEF NoOrphanEntry
  <2>2. CASE d # c
    BY <2>2, <1>7 DEF EvictsOwnOnly
  <2> QED
    BY <2>1, <2>2
<1>14. HostKeyDerivesName'
  BY <1>3, <1>4 DEF HostKeyDerivesName
<1> QED
  BY <1>9, <1>10, <1>11, <1>12, <1>13, <1>14

\* A handler that returns, having removed what it registered, leaves nothing
\* behind.
LEMMA RetireKeeps ==
  ASSUME IInv, NEW c \in Conns, Retire(c), UNCHANGED <<book, victim>>,
         victim[c] = None,
         reg' \in [Names -> Entry \cup {None}],
         \A n \in Names : \/ reg'[n] = reg[n] /\ ~Holds(n, c)
                          \/ reg'[n] = None /\ Holds(n, c)
  PROVE  IInv'
<1> USE DEF IInv
<1>1. TypeOK'
  BY DEF TypeOK, Retire, Steps
<1>2. /\ pc'[c] = "idle" /\ ~open'[c] /\ names'[c] = {}
      /\ \A d \in Conns : d # c =>
           /\ pc'[d] = pc[d] /\ cert'[d] = cert[d] /\ open'[d] = open[d]
           /\ names'[d] = names[d]
  BY DEF Retire, TypeOK
<1>3. Phases'
  BY <1>2 DEF Phases
<1>4. ASSUME NEW n \in Names, reg'[n] # None
      PROVE  reg'[n] = reg[n] /\ reg[n] # None /\ reg[n].conn \in Conns /\ reg[n].conn # c
  BY <1>4, EntryFields DEF Holds
<1>5. NoOrphanEntry'
  BY <1>2, <1>4 DEF NoOrphanEntry
<1>6. NoStrandedAgent'
  <2> SUFFICES ASSUME NEW d \in Conns, open'[d], NEW n \in names'[d]
               PROVE  (reg'[n] # None /\ reg'[n].conn = d) \/ \E b \in Conns : victim[b] = d
    BY DEF NoStrandedAgent, Holds
  <2>1. d # c /\ open[d] /\ n \in names[d] /\ n \in Names
    BY <1>1, <1>2 DEF TypeOK
  <2> QED
    BY <2>1 DEF NoStrandedAgent, Holds
<1>7. EvictsOwnOnly'
  BY <1>2, NoneAssumption DEF EvictsOwnOnly
<1>8. HostKeyDerivesName'
  BY <1>2, <1>4 DEF HostKeyDerivesName
<1> QED
  BY <1>1, <1>3, <1>5, <1>6, <1>7, <1>8

-----------------------------------------------------------------------------
(* Every step keeps the invariant.                                            *)

LEMMA IInvInit == Init => IInv
BY NoneAssumption DEF Init, IInv, TypeOK, Steps, Phases, NoOrphanEntry, NoStrandedAgent,
       EvictsOwnOnly, HostKeyDerivesName

LEMMA AuthenticateKeeps ==
  ASSUME IInv, NEW c \in Conns, NEW x \in Certs, Authenticate(c, x)
  PROVE  IInv'
<1> USE DEF IInv, Authenticate, Fresh
<1>1. TypeOK'
  BY DEF TypeOK, Steps
<1>2. /\ \A d \in Conns : d # c =>
           pc'[d] = pc[d] /\ cert'[d] = cert[d] /\ open'[d] = open[d]
      /\ pc'[c] = "handshake"
  BY DEF TypeOK
<1>3. Phases'
  BY <1>2 DEF Phases
<1>4. \A n \in Names : reg[n] # None => reg[n].conn \in Conns /\ reg[n].conn # c
  BY EntryFields DEF NoOrphanEntry
<1>5. NoOrphanEntry'
  BY <1>2, <1>4 DEF NoOrphanEntry
<1>6. NoStrandedAgent'
  BY <1>2 DEF NoStrandedAgent, Holds, Phases
<1>7. EvictsOwnOnly'
  BY <1>2, NoneAssumption DEF EvictsOwnOnly, Phases
<1>8. HostKeyDerivesName'
  BY <1>2, <1>4 DEF HostKeyDerivesName
<1> QED
  BY <1>1, <1>3, <1>5, <1>6, <1>7, <1>8

LEMMA CloseReplacedKeeps ==
  ASSUME IInv, NEW c \in Conns, CloseReplaced(c)
  PROVE  IInv'
<1> USE DEF IInv, CloseReplaced
<1>1. PICK v \in Conns : v = victim[c]
  BY DEF TypeOK
<1>2. TypeOK'
  BY <1>1 DEF TypeOK
<1>3. /\ ~open'[v] /\ \A d \in Conns : open'[d] => open[d] /\ d # v
      /\ \A d \in Conns : d # c => victim'[d] = victim[d]
      /\ victim'[c] = None
  BY <1>1 DEF TypeOK
<1>4. Phases'
  BY <1>3 DEF Phases
<1>5. NoOrphanEntry' /\ HostKeyDerivesName'
  BY DEF NoOrphanEntry, HostKeyDerivesName
<1>6. NoStrandedAgent'
  <2> SUFFICES ASSUME NEW d \in Conns, open'[d], NEW n \in names[d], ~Holds(n, d)
               PROVE  \E b \in Conns : victim'[b] = d
    BY DEF NoStrandedAgent, Holds
  <2>1. PICK b \in Conns : victim[b] = d
    BY <1>3 DEF NoStrandedAgent
  <2>2. b # c
    BY <2>1, <1>1, <1>3
  <2> QED
    BY <2>1, <2>2, <1>3
<1>7. EvictsOwnOnly'
  BY <1>3, NoneAssumption DEF EvictsOwnOnly
<1> QED
  BY <1>2, <1>4, <1>5, <1>6, <1>7

LEMMA ClaimKeeps ==
  ASSUME IInv, NEW c \in Conns, Claim(c)
  PROVE  IInv'
<1> USE DEF IInv, Claim, At
<1>1. cert[c] \in Certs /\ cert[c].fp \in Machines
  BY CertFields DEF TypeOK
<1>2. TypeOK'
  BY <1>1 DEF TypeOK, Steps
<1>3. /\ \A d \in Conns : d # c => pc'[d] = pc[d]
      /\ pc'[c] \in {"friendly", "wait"}
      /\ pc'[c] = "friendly" => cert[c].friendly # None
  BY DEF TypeOK
<1>4. Phases'
  BY <1>3 DEF Phases
<1>5. NoOrphanEntry'
  BY <1>3, EntryFields DEF NoOrphanEntry
<1>6. NoStrandedAgent' /\ EvictsOwnOnly' /\ HostKeyDerivesName'
  BY DEF NoStrandedAgent, EvictsOwnOnly, HostKeyDerivesName, Holds
<1> QED
  BY <1>2, <1>4, <1>5, <1>6

LEMMA RefuseFriendlyKeeps ==
  ASSUME IInv, NEW c \in Conns, RefuseFriendly(c)
  PROVE  IInv'
<1> USE DEF IInv, RefuseFriendly, At
<1>1. TypeOK'
  BY DEF TypeOK, Steps
<1>2. pc'[c] = "wait" /\ \A d \in Conns : d # c => pc'[d] = pc[d]
  BY DEF TypeOK
<1>3. Phases'
  BY <1>2 DEF Phases
<1>4. NoOrphanEntry'
  BY <1>2, EntryFields DEF NoOrphanEntry
<1>5. NoStrandedAgent' /\ EvictsOwnOnly' /\ HostKeyDerivesName'
  BY DEF NoStrandedAgent, EvictsOwnOnly, HostKeyDerivesName, Holds
<1> QED
  BY <1>1, <1>3, <1>4, <1>5

LEMMA HandshakeDoneKeeps ==
  ASSUME IInv, NEW c \in Conns, HandshakeDone(c)
  PROVE  IInv'
<1> USE DEF IInv, HandshakeDone
<1>1. TypeOK'
  BY DEF TypeOK, Steps
<1>2. pc'[c] = "canonical" /\ \A d \in Conns : d # c => pc'[d] = pc[d]
  BY DEF TypeOK
<1>3. Phases'
  BY <1>2 DEF Phases
<1>4. NoOrphanEntry'
  BY <1>2, EntryFields DEF NoOrphanEntry
<1>5. NoStrandedAgent' /\ EvictsOwnOnly' /\ HostKeyDerivesName'
  BY DEF NoStrandedAgent, EvictsOwnOnly, HostKeyDerivesName, Holds
<1> QED
  BY <1>1, <1>3, <1>4, <1>5

\* remove frees the name, or leaves it to the connection that replaced this one.
LEMMA RemoveEffect ==
  ASSUME TypeOK, NEW c \in Conns, NEW n \in Names, Remove(n, c)
  PROVE  /\ reg' \in [Names -> Entry \cup {None}]
         /\ \A m \in Names : m # n => reg'[m] = reg[m]
         /\ Holds(n, c) => reg'[n] = None
         /\ ~Holds(n, c) => reg'[n] = reg[n]
BY DEF TypeOK, Remove

LEMMA RemoveCanonicalKeeps ==
  ASSUME IInv, NEW c \in Conns, RemoveCanonical(c)
  PROVE  IInv'
<1> USE DEF IInv, At
<1> DEFINE n == cert[c].canonical
           f == cert[c].friendly
<1>1. cert[c] \in Certs /\ n \in Names
  BY CertFields DEF TypeOK, RemoveCanonical
<1>2. /\ pc[c] = "wait" /\ victim[c] = None /\ ~open[c]
      /\ Remove(n, c) /\ UNCHANGED <<book, victim>>
  BY DEF RemoveCanonical
<1>3. /\ reg' \in [Names -> Entry \cup {None}]
      /\ \A m \in Names : m # n => reg'[m] = reg[m]
      /\ Holds(n, c) => reg'[n] = None
      /\ ~Holds(n, c) => reg'[n] = reg[n]
  BY <1>1, <1>2, RemoveEffect
<1>4. \A m \in Names : Holds(m, c) => m \in names[c] /\ m \in {n, f}
  BY DEF NoOrphanEntry, Holds, Phases
<1>5. CASE f \in names[c]
  <2>1. /\ pc' = [pc EXCEPT ![c] = "removeFriendly"]
        /\ names' = [names EXCEPT ![c] = {f}]
        /\ UNCHANGED <<cert, open, peer, reported>>
    BY <1>5 DEF RemoveCanonical
  <2>2. f \in Names
    BY <1>5 DEF TypeOK
  <2>3. TypeOK'
    BY <1>1, <1>2, <1>3, <2>1, <2>2 DEF TypeOK, Steps
  <2>4. /\ pc'[c] = "removeFriendly" /\ names'[c] = {f}
        /\ \A d \in Conns : d # c => pc'[d] = pc[d] /\ names'[d] = names[d]
    BY <2>1 DEF TypeOK
  <2>5. Phases'
    BY <1>2, <2>1, <2>4 DEF Phases
  <2>6. ASSUME NEW m \in Names, reg'[m] # None
        PROVE  /\ reg'[m] = reg[m] /\ reg[m] # None /\ reg[m].conn \in Conns
               /\ reg[m].conn = c => m = f
    <3>1. reg'[m] = reg[m] /\ reg[m] # None /\ ~(m = n /\ Holds(n, c))
      BY <2>6, <1>3
    <3>2. reg[m].conn \in Conns
      BY <3>1, EntryFields
    <3>3. reg[m].conn = c => m = f
      BY <3>1, <1>4 DEF Holds
    <3> QED
      BY <3>1, <3>2, <3>3
  <2>7. NoOrphanEntry'
    BY <2>1, <2>4, <2>6 DEF NoOrphanEntry
  <2>8. NoStrandedAgent'
    <3> SUFFICES ASSUME NEW d \in Conns, open[d], NEW m \in names'[d]
                 PROVE  (reg'[m] # None /\ reg'[m].conn = d) \/ \E b \in Conns : victim[b] = d
      BY <1>2, <2>1 DEF NoStrandedAgent, Holds
    <3>1. d # c /\ m \in names[d] /\ m \in Names
      BY <1>2, <2>3, <2>4 DEF TypeOK
    <3> QED
      BY <3>1, <1>3 DEF NoStrandedAgent, Holds
  <2>9. EvictsOwnOnly'
    BY <1>2, <2>1 DEF EvictsOwnOnly
  <2>10. HostKeyDerivesName'
    BY <2>1, <2>6 DEF HostKeyDerivesName
  <2> QED
    BY <2>3, <2>5, <2>7, <2>8, <2>9, <2>10
<1>6. CASE f \notin names[c]
  <2>1. Retire(c)
    BY <1>6 DEF RemoveCanonical
  <2>2. \A m \in Names : \/ reg'[m] = reg[m] /\ ~Holds(m, c)
                         \/ reg'[m] = None /\ Holds(m, c)
    BY <1>3, <1>4, <1>6
  <2> QED
    BY <1>2, <1>3, <2>1, <2>2, RetireKeeps
<1> QED
  BY <1>5, <1>6

LEMMA RemoveFriendlyKeeps ==
  ASSUME IInv, NEW c \in Conns, RemoveFriendly(c)
  PROVE  IInv'
<1> USE DEF IInv
<1> DEFINE f == cert[c].friendly
<1>1. pc[c] = "removeFriendly" /\ Remove(f, c) /\ Retire(c) /\ UNCHANGED <<book, victim>>
  BY DEF RemoveFriendly
<1>2. victim[c] = None
  BY <1>1 DEF Phases
<1>3. \A m \in Names : Holds(m, c) => m = f
  BY <1>1 DEF NoOrphanEntry, Holds, Phases
<1>4. CASE f \in Names
  BY <1>1, <1>2, <1>3, <1>4, RemoveEffect, RetireKeeps
<1>5. CASE f \notin Names
  <2>1. reg' = reg
    BY <1>1, <1>5 DEF Remove, TypeOK
  <2> QED
    BY <1>1, <1>2, <1>3, <1>5, <2>1, RetireKeeps DEF TypeOK
<1> QED
  BY <1>4, <1>5

LEMMA HandleReportKeeps ==
  ASSUME IInv, NEW c \in Conns, NEW k \in CanonicalNames, HandleReport(c, k)
  PROVE  IInv'
<1> USE DEF IInv, HandleReport
<1>1. \A n \in Names : reg'[n] = IF k = cert[c].canonical /\ Holds(n, c)
                                 THEN [reg[n] EXCEPT !.hostFP = k] ELSE reg[n]
  OBVIOUS
<1>2. ASSUME NEW n \in Names
      PROVE  /\ reg'[n] = None <=> reg[n] = None
             /\ reg[n] # None => /\ reg'[n] \in Entry
                                 /\ reg'[n].conn = reg[n].conn
                                 /\ reg'[n].fp = reg[n].fp
                                 /\ \/ reg'[n].hostFP = reg[n].hostFP
                                    \/ /\ reg'[n].hostFP = cert[c].canonical
                                       /\ reg[n].conn = c
  <2>1. CASE k = cert[c].canonical /\ Holds(n, c)
    <3>1. reg[n] # None
      BY <2>1 DEF Holds
    <3>2. reg'[n] = [conn |-> reg[n].conn, fp |-> reg[n].fp, hostFP |-> k]
      <4>1. reg[n] \in Entry
        BY <3>1, EntryFields
      <4>2. [reg[n] EXCEPT !.hostFP = k]
              = [conn |-> reg[n].conn, fp |-> reg[n].fp, hostFP |-> k]
        BY <4>1 DEF Entry
      <4> QED
        BY <2>1, <1>1, <4>2
    <3>3. reg'[n] \in Entry
      BY <3>1, <3>2, EntryFields DEF Entry
    <3> QED
      BY <2>1, <3>1, <3>2, <3>3, NoneAssumption DEF Holds
  <2>2. CASE ~(k = cert[c].canonical /\ Holds(n, c))
    BY <2>2, <1>1, EntryFields
  <2> QED
    BY <2>1, <2>2
<1>3. TypeOK'
  BY <1>2 DEF TypeOK
<1>4. Phases' /\ EvictsOwnOnly'
  BY DEF Phases, EvictsOwnOnly
<1>5. NoOrphanEntry'
  BY <1>2 DEF NoOrphanEntry
<1>6. NoStrandedAgent'
  BY <1>2 DEF NoStrandedAgent, Holds, TypeOK
<1>7. HostKeyDerivesName'
  BY <1>2 DEF HostKeyDerivesName
<1> QED
  BY <1>3, <1>4, <1>5, <1>6, <1>7

LEMMA TransportKeeps ==
  ASSUME IInv, NEW c \in Conns, Probe(c) \/ PeerGone(c) \/ ConnLost(c)
  PROVE  IInv'
<1> USE DEF IInv, Probe, PeerGone, ConnLost
<1>1. TypeOK'
  BY DEF TypeOK
<1>2. \A d \in Conns : open'[d] => open[d]
  BY DEF TypeOK
<1>3. UNCHANGED <<reg, pc, cert, names, victim>>
  OBVIOUS
<1>4. Phases'
  BY <1>2, <1>3 DEF Phases
<1>5. NoOrphanEntry' /\ NoStrandedAgent' /\ EvictsOwnOnly' /\ HostKeyDerivesName'
  BY <1>2, <1>3 DEF NoOrphanEntry, NoStrandedAgent, EvictsOwnOnly, HostKeyDerivesName, Holds
<1> QED
  BY <1>1, <1>4, <1>5

LEMMA ReloadKeeps ==
  ASSUME IInv, NEW b \in [FriendlyNames -> Machines \cup {None}], ReloadBook(b)
  PROVE  IInv'
BY DEF IInv, ReloadBook, TypeOK, Phases, NoOrphanEntry, NoStrandedAgent, EvictsOwnOnly,
       HostKeyDerivesName, Holds

LEMMA ConnStepKeeps ==
  ASSUME IInv, NEW c \in Conns, ConnStep(c)
  PROVE  IInv'
<1> USE DEF IInv
<1>1. CASE HandshakeDone(c)
  BY <1>1, HandshakeDoneKeeps
<1>2. CASE HandshakeFailed(c)
  <2>1. \A n \in Names : ~Holds(n, c)
    BY <1>2 DEF HandshakeFailed, NoOrphanEntry, Holds
  <2> QED
    BY <1>2, <2>1, RetireKeeps DEF HandshakeFailed, TypeOK, Phases
<1>3. CASE AddCanonical(c)
  <2>1. cert[c].canonical \in Names
    BY <1>3, CertFields DEF AddCanonical, At, TypeOK
  <2> QED
    BY <1>3, <2>1, AddKeeps DEF AddCanonical, At
<1>4. CASE RefuseCanonical(c)
  <2>1. \A n \in Names : ~Holds(n, c)
    BY <1>4 DEF RefuseCanonical, At, NoOrphanEntry, Holds
  <2> QED
    BY <1>4, <2>1, RetireKeeps DEF RefuseCanonical, At, TypeOK
<1>5. CASE CloseReplaced(c)
  BY <1>5, CloseReplacedKeeps
<1>6. CASE Claim(c)
  BY <1>6, ClaimKeeps
<1>7. CASE AddFriendly(c)
  <2>1. cert[c].friendly \in Names
    BY <1>7, CertFields DEF AddFriendly, At, TypeOK, Phases
  <2> QED
    BY <1>7, <2>1, AddKeeps DEF AddFriendly, At
<1>8. CASE RefuseFriendly(c)
  BY <1>8, RefuseFriendlyKeeps
<1>9. CASE RemoveCanonical(c)
  BY <1>9, RemoveCanonicalKeeps
<1>10. CASE RemoveFriendly(c)
  BY <1>10, RemoveFriendlyKeeps
<1>11. CASE Probe(c) \/ PeerGone(c) \/ ConnLost(c)
  BY <1>11, TransportKeeps
<1>12. CASE \E k \in CanonicalNames : HandleReport(c, k)
  BY <1>12, HandleReportKeeps
<1> QED
  BY <1>1, <1>2, <1>3, <1>4, <1>5, <1>6, <1>7, <1>8, <1>9, <1>10, <1>11, <1>12
     DEF ConnStep, HandshakeEnds, HandlerStep

LEMMA NextKeeps == IInv /\ [Next]_vars => IInv'
<1> SUFFICES ASSUME IInv, [Next]_vars PROVE IInv'
  OBVIOUS
<1>1. CASE \E c \in Conns, x \in Certs : Authenticate(c, x)
  BY <1>1, AuthenticateKeeps
<1>2. CASE \E c \in Conns : ConnStep(c)
  BY <1>2, ConnStepKeeps
<1>3. CASE Reload
  BY <1>3, ReloadKeeps DEF Reload
<1>4. CASE UNCHANGED vars
  BY <1>4 DEF vars, IInv, TypeOK, Phases, NoOrphanEntry, NoStrandedAgent, EvictsOwnOnly,
              HostKeyDerivesName, Holds
<1> QED
  BY <1>1, <1>2, <1>3, <1>4 DEF Next

\* The inductive invariant holds in every reachable state of handleAgent and the
\* registry.
THEOREM Invariance == Spec => []IInv
BY IInvInit, NextKeeps, PTL DEF Spec

\* Type correctness of the registry, the ledger and every handler's locals.
THEOREM TypeCorrect == Spec => []TypeOK
<1>1. IInv => TypeOK
  BY DEF IInv
<1> QED
  BY <1>1, Invariance, PTL

\* No registry entry outlives the handler that removes it.
THEOREM EntriesAreOwned == Spec => []NoOrphanEntry
<1>1. IInv => NoOrphanEntry
  BY DEF IInv
<1> QED
  BY <1>1, Invariance, PTL

\* No live agent is unreachable under a name it registered, unless it is about
\* to be closed.
THEOREM NobodyStranded == Spec => []NoStrandedAgent
<1>1. IInv => NoStrandedAgent
  BY DEF IInv
<1> QED
  BY <1>1, Invariance, PTL

\* registry.add only ever closes a connection of the machine that arrives.
THEOREM OwnEvictions == Spec => []EvictsOwnOnly
<1>1. IInv => EvictsOwnOnly
  BY DEF IInv
<1> QED
  BY <1>1, Invariance, PTL

\* A listed host key derives the canonical name it is listed under.
THEOREM HostKeysVerified == Spec => []HostKeyDerivesName
<1>1. IInv => HostKeyDerivesName
  BY DEF IInv
<1> QED
  BY <1>1, Invariance, PTL

-----------------------------------------------------------------------------
(* The registry implements AgentDirectory.                                    *)

\* An entitlement is a set of names some certificate of that machine asks for.
LEMMA Entitled ==
  ASSUME NEW x \in Certs, NEW n \in Names, n \in {x.canonical, x.friendly}
  PROVE  n \in Entitlement[x.fp]
BY CertFields DEF Entitlement

\* registry.add either gives an unheld name to an entitled machine or leaves the
\* machine behind the name as it was.
LEMMA AddRefines ==
  ASSUME IInv, NEW c \in Conns, NEW n \in Names, cert[c] \in Certs,
         n \in {cert[c].canonical, cert[c].friendly},
         ~HeldByOther(n, cert[c].fp), Add(n, c)
  PROVE  [Directory!Next]_([m \in Names |-> HolderOf(m)])
<1> DEFINE h == [m \in Names |-> HolderOf(m)]
           k == cert[c].fp
           e == [conn |-> c, fp |-> k, hostFP |-> None]
<1>1. k \in Machines /\ n \in Entitlement[k]
  BY CertFields, Entitled
<1>2. e # None
  BY <1>1, NoneAssumption DEF Entry
<1>3. reg'[n] = e /\ \A m \in Names : m # n => reg'[m] = reg[m]
  BY DEF IInv, TypeOK, Add
<1>4. h' = [m \in Names |-> HolderOf(m)']
  OBVIOUS
<1>5. HolderOf(n)' = k /\ \A m \in Names : m # n => HolderOf(m)' = HolderOf(m)
  BY <1>2, <1>3 DEF HolderOf
<1>6. h' = [h EXCEPT ![n] = k]
  BY <1>4, <1>5
<1>7. CASE reg[n] = None
  <2>1. h[n] = None
    BY <1>7 DEF HolderOf
  <2>2. Directory!Take(n, k)
    BY <1>1, <1>6, <2>1 DEF Directory!Take
  <2> QED
    BY <1>1, <2>2 DEF Directory!Next
<1>8. CASE reg[n] # None
  <2>1. h[n] = k
    BY <1>8 DEF HolderOf, HeldByOther
  <2> QED
    BY <1>6, <2>1
<1> QED
  BY <1>7, <1>8

LEMMA RemoveRefines ==
  ASSUME IInv, NEW c \in Conns, NEW n \in Names, Remove(n, c)
  PROVE  [Directory!Next]_([m \in Names |-> HolderOf(m)])
<1> DEFINE h == [m \in Names |-> HolderOf(m)]
<1>1. h' = [m \in Names |-> HolderOf(m)']
  OBVIOUS
<1>2. \A m \in Names : m # n => HolderOf(m)' = HolderOf(m)
  BY RemoveEffect DEF IInv, HolderOf
<1>3. CASE Holds(n, c)
  <2>1. HolderOf(n)' = None
    BY <1>3, RemoveEffect DEF IInv, HolderOf
  <2>2. h[n] # None
    BY <1>3, EntryFields, NoneAssumption DEF IInv, HolderOf, Holds
  <2>3. h' = [h EXCEPT ![n] = None]
    BY <1>1, <1>2, <2>1
  <2>4. Directory!GiveUp(n)
    BY <2>2, <2>3 DEF Directory!GiveUp
  <2> QED
    BY <2>4 DEF Directory!Next
<1>4. CASE ~Holds(n, c)
  <2>1. HolderOf(n)' = HolderOf(n)
    BY <1>4, RemoveEffect DEF IInv, HolderOf
  <2> QED
    BY <1>1, <1>2, <2>1
<1> QED
  BY <1>3, <1>4

LEMMA StepRefines ==
  IInv /\ [Next]_vars => [Directory!Next]_([n \in Names |-> HolderOf(n)])
<1> SUFFICES ASSUME IInv, [Next]_vars
             PROVE  [Directory!Next]_([n \in Names |-> HolderOf(n)])
  OBVIOUS
<1> USE DEF IInv
<1>1. CASE UNCHANGED reg
  BY <1>1 DEF HolderOf
<1>2. ASSUME NEW c \in Conns, AddCanonical(c)
      PROVE  [Directory!Next]_([n \in Names |-> HolderOf(n)])
  BY <1>2, CertFields, AddRefines DEF AddCanonical, At, TypeOK
<1>3. ASSUME NEW c \in Conns, AddFriendly(c)
      PROVE  [Directory!Next]_([n \in Names |-> HolderOf(n)])
  BY <1>3, CertFields, AddRefines DEF AddFriendly, At, TypeOK, Phases
<1>4. ASSUME NEW c \in Conns, RemoveCanonical(c)
      PROVE  [Directory!Next]_([n \in Names |-> HolderOf(n)])
  BY <1>4, CertFields, RemoveRefines DEF RemoveCanonical, At, TypeOK
<1>5. ASSUME NEW c \in Conns, RemoveFriendly(c)
      PROVE  [Directory!Next]_([n \in Names |-> HolderOf(n)])
  <2>1. CASE cert[c].friendly \in Names
    BY <1>5, <2>1, RemoveRefines DEF RemoveFriendly
  <2>2. CASE cert[c].friendly \notin Names
    BY <1>1, <1>5, <2>2 DEF RemoveFriendly, Remove, TypeOK
  <2> QED
    BY <2>1, <2>2
<1>6. ASSUME NEW c \in Conns, NEW k \in CanonicalNames, HandleReport(c, k)
      PROVE  [Directory!Next]_([n \in Names |-> HolderOf(n)])
  <2>1. ASSUME NEW n \in Names
        PROVE  HolderOf(n)' = HolderOf(n)
    <3>1. CASE k = cert[c].canonical /\ Holds(n, c)
      <4>1. reg[n] \in Entry /\ reg[n] # None
        BY <3>1, EntryFields DEF Holds
      <4>2. reg'[n] = [reg[n] EXCEPT !.hostFP = k]
        BY <1>6, <3>1 DEF HandleReport
      <4>3. reg'[n] = [conn |-> reg[n].conn, fp |-> reg[n].fp, hostFP |-> k]
        BY <4>1, <4>2 DEF Entry
      <4>4. reg'[n] \in Entry
        BY <4>1, <4>3 DEF Entry
      <4> QED
        BY <4>1, <4>3, <4>4, NoneAssumption DEF HolderOf
    <3>2. CASE ~(k = cert[c].canonical /\ Holds(n, c))
      BY <1>6, <3>2 DEF HandleReport, HolderOf
    <3> QED
      BY <3>1, <3>2
  <2> QED
    BY <2>1
<1>7. CASE \E c \in Conns, x \in Certs : Authenticate(c, x)
  BY <1>1, <1>7 DEF Authenticate
<1>8. CASE Reload
  BY <1>1, <1>8 DEF Reload, ReloadBook
<1>9. CASE UNCHANGED vars
  BY <1>1, <1>9 DEF vars
<1>10. CASE \E c \in Conns : ConnStep(c)
  BY <1>1, <1>2, <1>3, <1>4, <1>5, <1>6, <1>10
     DEF ConnStep, HandshakeEnds, HandlerStep, HandshakeDone, HandshakeFailed,
         RefuseCanonical, CloseReplaced, Claim, RefuseFriendly, Probe, PeerGone, ConnLost
<1> QED
  BY <1>7, <1>8, <1>9, <1>10 DEF Next

\* Read as machines behind names, every behaviour of the registry is one of
\* AgentDirectory: a name passes between machines only by being given up.
THEOREM Refinement == Spec => ImplementsDirectory
<1>1. Init => Directory!Init
  BY DEF Init, Directory!Init, HolderOf
<1> QED
  BY <1>1, Invariance, StepRefines, PTL DEF Spec, ImplementsDirectory, Directory!Spec

-----------------------------------------------------------------------------
(* The revocation sweep over the registry (RevokedAgents). It rests on the      *)
(* registry's invariant: what the sweep cannot see, somebody else closes.       *)

\* What the composition does to the file, the commands and the watch loop is what
\* Revocations lets them do: the sweep's steps are stuttering steps of it.
THEOREM CompositionImplementsRevocations == RASpec => Rev!RevSpec
<1>1. RAInit => Rev!RevInit
  BY DEF RAInit
<1>2. [RANext]_allVars => [Rev!RevNext]_Rev!revVars
  <2> USE DEF revVars, Rev!revVars
  <2> SUFFICES ASSUME [RANext]_allVars PROVE [Rev!RevNext]_Rev!revVars
    OBVIOUS
  <2>1. CASE UNCHANGED allVars
    BY <2>1 DEF allVars
  <2>2. CASE \E c \in Conns, x \in Certs : AuthenticateUnbarred(c, x)
    BY <2>2 DEF AuthenticateUnbarred
  <2>3. CASE \E c \in Conns : AgentStep(c)
    BY <2>3 DEF AgentStep
  <2>4. CASE Rev!Commands /\ UNCHANGED <<vars, sweepVars>>
    BY <2>4 DEF Rev!RevNext
  <2>5. CASE Rev!Reloading /\ UNCHANGED <<vars, sweepVars>>
    BY <2>5 DEF Rev!RevNext
  <2>6. CASE Snapshot \/ \E c \in Conns : DropBarred(c)
    BY <2>6 DEF Snapshot, DropBarred
  <2>7. CASE EndSweep
    BY <2>7 DEF EndSweep, Rev!RevNext
  <2> QED
    BY <2>1, <2>2, <2>3, <2>4, <2>5, <2>6, <2>7 DEF RANext, Watch
<1> QED
  BY <1>1, <1>2, PTL DEF RASpec, Rev!RevSpec

\* The sweep's locals, and what is left of what it owes.
SweepPhase ==
  /\ taken \in BOOLEAN
  /\ todo \subseteq Conns
  /\ due \subseteq Conns
  /\ taken => wpc = "sweep"
  /\ ~taken => todo = {}

Owed == \A c \in due : open[c] => c \in todo \/ \E d \in Conns : victim[d] = c

SweepInv == IInv /\ SweepPhase /\ Owed

\* A step of a handler or of the transport opens no connection, and lets go of
\* no connection it has replaced without closing it.
LEMMA AgentStepEffect ==
  ASSUME IInv, NEW c \in Conns,
         HandshakeEnds(c) \/ HandlerStep(c) \/ Probe(c) \/ PeerGone(c) \/ ConnLost(c)
  PROVE  /\ \A a \in Conns : open'[a] => open[a]
         /\ \A a, d \in Conns : victim[d] = a /\ open'[a] => victim'[d] = a
<1> USE DEF IInv
<1>1. CASE CloseReplaced(c)
  <2>1. victim[c] \in Conns
    BY <1>1 DEF CloseReplaced, TypeOK
  <2> QED
    BY <1>1, <2>1 DEF CloseReplaced, TypeOK
<1>2. CASE AddCanonical(c) \/ AddFriendly(c)
  <2>1. victim[c] = None /\ open' = open /\ \A d \in Conns : d # c => victim'[d] = victim[d]
    BY <1>2 DEF AddCanonical, AddFriendly, At, Add, TypeOK
  <2> QED
    BY <2>1, NoneAssumption
<1>3. CASE RefuseCanonical(c) \/ HandshakeFailed(c) \/ RemoveCanonical(c) \/ RemoveFriendly(c)
  BY <1>3 DEF RefuseCanonical, HandshakeFailed, RemoveCanonical, RemoveFriendly, Retire, TypeOK
<1>4. CASE Claim(c) \/ RefuseFriendly(c) \/ HandshakeDone(c)
  BY <1>4 DEF Claim, RefuseFriendly, HandshakeDone
<1>5. CASE Probe(c) \/ PeerGone(c) \/ ConnLost(c)
  BY <1>5 DEF Probe, PeerGone, ConnLost, TypeOK
<1> QED
  BY <1>1, <1>2, <1>3, <1>4, <1>5 DEF HandlerStep, HandshakeEnds

LEMMA SweepInvInit == RAInit => SweepInv
BY IInvInit DEF RAInit, SweepInv, SweepPhase, Owed

\* The snapshot: a registered connection that is up is in the registry, or the
\* connection that took its name is about to close it (NoStrandedAgent).
LEMMA SnapshotKeeps ==
  ASSUME SweepInv, Snapshot
  PROVE  SweepInv'
<1> USE DEF SweepInv, Snapshot
<1>1. IInv'
  BY DEF vars, IInv, TypeOK, Phases, NoOrphanEntry, NoStrandedAgent, EvictsOwnOnly,
         HostKeyDerivesName, Holds
<1>2. SweepPhase'
  BY DEF SweepPhase, Connections, revVars
<1>3. Owed'
  <2> SUFFICES ASSUME NEW c \in due', open[c]
               PROVE  c \in todo' \/ \E d \in Conns : victim[d] = c
    BY DEF Owed, vars
  <2>1. c \in Conns /\ names[c] # {} /\ Barred(c)
    OBVIOUS
  <2>2. PICK n : n \in names[c]
    BY <2>1
  <2>3. n \in Names
    BY <2>1, <2>2 DEF IInv, TypeOK
  <2>4. CASE Holds(n, c)
    BY <2>1, <2>3, <2>4 DEF Connections
  <2> QED
    BY <2>1, <2>2, <2>4 DEF IInv, NoStrandedAgent
<1> QED
  BY <1>1, <1>2, <1>3

LEMMA DropBarredKeeps ==
  ASSUME SweepInv, NEW c \in Conns, DropBarred(c)
  PROVE  SweepInv'
<1> USE DEF SweepInv, DropBarred
<1>1. \A d \in Conns : open'[d] <=> open[d] /\ d # c
  BY DEF IInv, TypeOK
<1>2. IInv'
  <2>1. TypeOK'
    BY DEF IInv, TypeOK
  <2> QED
    BY <1>1, <2>1 DEF IInv, Phases, NoOrphanEntry, NoStrandedAgent, EvictsOwnOnly,
                      HostKeyDerivesName, Holds
<1>3. SweepPhase'
  BY DEF SweepPhase, revVars
<1>4. Owed'
  BY <1>1 DEF Owed, SweepPhase
<1> QED
  BY <1>2, <1>3, <1>4

LEMMA SweepInvNext == SweepInv /\ [RANext]_allVars => SweepInv'
<1> SUFFICES ASSUME SweepInv, [RANext]_allVars PROVE SweepInv'
  OBVIOUS
<1> USE DEF SweepInv
<1>0. ASSUME UNCHANGED vars PROVE IInv'
  BY <1>0 DEF vars, IInv, TypeOK, Phases, NoOrphanEntry, NoStrandedAgent, EvictsOwnOnly,
              HostKeyDerivesName, Holds
<1>1. ASSUME NEW c \in Conns, NEW x \in Certs, AuthenticateUnbarred(c, x)
      PROVE  SweepInv'
  <2> USE <1>1 DEF AuthenticateUnbarred
  <2>1. IInv'
    BY AuthenticateKeeps
  <2>2. /\ \A d \in Conns : d # c => open'[d] = open[d]
        /\ UNCHANGED victim
    BY DEF Authenticate, IInv, TypeOK
  <2>3. SweepPhase'
    BY DEF SweepPhase, revVars
  <2>4. Owed'
    BY <2>2 DEF Owed, SweepPhase
  <2> QED
    BY <2>1, <2>3, <2>4
<1>2. ASSUME NEW c \in Conns, AgentStep(c)
      PROVE  SweepInv'
  <2>1. IInv'
    BY <1>2, ConnStepKeeps DEF AgentStep, ConnStep
  <2>2. SweepPhase'
    BY <1>2 DEF AgentStep, SweepPhase, revVars, sweepVars
  <2>3. Owed'
    BY <1>2, AgentStepEffect DEF AgentStep, Owed, SweepPhase, sweepVars
  <2> QED
    BY <2>1, <2>2, <2>3
<1>3. CASE Rev!Commands /\ UNCHANGED <<vars, sweepVars>>
  <2>1. UNCHANGED wpc
    BY <1>3 DEF Rev!Commands, Rev!CliRead, Rev!CliAlready, Rev!CliWrite, Rev!CliFails,
                Rev!HandEdit, Rev!watcher
  <2> QED
    BY <1>0, <1>3, <2>1 DEF SweepPhase, Owed, vars, sweepVars
<1>4. CASE Rev!Reloading /\ UNCHANGED <<vars, sweepVars>>
  <2>1. ~taken
    BY <1>4 DEF SweepPhase, Rev!Reloading, Rev!Stat, Rev!Read, Rev!ReadFails, Rev!Apply
  <2> QED
    BY <1>0, <1>4, <2>1 DEF SweepPhase, Owed, vars, sweepVars
<1>5. CASE Snapshot
  BY <1>5, SnapshotKeeps
<1>6. ASSUME NEW c \in Conns, DropBarred(c)
      PROVE  SweepInv'
  BY <1>6, DropBarredKeeps
<1>7. CASE EndSweep
  BY <1>0, <1>7 DEF EndSweep, SweepPhase, Owed, vars
<1>8. CASE UNCHANGED allVars
  BY <1>0, <1>8 DEF allVars, revVars, sweepVars, vars, SweepPhase, Owed
<1> QED
  BY <1>1, <1>2, <1>3, <1>4, <1>5, <1>6, <1>7, <1>8 DEF RANext, Watch

\* The sweep's debts are always kept track of, by its snapshot or by a replacer.
THEOREM SweepInvariance == RASpec => []SweepInv
BY SweepInvInit, SweepInvNext, PTL DEF RASpec

\* A revocation sweep leaves no barred agent behind that had registered before it
\* looked, for any number of agents coming, going and replacing each other while
\* it walks its snapshot (revocations.sweep over registry.connections).
THEOREM SweepIsComplete == RASpec => []SweepMissesNobody
<1>1. SweepInv => SweepMissesNobody
  BY DEF SweepInv, SweepPhase, Owed, SweepMissesNobody
<1> QED
  BY <1>1, SweepInvariance, PTL
=============================================================================
