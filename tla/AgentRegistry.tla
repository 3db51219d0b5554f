---------------------------- MODULE AgentRegistry ----------------------------
(* The proxy's registry and the goroutines that write to it: one handleAgent   *)
(* per agent connection, its request goroutine, its liveness probe, and the    *)
(* transport underneath, which can fail at any moment. Each critical section   *)
(* of registry.mu or ledger.mu is one step; what the code does between two of  *)
(* them (closing a replaced connection above all) is a step of its own.        *)
EXTENDS Integers, FiniteSets

CONSTANTS Conns,           \* connection objects (*ssh.ServerConn)
          Machines,        \* identity keys, by fingerprint
          CanonicalNames,  \* names derived from a host key ("label.hash")
          FriendlyNames,   \* names without a dot
          Certs,           \* certificates the authority has signed
          None

Names == CanonicalNames \cup FriendlyNames

\* registration. A host key is represented by the canonical name it derives, so
\* VerifyCanonicalName(canonical, key) is equality.
Entry == [conn : Conns, fp : Machines, hostFP : CanonicalNames \cup {None}]

\* One machine may hold several certificates (it was enrolled again), and two
\* machines may ask for one friendly name, or even carry one canonical name.
ASSUME CertAssumption ==
  Certs \subseteq [fp : Machines, canonical : CanonicalNames,
                   friendly : FriendlyNames \cup {None}]
ASSUME NameAssumption == CanonicalNames \cap FriendlyNames = {}
ASSUME NoneAssumption ==
  None \notin Conns \cup Machines \cup Names \cup Entry \cup Certs

VARIABLES
  reg,      \* registry.m
  book,     \* ledger.m: friendly name -> machine
  pc,       \* where the handler of a connection is
  cert,     \* the certificate a connection authenticated with
  open,     \* the transport is up: conn.Wait has not returned
  peer,     \* the agent is still at the other end (FALSE: half-open)
  names,    \* handleAgent's local "names": what it will remove
  victim,   \* the replaced connection registry.add has yet to Close
  reported  \* the host key the request goroutine has processed

vars == <<reg, book, pc, cert, open, peer, names, victim, reported>>

Steps == {"idle", "handshake", "canonical", "claim", "friendly", "wait",
          "removeFriendly"}

TypeOK ==
  /\ reg \in [Names -> Entry \cup {None}]
  /\ book \in [FriendlyNames -> Machines \cup {None}]
  /\ pc \in [Conns -> Steps]
  /\ cert \in [Conns -> Certs \cup {None}]
  /\ \A c \in Conns : pc[c] # "idle" => cert[c] \in Certs
  /\ open \in [Conns -> BOOLEAN]
  /\ peer \in [Conns -> BOOLEAN]
  /\ names \in [Conns -> SUBSET Names]
  /\ victim \in [Conns -> Conns \cup {None}]
  /\ reported \in [Conns -> CanonicalNames \cup {None}]

Init ==
  /\ reg = [n \in Names |-> None]
  /\ book \in [FriendlyNames -> Machines \cup {None}]
  /\ pc = [c \in Conns |-> "idle"]
  /\ cert = [c \in Conns |-> None]
  /\ open = [c \in Conns |-> FALSE]
  /\ peer = [c \in Conns |-> FALSE]
  /\ names = [c \in Conns |-> {}]
  /\ victim = [c \in Conns |-> None]
  /\ reported = [c \in Conns |-> None]

-----------------------------------------------------------------------------
(* Reading the registry.                                                       *)

Holds(n, c) == reg[n] # None /\ reg[n].conn = c

\* registry.connections, the set a revocation sweep walks.
Connections == {c \in Conns : \E n \in Names : Holds(n, c)}

\* Faulty variants: a different key evicts instead of being refused, or is
\* refused only while the holder's connection is up.
HeldByNobody(n, k) == FALSE

HeldByLiving(n, k) == reg[n] # None /\ reg[n].fp # k /\ open[reg[n].conn]

HeldByOther(n, k) == reg[n] # None /\ reg[n].fp # k

-----------------------------------------------------------------------------
(* The handshake.                                                              *)

\* A connection object is new: nothing still refers to an earlier one.
Fresh(c) == pc[c] = "idle" /\ \A d \in Conns : victim[d] # c

\* agentCfg.PublicKeyCallback accepts certificate x: signed by the authority, its
\* user a well-formed canonical name, its protocol recent enough (RevokedAgents
\* has the check for revocation). The client's signature and the end of the
\* handshake are still to come.
Authenticate(c, x) ==
  /\ Fresh(c)
  /\ pc' = [pc EXCEPT ![c] = "handshake"]
  /\ cert' = [cert EXCEPT ![c] = x]
  /\ open' = [open EXCEPT ![c] = TRUE]
  /\ peer' = [peer EXCEPT ![c] = TRUE]
  /\ UNCHANGED <<reg, book, names, victim, reported>>

\* Faulty variant: the handler goes back to waiting on a connection it let go.
RetireAndWait(c) ==
  /\ pc' = [pc EXCEPT ![c] = "wait"]
  /\ cert' = [cert EXCEPT ![c] = None]
  /\ open' = [open EXCEPT ![c] = FALSE]
  /\ peer' = [peer EXCEPT ![c] = FALSE]
  /\ names' = [names EXCEPT ![c] = {}]
  /\ reported' = [reported EXCEPT ![c] = None]

\* takeConn returns: its deferred Closes run, and the object is garbage.
Retire(c) ==
  /\ pc' = [pc EXCEPT ![c] = "idle"]
  /\ cert' = [cert EXCEPT ![c] = None]
  /\ open' = [open EXCEPT ![c] = FALSE]
  /\ peer' = [peer EXCEPT ![c] = FALSE]
  /\ names' = [names EXCEPT ![c] = {}]
  /\ reported' = [reported EXCEPT ![c] = None]

\* ssh.NewServerConn returns without error and handleAgent starts, its request
\* goroutine with it.
HandshakeDone(c) ==
  /\ pc[c] = "handshake"
  /\ open[c]
  /\ pc' = [pc EXCEPT ![c] = "canonical"]
  /\ UNCHANGED <<reg, book, cert, open, peer, names, victim, reported>>

\* It returns an error: no signature came, or handshakeTimeout passed.
HandshakeFailed(c) ==
  /\ pc[c] = "handshake"
  /\ Retire(c)
  /\ UNCHANGED <<reg, book, victim>>

-----------------------------------------------------------------------------
(* handleAgent.                                                                *)

\* The handler is at step s, with no replaced connection left to close.
At(c, s) == pc[c] = s /\ victim[c] = None

\* registry.add, the part under the lock. The entry it replaces, if another
\* connection's, is closed after the lock is released: see CloseReplaced.
Add(n, c) ==
  /\ reg' = [reg EXCEPT ![n] =
               [conn |-> c, fp |-> cert[c].fp, hostFP |-> None]]
  /\ victim' = [victim EXCEPT ![c] =
                  IF reg[n] # None /\ reg[n].conn # c THEN reg[n].conn ELSE None]
  /\ names' = [names EXCEPT ![c] = @ \cup {n}]

AddCanonical(c) ==
  /\ At(c, "canonical")
  /\ ~HeldByOther(cert[c].canonical, cert[c].fp)
  /\ Add(cert[c].canonical, c)
  /\ pc' = [pc EXCEPT ![c] = "claim"]
  /\ UNCHANGED <<book, cert, open, peer, reported>>

\* The canonical name is held by another machine: conn.Close() and return.
RefuseCanonical(c) ==
  /\ At(c, "canonical")
  /\ HeldByOther(cert[c].canonical, cert[c].fp)
  /\ Retire(c)
  /\ UNCHANGED <<reg, book, victim>>

\* The tail of registry.add, run without the lock: old.conn.Close().
CloseReplaced(c) ==
  /\ victim[c] # None
  /\ open' = [open EXCEPT ![victim[c]] = FALSE]
  /\ victim' = [victim EXCEPT ![c] = None]
  /\ UNCHANGED <<reg, book, pc, cert, peer, names, reported>>

\* ledger.claim: an unheld name is bound on first sight.
Claim(c) ==
  LET f == cert[c].friendly IN
  /\ At(c, "claim")
  /\ \/ /\ f = None
        /\ pc' = [pc EXCEPT ![c] = "wait"]
        /\ UNCHANGED book
     \/ /\ f # None
        /\ book[f] \notin {None, cert[c].fp}
        /\ pc' = [pc EXCEPT ![c] = "wait"]
        /\ UNCHANGED book
     \/ /\ f # None
        /\ book[f] \in {None, cert[c].fp}
        /\ book' = [book EXCEPT ![f] = cert[c].fp]
        /\ pc' = [pc EXCEPT ![c] = "friendly"]
  /\ UNCHANGED <<reg, cert, open, peer, names, victim, reported>>

\* The ledger agreed, so the registry is asked for the friendly name too.
AddFriendly(c) ==
  /\ At(c, "friendly")
  /\ ~HeldByOther(cert[c].friendly, cert[c].fp)
  /\ Add(cert[c].friendly, c)
  /\ pc' = [pc EXCEPT ![c] = "wait"]
  /\ UNCHANGED <<book, cert, open, peer, reported>>

\* The registry still serves it for another machine: canonical name only.
RefuseFriendly(c) ==
  /\ At(c, "friendly")
  /\ HeldByOther(cert[c].friendly, cert[c].fp)
  /\ pc' = [pc EXCEPT ![c] = "wait"]
  /\ UNCHANGED <<reg, book, cert, open, peer, names, victim, reported>>

\* Faulty variant: without the identity check.
RemoveAny(n, c) == reg' = [reg EXCEPT ![n] = None]

\* registry.remove: only if the name still points at this connection.
Remove(n, c) ==
  reg' = [reg EXCEPT ![n] = IF Holds(n, c) THEN None ELSE @]

\* conn.Wait returned. The names go one lock at a time, canonical first.
RemoveCanonical(c) ==
  /\ At(c, "wait")
  /\ ~open[c]
  /\ Remove(cert[c].canonical, c)
  /\ IF cert[c].friendly \in names[c]
     THEN /\ pc' = [pc EXCEPT ![c] = "removeFriendly"]
          /\ names' = [names EXCEPT ![c] = {cert[c].friendly}]
          /\ UNCHANGED <<cert, open, peer, reported>>
     ELSE Retire(c)
  /\ UNCHANGED <<book, victim>>

\* Faulty variant: only the canonical name is removed.
ReturnWithFriendly(c) ==
  /\ pc[c] = "removeFriendly"
  /\ Retire(c)
  /\ UNCHANGED <<reg, book, victim>>

RemoveFriendly(c) ==
  /\ pc[c] = "removeFriendly"
  /\ Remove(cert[c].friendly, c)
  /\ Retire(c)
  /\ UNCHANGED <<book, victim>>

-----------------------------------------------------------------------------
(* The goroutines beside it, and the world outside.                            *)

\* Faulty variant: any reported key is believed.
BelieveReport(c, k) ==
  /\ pc[c] \notin {"idle", "handshake"}
  /\ reported[c] = None
  /\ reported' = [reported EXCEPT ![c] = k]
  /\ reg' = [n \in Names |->
               IF Holds(n, c) THEN [reg[n] EXCEPT !.hostFP = k] ELSE reg[n]]
  /\ UNCHANGED <<book, pc, cert, open, peer, names, victim>>

\* The agent reports host key k once per session, right after its handshake;
\* the request goroutine started before the first reg.add, and handles it at
\* any moment from then on. A key that does not derive the name is refused.
HandleReport(c, k) ==
  /\ pc[c] \notin {"idle", "handshake"}
  /\ reported[c] = None
  /\ reported' = [reported EXCEPT ![c] = k]
  /\ reg' = [n \in Names |->
               IF k = cert[c].canonical /\ Holds(n, c)
               THEN [reg[n] EXCEPT !.hostFP = k] ELSE reg[n]]
  /\ UNCHANGED <<book, pc, cert, open, peer, names, victim>>

\* Faulty variant: only a failed keepalive counts, never an unanswered one.
ProbeErrorsOnly(c) ==
  /\ At(c, "wait")
  /\ ~open[c]
  /\ UNCHANGED vars

\* probeLiveness: a keepalive that fails or goes unanswered closes the
\* connection. The probe starts once the handler is about to wait.
Probe(c) ==
  /\ At(c, "wait")
  /\ open[c]
  /\ ~peer[c]
  /\ open' = [open EXCEPT ![c] = FALSE]
  /\ UNCHANGED <<reg, book, pc, cert, peer, names, victim, reported>>

\* The agent goes to sleep or off the network: nothing tells this side.
PeerGone(c) ==
  /\ pc[c] # "idle"
  /\ peer[c]
  /\ peer' = [peer EXCEPT ![c] = FALSE]
  /\ UNCHANGED <<reg, book, pc, cert, open, names, victim, reported>>

\* The transport fails visibly: an error, an orderly close by the agent, a
\* keepalive timeout on a link that was merely slow.
ConnLost(c) ==
  /\ pc[c] # "idle"
  /\ open[c]
  /\ open' = [open EXCEPT ![c] = FALSE]
  /\ peer' = [peer EXCEPT ![c] = FALSE]
  /\ UNCHANGED <<reg, book, pc, cert, names, victim, reported>>

\* SIGHUP: ledger.reload installs the bindings b of the file. Module StateFiles
\* has what the file can hold; here it may hold anything.
ReloadBook(b) ==
  /\ book' = b
  /\ UNCHANGED <<reg, pc, cert, open, peer, names, victim, reported>>

-----------------------------------------------------------------------------
HandlerStep(c) ==
  \/ AddCanonical(c) \/ RefuseCanonical(c) \/ CloseReplaced(c) \/ Claim(c)
  \/ AddFriendly(c) \/ RefuseFriendly(c) \/ RemoveCanonical(c) \/ RemoveFriendly(c)

HandshakeEnds(c) == HandshakeDone(c) \/ HandshakeFailed(c)

ConnStep(c) ==
  \/ HandshakeEnds(c) \/ HandlerStep(c)
  \/ Probe(c) \/ PeerGone(c) \/ ConnLost(c)
  \/ \E k \in CanonicalNames : HandleReport(c, k)

Reload == \E b \in [FriendlyNames -> Machines \cup {None}] : ReloadBook(b)

Next ==
  \/ \E c \in Conns, x \in Certs : Authenticate(c, x)
  \/ \E c \in Conns : ConnStep(c)
  \/ Reload

Spec == Init /\ [][Next]_vars

\* handshakeTimeout ends every handshake; a handler runs until it blocks in
\* conn.Wait; the probe's ticker fires every keepaliveInterval.
Fairness ==
  \A c \in Conns :
    WF_vars(HandshakeEnds(c)) /\ WF_vars(HandlerStep(c)) /\ WF_vars(Probe(c))

FairSpec == Spec /\ Fairness

-----------------------------------------------------------------------------
(* Properties.                                                                 *)

\* Every entry of the registry belongs to a connection whose handler is still
\* running and has that name on the list it removes on the way out, under the
\* identity that connection proved: no entry outlives its connection's handler
\* for good (handleAgent's cleanup, registry.remove's identity check).
NoOrphanEntry ==
  \A n \in Names : reg[n] # None =>
    LET c == reg[n].conn IN
      /\ pc[c] \notin {"idle", "handshake", "canonical"}
      /\ n \in names[c]
      /\ reg[n].fp = cert[c].fp

\* A connection that registered a name and is still up is either what the name
\* leads to, or has been replaced by a handler that is about to close it. There
\* is never a live agent that no lookup, sweep or count can find, which is what
\* remove's "only if it still points at conn" is for.
NoStrandedAgent ==
  \A c \in Conns : open[c] =>
    \A n \in names[c] : Holds(n, c) \/ \E d \in Conns : victim[d] = c

\* registry.add closes connections of the arriving machine only: two machines
\* can never "kick each other off".
EvictsOwnOnly ==
  \A c, d \in Conns :
    victim[d] = c /\ open[c] => cert[c].fp = cert[d].fp

\* A host key stored for a name derives the canonical name of the connection it
\* is stored for, whatever keys agents report and however registrations are
\* replaced in between (the check in handleAgent's request goroutine).
HostKeyDerivesName ==
  \A n \in Names : reg[n] # None /\ reg[n].hostFP # None =>
    reg[n].hostFP = cert[reg[n].conn].canonical

\* An agent that went silent does not keep its names: its handler ends, however
\* far it had come, so users are not sent to a connection that hangs
\* (probeLiveness).
SilentAgentLeaves ==
  \A c \in Conns : (pc[c] # "idle" /\ ~peer[c]) ~> (c \notin Connections)

\* What the registry promises, read off the entries: AgentDirectory.
Entitlement ==
  [k \in Machines |->
     {n \in Names : \E x \in Certs : x.fp = k /\ n \in {x.canonical, x.friendly}}]

HolderOf(n) == IF reg[n] = None THEN None ELSE reg[n].fp

Directory == INSTANCE AgentDirectory
  WITH Entitled <- Entitlement, holder <- [n \in Names |-> HolderOf(n)]

\* A name changes machine only by being given up first, and only entitled
\* machines hold it (registry.add's refusal of a different key).
ImplementsDirectory == Directory!Spec

-----------------------------------------------------------------------------
(* What comments in the code say, and the code does not guarantee.             *)

\* The agent's maintain loop holds one session at a time: an agent comes back
\* only after it has given up its previous connection.
OneSessionEach ==
  \A c, d \in Conns : c # d /\ peer[c] /\ peer[d] => cert[c].fp # cert[d].fp

SerialSpec == Init /\ [][Next /\ OneSessionEach']_vars

\* "a half-open TCP session leaves a ghost behind and the live connection must
\* win" (registry.add): a handler whose agent is gone closes no connection of a
\* live one.
LiveConnectionWins ==
  [][\A c, d \in Conns :
       CloseReplaced(c) /\ victim[c] = d /\ open[d] /\ peer[d] => peer[c]]_vars
=============================================================================
