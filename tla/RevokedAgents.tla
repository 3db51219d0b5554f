---------------------------- MODULE RevokedAgents ----------------------------
(* The registry and the revocation list together: authentication asks the list *)
(* in memory, and the watch loop's sweep closes the connections it finds in    *)
(* the registry. Host key reports and ledger reloads are left out: they change *)
(* neither which connections are registered nor which are up.                  *)
EXTENDS AgentRegistry

CONSTANTS Admins, MaxWrites

VARIABLES entries, good, version, mem, stamp, wpc, wstamp, wread, cli, promised, raced

Rev == INSTANCE Revocations WITH Keys <- Machines, NoCommand <- None

revVars == <<entries, good, version, mem, stamp, wpc, wstamp, wread, cli, promised, raced>>

VARIABLES
  taken,  \* the sweep under way has its snapshot of the connections
  todo,   \* connections of that snapshot it has yet to close
  due     \* history: barred, registered by their handler and up at the snapshot

sweepVars == <<taken, todo, due>>

allVars == <<vars, revVars, sweepVars>>

SweepTypeOK ==
  /\ Rev!RevTypeOK
  /\ taken \in BOOLEAN
  /\ todo \subseteq Conns
  /\ due \subseteq Conns

RAInit ==
  /\ Init
  /\ Rev!RevInit
  /\ taken = FALSE /\ todo = {} /\ due = {}

Barred(c) == cert[c] # None /\ cert[c].fp \in mem

\* PublicKeyCallback refuses a key barred in memory. A connection object the
\* sweep still refers to is not a new one.
AuthenticateUnbarred(c, x) ==
  /\ x.fp \notin mem
  /\ c \notin todo
  /\ Authenticate(c, x)
  /\ due' = due \ {c}
  /\ UNCHANGED <<revVars, taken, todo>>

AgentStep(c) ==
  /\ HandshakeEnds(c) \/ HandlerStep(c) \/ Probe(c) \/ PeerGone(c) \/ ConnLost(c)
  /\ UNCHANGED <<revVars, sweepVars>>

\* Faulty variant: revocation is a matter for authentication alone.
SnapshotNothing ==
  /\ wpc = "sweep"
  /\ ~taken
  /\ taken' = TRUE
  /\ todo' = {}
  /\ due' = {}
  /\ UNCHANGED <<vars, revVars>>

\* sweep: registry.connections() under its lock, then revoked(fp) for each. Only
\* this goroutine writes the set, so the answers are the ones of this moment.
Snapshot ==
  /\ wpc = "sweep"
  /\ ~taken
  /\ taken' = TRUE
  /\ todo' = {c \in Connections : Barred(c)}
  /\ due' = {c \in Conns : open[c] /\ names[c] # {} /\ Barred(c)}
  /\ UNCHANGED <<vars, revVars>>

\* conn.Close() on one of them.
DropBarred(c) ==
  /\ c \in todo
  /\ open' = [open EXCEPT ![c] = FALSE]
  /\ todo' = todo \ {c}
  /\ UNCHANGED <<reg, book, pc, cert, peer, names, victim, reported>>
  /\ UNCHANGED <<revVars, taken, due>>

EndSweep ==
  /\ taken
  /\ todo = {}
  /\ taken' = FALSE
  /\ Rev!SweepDone
  /\ UNCHANGED <<vars, todo, due>>

Watch ==
  \/ Rev!Reloading /\ UNCHANGED <<vars, sweepVars>>
  \/ Snapshot
  \/ \E c \in Conns : DropBarred(c)
  \/ EndSweep

RANext ==
  \/ \E c \in Conns, x \in Certs : AuthenticateUnbarred(c, x)
  \/ \E c \in Conns : AgentStep(c)
  \/ Rev!Commands /\ UNCHANGED <<vars, sweepVars>>
  \/ Watch

RASpec == RAInit /\ [][RANext]_allVars

\* The watch goroutine, the handlers, their probes and the handshake deadline
\* all make progress, and a well-formed file is not unreadable for ever; agents
\* and operators need not do anything.
RAFairSpec ==
  /\ RASpec
  /\ WF_allVars(Watch)
  /\ SF_allVars(Rev!Read /\ UNCHANGED <<vars, sweepVars>>)
  /\ \A c \in Conns :
       /\ WF_allVars(HandshakeEnds(c) /\ UNCHANGED <<revVars, sweepVars>>)
       /\ WF_allVars(HandlerStep(c) /\ UNCHANGED <<revVars, sweepVars>>)
       /\ WF_allVars(Probe(c) /\ UNCHANGED <<revVars, sweepVars>>)

-----------------------------------------------------------------------------
(* Properties.                                                                 *)

\* A sweep misses nobody: a barred agent whose handler had registered it when
\* the sweep looked is closed when the sweep is over, or about to be closed by
\* the connection that replaced it. It rests on the registry never losing sight
\* of a live connection.
SweepMissesNobody ==
  wpc = "sleep" =>
    \A c \in due : open[c] => \E d \in Conns : victim[d] = c

\* A key that stays in a well-formed revoked_keys ends up with no connection at
\* all: not one that was established, nor one that was authenticating when the
\* file changed.
RevokedAgentIsDropped ==
  \A k \in Machines :
    <>[](k \in entries /\ good) =>
      <>[](\A c \in Conns : open[c] => cert[c].fp # k)
=============================================================================
