------------------------------- MODULE Agent -------------------------------
(* The agent's process: what it loads and checks at the start, and the loop     *)
(* that keeps one registration with a proxy (another proxy has a loop of its    *)
(* own): dial, handshake, serve until the connection dies, sleep, again; and    *)
(* the keepalive goroutine of each session, which lasts until its next tick.    *)
EXTENDS Integers, Sequences

CONSTANTS
  MinBackoff, MaxBackoff,  \* bounds of the delay
  HealthySession,          \* how long a session lasts to reset it
  Keepalive,               \* ticker of the keepalive goroutine
  Keys,                    \* host keys, in the order they are made: 1, 2, ...
  None

ASSUME AgentAssumption ==
  /\ MinBackoff \in Nat /\ MaxBackoff \in Nat /\ 2 <= MinBackoff /\ MinBackoff <= MaxBackoff
  /\ HealthySession \in Nat /\ Keepalive \in Nat \ {0}
  /\ None \notin Keys

VARIABLES
  disk,       \* host: the key file; cert: the key its name was derived from
  unused,     \* keys not made yet
  lost,       \* history: keys whose file was lost
  hostKey,    \* the key the running agent serves with
  canonical,  \* the key its name was derived from
  pc,         \* where maintain is
  backoff,
  wait,       \* what is left of the sleep
  age,        \* since the session was begun, up to HealthySession
  dead,       \* the connection is half open: nothing comes from the other side
  keeper,     \* the session's keepalive: time to its next tick, or "asking"
  leftover,   \* the same of the sessions before, none of which is asking
  reachable   \* the proxy is there, and takes this agent

identity == <<disk, unused, lost, hostKey, canonical>>
session == <<pc, backoff, wait, age, dead, keeper, leftover>>
agentVars == <<identity, session, reachable>>

NoKeeper == -1
Asking == -2

AgentTypeOK ==
  /\ disk \in [host : Keys \cup {None}, cert : Keys \cup {None}]
  /\ unused \subseteq Keys /\ lost \subseteq Keys
  /\ hostKey \in Keys \cup {None} /\ canonical \in Keys \cup {None}
  /\ pc \in {"off", "dial", "handshake", "up", "sleep"}
  /\ backoff \in Nat /\ wait \in Nat /\ age \in 0..HealthySession
  /\ dead \in BOOLEAN /\ reachable \in BOOLEAN
  /\ keeper \in {NoKeeper, Asking} \cup 0..Keepalive
  /\ leftover \in Seq(0..Keepalive)

AgentInit ==
  /\ disk = [host |-> None, cert |-> None]
  /\ unused = Keys /\ lost = {}
  /\ hostKey = None /\ canonical = None
  /\ pc = "off" /\ backoff = MinBackoff /\ wait = 0 /\ age = 0
  /\ dead = FALSE /\ keeper = NoKeeper /\ leftover = <<>>
  /\ reachable \in BOOLEAN

-----------------------------------------------------------------------------
(* main, and the files it reads.                                                *)

\* The host key that is loaded, and made if there is none.
LoadOrCreateHostKey(k) ==
  IF disk.host # None
  THEN k = disk.host /\ UNCHANGED <<disk, unused>>
  ELSE /\ k \in unused
       /\ disk' = [host |-> k, cert |-> disk.cert]
       /\ unused' = unused \ {k}

\* The certificate is there and names this host key: maintain begins.
Start ==
  /\ pc = "off"
  /\ \E k \in Keys : LoadOrCreateHostKey(k) /\ hostKey' = k /\ disk.cert = k
  /\ canonical' = disk.cert
  /\ pc' = "dial" /\ backoff' = MinBackoff /\ age' = 0
  /\ UNCHANGED <<lost, wait, dead, keeper, leftover, reachable>>

\* It is not there or names another, or -show-keys was given, which may be while
\* the agent runs: the process exits, with its keys made.
StartEnds ==
  /\ \E k \in Keys : LoadOrCreateHostKey(k)
  /\ UNCHANGED <<lost, hostKey, canonical, session, reachable>>

\* Faulty variant: an installer that begins with a new key.
EnrolAnew ==
  \E k \in unused :
    /\ disk' = [host |-> k, cert |-> k]
    /\ unused' = unused \ {k}
    /\ UNCHANGED <<lost, hostKey, canonical, session, reachable>>

\* The installer, run for the first time or again, under an agent that may be
\* running: it enrols the machine under the host key that is there, and makes
\* one if there is none. The certificate is truncated before it is written, and
\* an installer that is killed in between leaves none.
Enrol ==
  \E k \in Keys :
    /\ IF disk.host = None THEN k \in unused ELSE k = disk.host
    /\ unused' = unused \ {k}
    /\ \E c \in {k, None} : disk' = [host |-> k, cert |-> c]
    /\ UNCHANGED <<lost, hostKey, canonical, session, reachable>>

\* The key file is lost, under an agent that may be running.
LoseHostKey ==
  /\ disk.host # None /\ unused # {}
  /\ lost' = lost \cup {disk.host}
  /\ disk' = [host |-> None, cert |-> disk.cert]
  /\ UNCHANGED <<unused, hostKey, canonical, session, reachable>>

\* The process ends, by an update or a reboot, and all it has with it.
Stop ==
  /\ pc # "off"
  /\ hostKey' = None /\ canonical' = None
  /\ pc' = "off" /\ backoff' = MinBackoff /\ wait' = 0 /\ age' = 0
  /\ dead' = FALSE /\ keeper' = NoKeeper /\ leftover' = <<>>
  /\ UNCHANGED <<disk, unused, lost, reachable>>

-----------------------------------------------------------------------------
(* session, in maintain's loop.                                                 *)

\* session has returned: a session that lasted resets the delay, and maintain
\* sleeps for it and up to half as much again. The keepalive is left to itself,
\* unless the end of the connection is the answer it was waiting for.
Disconnected ==
  LET b == IF age >= HealthySession THEN MinBackoff ELSE backoff IN
  /\ backoff' = b
  /\ \E jitter \in 0..(b \div 2 - 1) : wait' = b + jitter
  /\ pc' = "sleep"
  /\ leftover' = IF keeper >= 0 THEN Append(leftover, keeper) ELSE leftover
  /\ keeper' = NoKeeper
  /\ dead' = FALSE
  /\ UNCHANGED <<age, identity, reachable>>

DialErr ==
  /\ pc = "dial" /\ ~reachable
  /\ Disconnected

DialOK ==
  /\ pc = "dial" /\ reachable
  /\ pc' = "handshake"
  /\ UNCHANGED <<backoff, wait, age, dead, keeper, leftover, identity, reachable>>

\* The proxy refuses the agent or goes away; a half-open connection ends only
\* when TCP gives it up, since NewClientConn has no deadline.
HandshakeErr ==
  /\ pc = "handshake"
  /\ ~reachable \/ dead
  /\ Disconnected

\* Registered: the host key is reported and the keepalive started.
Registered ==
  /\ pc = "handshake" /\ ~dead
  /\ pc' = "up"
  /\ keeper' = Keepalive
  /\ UNCHANGED <<backoff, wait, age, dead, leftover, identity, reachable>>

\* The connection ends, and Wait returns; a half-open one when TCP gives it up.
ConnLost ==
  /\ pc = "up"
  /\ Disconnected

\* Faulty variants: the delay grows without bound; the delay stays; the agent
\* gives up when the delay is at its longest.
WakeUncapped ==
  /\ pc = "sleep" /\ wait = 0
  /\ backoff' = 2 * backoff
  /\ pc' = "dial" /\ age' = 0
  /\ UNCHANGED <<wait, dead, keeper, leftover, identity, reachable>>

WakeNoBackoff ==
  /\ pc = "sleep" /\ wait = 0
  /\ backoff' = MinBackoff
  /\ pc' = "dial" /\ age' = 0
  /\ UNCHANGED <<wait, dead, keeper, leftover, identity, reachable>>

WakeGivesUp ==
  /\ pc = "sleep" /\ wait = 0
  /\ backoff < MaxBackoff
  /\ backoff' = 2 * backoff
  /\ pc' = "dial" /\ age' = 0
  /\ UNCHANGED <<wait, dead, keeper, leftover, identity, reachable>>

Wake ==
  /\ pc = "sleep" /\ wait = 0
  /\ backoff' = IF backoff < MaxBackoff THEN 2 * backoff ELSE backoff
  /\ pc' = "dial" /\ age' = 0
  /\ UNCHANGED <<wait, dead, keeper, leftover, identity, reachable>>

-----------------------------------------------------------------------------
(* The keepalive goroutines.                                                    *)

\* The tick of a live session is answered; on a half-open one it is not.
KeeperAsks ==
  /\ keeper = 0
  /\ keeper' = IF dead THEN Asking ELSE Keepalive
  /\ UNCHANGED <<pc, backoff, wait, age, dead, leftover, identity, reachable>>

\* The tick after the end fails: it closes its own client once more, and returns.
KeeperReturns ==
  /\ leftover # <<>> /\ Head(leftover) = 0
  /\ leftover' = Tail(leftover)
  /\ UNCHANGED <<pc, backoff, wait, age, dead, keeper, identity, reachable>>

-----------------------------------------------------------------------------
(* The network, and time, which does not pass a timer that is due.              *)

GoSilent ==
  /\ pc \in {"handshake", "up"} /\ ~dead
  /\ dead' = TRUE
  /\ UNCHANGED <<pc, backoff, wait, age, keeper, leftover, identity, reachable>>

ReachableChanges ==
  /\ reachable' = ~reachable
  /\ UNCHANGED <<identity, session>>

Tick ==
  /\ pc # "off"
  /\ pc = "sleep" => wait > 0
  /\ keeper # 0
  /\ \A i \in DOMAIN leftover : leftover[i] > 0
  /\ wait' = IF pc = "sleep" THEN wait - 1 ELSE wait
  /\ age' = IF pc # "sleep" /\ age < HealthySession THEN age + 1 ELSE age
  /\ keeper' = IF keeper > 0 THEN keeper - 1 ELSE keeper
  /\ leftover' = [i \in DOMAIN leftover |-> leftover[i] - 1]
  /\ UNCHANGED <<pc, backoff, dead, identity, reachable>>

Maintain ==
  DialErr \/ DialOK \/ Registered \/ Wake \/ KeeperAsks \/ KeeperReturns

AgentNext ==
  \/ Start \/ StartEnds \/ Enrol \/ LoseHostKey \/ Stop
  \/ Maintain \/ HandshakeErr \/ ConnLost
  \/ GoSilent \/ ReachableChanges \/ Tick

AgentSpec == AgentInit /\ [][AgentNext]_agentVars

\* The loop runs, timers fire, and TCP gives up a half-open connection.
AgentFairSpec ==
  /\ AgentSpec
  /\ WF_agentVars(DialErr) /\ WF_agentVars(DialOK) /\ WF_agentVars(Registered)
  /\ WF_agentVars(Wake) /\ WF_agentVars(KeeperAsks) /\ WF_agentVars(KeeperReturns)
  /\ WF_agentVars(Tick)
  /\ WF_agentVars(dead /\ (HandshakeErr \/ ConnLost))

-----------------------------------------------------------------------------
(* Properties.                                                                  *)

\* A machine keeps its name. An agent serves with the host key its name was
\* derived from, and while it runs that key stays on disk, with a certificate for
\* it if there is one, unless the key file itself is lost: whatever installers and
\* -show-keys run beside it, the next start comes back under the same name, or
\* not at all.
NameSurvives ==
  pc # "off" =>
    /\ hostKey = canonical /\ hostKey # None
    /\ hostKey \in lost \/ (disk.host = hostKey /\ disk.cert \in {hostKey, None})

\* Doubling stops only past maxBackoff, so the delay settles above it, but below
\* twice as much, and with the jitter a sleep is below three times as much.
DelayBounded == backoff < 2 * MaxBackoff /\ wait < 3 * MaxBackoff

\* The shortest delay, doubled k times.
Doubled(k) ==
  LET d[i \in 0..k] == IF i = 0 THEN MinBackoff ELSE 2 * d[i - 1] IN d[k]

\* Sessions that keep failing leave their keepalives behind, each until its next
\* tick; the growing delay keeps them few: the k-th of them within one tick comes
\* after delays of at least MinBackoff, twice that and so on, k - 1 of them, which
\* is Doubled(k - 1) - MinBackoff, or a session lies between that lasted for
\* HealthySession, longer than a tick (60 and 25 seconds).
KeepalivesBounded ==
  \A k \in 1..Len(leftover) : Doubled(k - 1) - MinBackoff <= Keepalive

\* Once the proxy is there for good and the network lets handshakes through, an
\* agent that is left running is always registered again, wherever the outage
\* caught it (maintain "never gives up").
AgentComesBack ==
  <>[](reachable /\ pc # "off" /\ ~(pc = "handshake" /\ dead)) => []<>(pc = "up")
=============================================================================
