----------------------------- MODULE Admission -----------------------------
(* takeConn on both listeners: a slot, the count of recent failures of the      *)
(* address the connection is attributed to, the handshake under its deadline,   *)
(* and the handler; what is deferred runs on every way out. Time passes in      *)
(* units of its own; the deadline of a handshake falls at any of them.          *)
EXTENDS Limiter, FiniteSets

CONSTANTS
  Conns,      \* sockets, used again once they are closed
  Kinds,      \* the listeners
  Forwarded,  \* those behind a reverse proxy, which read X-Forwarded-For
  MaxSlots,   \* connections in flight on each listener; 0 is unlimited
  Front,      \* the address of the reverse proxy, the only trusted one
  MaxClock

ASSUME AdmissionAssumption ==
  /\ Front \in Addrs /\ Forwarded \subseteq Kinds
  /\ MaxSlots \in [Kinds -> Nat] /\ MaxClock \in Nat
  /\ IsFiniteSet(Conns) /\ Conns # {}

VARIABLES
  now,
  conn,          \* the connections
  used,          \* slots taken, per listener
  authFailures,  \* the limiter both listeners share
  failures       \* for the properties: when each client's handshakes failed

admVars == <<now, conn, used, authFailures, failures>>

Clients == Addrs \ {Front}

Conn == [at     : {"check", "handshake", "serving"},
         kind   : Kinds,
         peer   : Addrs,     \* what it is attributed to
         client : Clients]   \* who is really there

Idle == [at |-> "idle"]

AdmTypeOK ==
  /\ now \in 0..MaxClock
  /\ conn \in [Conns -> Conn \cup {Idle}]
  /\ used \in [Kinds -> Nat]
  /\ IsLimiter(authFailures)
  /\ failures \in [Clients -> Seq(Int)]

AdmInit ==
  /\ now = 0
  /\ conn = [c \in Conns |-> Idle]
  /\ used = [k \in Kinds |-> 0]
  /\ authFailures = newLimiter
  /\ failures = [a \in Clients |-> <<>>]

-----------------------------------------------------------------------------
(* The address a connection is attributed to.                                   *)

\* Faulty variant: the leftmost entry, which the client itself may have written.
realClientLeftmost(peer, xff) ==
  IF peer # Front \/ xff = <<>> THEN peer ELSE Head(xff)

\* From a trusted peer the rightmost forwarded entry, from anyone else the peer.
realClientHost(peer, xff) ==
  IF peer # Front \/ xff = <<>> THEN peer ELSE xff[Len(xff)]

\* What may stand in the header before the reverse proxy appends to it.
Forged == {<<>>} \cup {<<a>> : a \in Clients}

\* What a connection of client a may be attributed to: on the user listener the
\* socket's peer; behind the reverse proxy what it forwards, and if the client
\* gets past it, whatever header the client sends itself.
Attributions(k, a) ==
  IF k \in Forwarded
  THEN UNION {{realClientHost(Front, Append(forged, a)), realClientHost(a, forged)} :
              forged \in Forged}
  ELSE {a}

-----------------------------------------------------------------------------
(* takeConn.                                                                    *)

Full(k) == MaxSlots[k] # 0 /\ used[k] >= MaxSlots[k]

take(k) ==
  /\ ~Full(k)
  /\ used' = IF MaxSlots[k] = 0 THEN used ELSE [used EXCEPT ![k] = @ + 1]

give(k) ==
  used' = IF MaxSlots[k] = 0 THEN used ELSE [used EXCEPT ![k] = @ - 1]

Goto(c, pc) == conn' = [conn EXCEPT ![c].at = pc]

\* What is deferred: the slot is given back and the socket closed.
Return(c) ==
  /\ conn' = [conn EXCEPT ![c] = Idle]
  /\ give(conn[c].kind)

\* A socket is accepted and its goroutine gets a slot ...
TakeSlot(c) ==
  /\ conn[c] = Idle
  /\ \E k \in Kinds, a \in Clients :
       /\ take(k)
       /\ \E peer \in Attributions(k, a) :
            conn' = [conn EXCEPT ![c] =
              [at |-> "check", kind |-> k, peer |-> peer, client |-> a]]
  /\ UNCHANGED <<now, authFailures, failures>>

\* Faulty variant: it returns through the deferred give, with no slot taken.
RefuseAndGive(c) ==
  /\ conn[c] = Idle
  /\ \E k \in Kinds : Full(k) /\ give(k)
  /\ UNCHANGED <<now, conn, authFailures, failures>>

\* ... or, with none free, closes it again, before the deferred give is set up.
RefuseSlot(c) ==
  /\ conn[c] = Idle
  /\ \E k \in Kinds : Full(k)
  /\ UNCHANGED admVars

Blocked(a) == count(authFailures, a, now) >= Burst

\* Too many recent failures: refused, and the slot given back.
RefuseBlocked(c) ==
  /\ conn[c].at = "check"
  /\ Blocked(conn[c].peer)
  /\ Return(c)
  /\ UNCHANGED <<now, authFailures, failures>>

\* The deadline is set and the handshake begins.
StartHandshake(c) ==
  /\ conn[c].at = "check"
  /\ ~Blocked(conn[c].peer)
  /\ Goto(c, "handshake")
  /\ UNCHANGED <<now, used, authFailures, failures>>

\* It succeeds: the deadline is cleared and the handler runs, ...
HandshakeOK(c) ==
  /\ conn[c].at = "handshake"
  /\ Goto(c, "serving")
  /\ UNCHANGED <<now, used, authFailures, failures>>

\* Faulty variant: the failure is not counted.
FailsUncounted(c) ==
  /\ Return(c)
  /\ failures' = [failures EXCEPT ![conn[c].client] = Append(@, now)]
  /\ UNCHANGED <<now, authFailures>>

\* The failure is counted, and takeConn returns.
Fails(c) ==
  /\ authFailures' = allow(authFailures, conn[c].peer, now).lim
  /\ Return(c)
  /\ failures' = [failures EXCEPT ![conn[c].client] = Append(@, now)]
  /\ UNCHANGED now

\* ... it is refused or breaks off, ...
HandshakeErr(c) ==
  /\ conn[c].at = "handshake"
  /\ Fails(c)

\* Faulty variant: no deadline.
NoDeadline(c) == FALSE /\ Fails(c)

\* ... or handshakeTimeout has passed.
Deadline(c) ==
  /\ conn[c].at = "handshake"
  /\ Fails(c)

\* The handler returns; the connection is closed with everything else.
HandlerReturns(c) ==
  /\ conn[c].at = "serving"
  /\ Return(c)
  /\ UNCHANGED <<now, authFailures, failures>>

\* Failures older than a window are of no more interest to the properties.
Tick ==
  /\ now < MaxClock
  /\ now' = now + 1
  /\ failures' = [a \in Clients |-> Recent(failures[a], now')]
  /\ UNCHANGED <<conn, used, authFailures>>

CheckFailures(c) == RefuseBlocked(c) \/ StartHandshake(c)

AdmNext ==
  \/ \E c \in Conns : \/ TakeSlot(c) \/ RefuseSlot(c) \/ CheckFailures(c)
                      \/ HandshakeOK(c) \/ HandshakeErr(c) \/ Deadline(c)
                      \/ HandlerReturns(c)
  \/ Tick

AdmSpec == AdmInit /\ [][AdmNext]_admVars

\* Goroutines run and deadlines fire; clients, handlers and time owe nothing.
AdmFairSpec ==
  AdmSpec /\ \A c \in Conns : WF_admVars(CheckFailures(c)) /\ WF_admVars(Deadline(c))

-----------------------------------------------------------------------------
(* Properties.                                                                  *)

HoldsSlot(c) == conn[c].at \in {"check", "handshake", "serving"}

\* A listener's slots are exactly the connections between take and give, however
\* they were refused, failed, timed out or ended: none is lost or given twice
\* (takeConn's deferred limit.give).
SlotsConserved ==
  \A k \in Kinds : MaxSlots[k] # 0 =>
    /\ used[k] = Cardinality({c \in Conns : HoldsSlot(c) /\ conn[c].kind = k})
    /\ used[k] <= MaxSlots[k]

\* The count is read before a handshake and raised after it, and failures past
\* the burst are not recorded: still, an address fails at most so often in one
\* window. Every recorded failure can be followed by those that were in flight
\* with it, and one more such group may reach into the window from before it.
GuessesBounded ==
  \A a \in Clients :
    Len(failures[a]) <= Burst + (Burst + 1) * (Cardinality(Conns) - 1)

\* Only an address that has itself failed Burst times within the last window is
\* turned away for it, whatever stood in the header it sent and however the
\* failures fall to the window's edge (realClientHost, limiter.count).
RefusedOnlyGuessers ==
  [][\A c \in Conns : RefuseBlocked(c) =>
       Len(Recent(failures[conn[c].client], now)) >= Burst]_admVars

\* An address with no event since a window before the last sweep is not in the
\* map, so the map holds no more than two windows' addresses (sweepLocked).
StaleAddressesSwept ==
  \A a \in Addrs : authFailures.seen[a] # <<>> =>
    LET newest == authFailures.seen[a][Len(authFailures.seen[a])]
    IN  newest > authFailures.lastSweep - Window

\* A connection that takes a slot comes to be served or gives it back, though its
\* client may never say a word (SetDeadline(handshakeTimeout)).
SilentClientLetGo ==
  \A c \in Conns :
    conn[c].at \in {"check", "handshake"} ~> conn[c].at \in {"serving", "idle"}
=============================================================================
