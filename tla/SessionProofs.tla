---------------------------- MODULE SessionProofs ----------------------------
(* Proofs about a user's session: the tunnel on the proxy (Tunnel) and the      *)
(* agent's end of it (EmbeddedServer), for any number of jumps and of sessions  *)
(* inside one. Both come down to who is where: which goroutine still holds a    *)
(* channel, and what each has seen by the time it moves on.                     *)
EXTENDS Tunnel, EmbeddedServer, TLAPS

\* At each step of serveJump: what became of OpenChannel, and whose the tunnel is.
JumpPhase(j) ==
  /\ jpc[j] = "lookup" => opener[j] = "none" /\ tun[j] = "none" /\ ~discarder[j]
  /\ jpc[j] = "select" => opener[j] # "none" /\ ~discarder[j]
  /\ jpc[j] \in {"accept", "pipe"} => opener[j] = "none" /\ tun[j] = "open" /\ ~discarder[j]
  /\ jpc[j] = "done" => (discarder[j] <=> opener[j] # "none")
  /\ jpc[j] = "done" /\ tun[j] = "open" => opener[j] = "ok"
  /\ opener[j] = "calling" => tun[j] = "none"
  /\ opener[j] = "ok" => tun[j] = "open"
  /\ opener[j] = "err" => tun[j] # "open"

\* The copy of the agent's output ends for a reason.
OutPhase(j) ==
  /\ jpc[j] \in {"lookup", "select", "accept"} => ~outDone[j]
  /\ jpc[j] = "pipe" /\ outDone[j] =>
       user[j] = "closed" \/ agent = "down" \/ (agentEOF[j] /\ ~out[j])

TunnelInv == TunnelTypeOK /\ \A j \in Jumps : JumpPhase(j) /\ OutPhase(j)

-----------------------------------------------------------------------------
LEMMA TunnelInvInit == TunnelInit => TunnelInv
BY DEF TunnelInit, TunnelInv, TunnelTypeOK, JumpPhase, OutPhase

\* serveJump and openTunnel.
LEMMA JumpKeeps ==
  ASSUME TunnelInv, NEW j \in Jumps,
         \/ NotFound(j) \/ Found(j) \/ OpenOK(j) \/ OpenErr(j) \/ ResultOK(j)
         \/ ResultErr(j) \/ Timeout(j) \/ Discard(j) \/ Accept(j) \/ AcceptFails(j)
  PROVE  TunnelInv'
<1> USE DEF TunnelInv, ends
<1>1. CASE NotFound(j) \/ ResultErr(j) \/ Timeout(j)
  <2>1. TunnelTypeOK'
    BY <1>1 DEF NotFound, ResultErr, Timeout, Reject, TunnelTypeOK
  <2> QED
    BY <1>1, <2>1 DEF NotFound, ResultErr, Timeout, Reject, TunnelTypeOK, JumpPhase, OutPhase
<1>2. CASE Found(j)
  BY <1>2 DEF Found, TunnelTypeOK, JumpPhase, OutPhase
<1>3. CASE OpenOK(j) \/ OpenErr(j)
  BY <1>3 DEF OpenOK, OpenErr, TunnelTypeOK, JumpPhase, OutPhase
<1>4. CASE ResultOK(j)
  BY <1>4 DEF ResultOK, TunnelTypeOK, JumpPhase, OutPhase
<1>5. CASE Discard(j)
  BY <1>5 DEF Discard, TunnelTypeOK, JumpPhase, OutPhase
<1>6. CASE Accept(j) \/ AcceptFails(j)
  BY <1>6 DEF Accept, AcceptFails, TunnelTypeOK, JumpPhase, OutPhase
<1> QED
  BY <1>1, <1>2, <1>3, <1>4, <1>5, <1>6

\* Pipe, and the two ends.
LEMMA PipeKeeps ==
  ASSUME TunnelInv, NEW j \in Jumps,
         \/ CopyOut(j) \/ OutEnds(j) \/ InEnds(j) \/ InFails(j) \/ PipeDone(j)
         \/ AgentWrites(j) \/ AgentEnds(j) \/ UserEnds(j) \/ UserGone(j) \/ NextJump(j)
  PROVE  TunnelInv'
<1> USE DEF TunnelInv, ends
<1>1. CASE CopyOut(j) \/ AgentWrites(j)
  <2>1. TunnelTypeOK'
    BY <1>1 DEF CopyOut, AgentWrites, TunnelTypeOK
  <2>2. \A i \in Jumps : JumpPhase(i)'
    BY <1>1 DEF CopyOut, AgentWrites, JumpPhase
  <2>3. \A i \in Jumps : i # j => OutPhase(i)'
    BY <1>1 DEF CopyOut, AgentWrites, TunnelTypeOK, OutPhase
  <2>4. OutPhase(j)'
    BY <1>1 DEF CopyOut, AgentWrites, TunnelTypeOK, OutPhase
  <2> QED
    BY <2>1, <2>2, <2>3, <2>4
<1>2. CASE OutEnds(j)
  <2>1. TunnelTypeOK'
    BY <1>2 DEF OutEnds, TunnelTypeOK
  <2> QED
    BY <1>2, <2>1 DEF OutEnds, Copying, TunnelTypeOK, JumpPhase, OutPhase
<1>3. CASE InEnds(j) \/ InFails(j) \/ UserEnds(j)
  <2>1. UNCHANGED <<agent, jpc, user, tun, opener, discarder, agentEOF, out, outDone>>
    BY <1>3 DEF InEnds, InFails, UserEnds
  <2>2. TunnelTypeOK'
    BY <1>3, <2>1 DEF InEnds, InFails, UserEnds, TunnelTypeOK
  <2> QED
    BY <2>1, <2>2 DEF JumpPhase, OutPhase
<1>4. CASE PipeDone(j)
  BY <1>4 DEF PipeDone, Copying, TunnelTypeOK, JumpPhase, OutPhase
<1>5. CASE AgentEnds(j)
  <2>1. TunnelTypeOK'
    BY <1>5 DEF AgentEnds, TunnelTypeOK
  <2>2. \A i \in Jumps : agentEOF[i] => agentEOF'[i]
    BY <1>5 DEF AgentEnds, TunnelTypeOK
  <2> QED
    BY <1>5, <2>1, <2>2 DEF AgentEnds, JumpPhase, OutPhase
<1>6. CASE UserGone(j)
  <2>1. TunnelTypeOK'
    BY <1>6 DEF UserGone, TunnelTypeOK
  <2>2. \A i \in Jumps : user[i] = "closed" => user'[i] = "closed"
    BY <1>6 DEF UserGone, TunnelTypeOK
  <2> QED
    BY <1>6, <2>1, <2>2 DEF UserGone, JumpPhase, OutPhase
<1>7. CASE NextJump(j)
  BY <1>7 DEF NextJump, TunnelTypeOK, JumpPhase, OutPhase
<1> QED
  BY <1>1, <1>2, <1>3, <1>4, <1>5, <1>6, <1>7

LEMMA TunnelInvNext == TunnelInv /\ [TunnelNext]_tvars => TunnelInv'
<1> SUFFICES ASSUME TunnelInv, [TunnelNext]_tvars PROVE TunnelInv'
  OBVIOUS
<1>1. CASE \E j \in Jumps : Proxy(j) \/ Timeout(j) \/ Outside(j)
  BY <1>1, JumpKeeps, PipeKeeps DEF Proxy, Outside
<1>2. CASE AgentGoesSilent \/ AgentDown
  BY <1>2 DEF AgentGoesSilent, AgentDown, ends, TunnelInv, TunnelTypeOK, JumpPhase, OutPhase
<1>3. CASE UNCHANGED tvars
  BY <1>3 DEF tvars, TunnelInv, TunnelTypeOK, JumpPhase, OutPhase
<1> QED
  BY <1>1, <1>2, <1>3 DEF TunnelNext

\* Every jump is always in one of serveJump's phases.
THEOREM TunnelInvariance == TunnelSpec => []TunnelInv
BY TunnelInvInit, TunnelInvNext, PTL DEF TunnelSpec

\* Type correctness of every jump.
THEOREM TunnelTypeCorrect == TunnelSpec => []TunnelTypeOK
BY TunnelInvariance, PTL DEF TunnelInv

\* However the answer to OpenChannel and tunnelOpenTimeout race each other, an
\* open tunnel channel is the running jump's, or the goroutine's that openTunnel
\* leaves behind to close it.
THEOREM TunnelsAreOwned == TunnelSpec => []TunnelHasOwner
<1>1. TunnelInv => TunnelHasOwner
  BY DEF TunnelInv, TunnelTypeOK, JumpPhase, TunnelHasOwner
<1> QED
  BY <1>1, TunnelInvariance, PTL

\* Pipe closes both channels only after both copies have ended, and so cuts off
\* no output of an agent that is up towards a user who is there.
THEOREM PipeTruncatesNothing == TunnelSpec => NoTruncation
<1>1. TunnelInv /\ [TunnelNext]_tvars =>
        [\A j \in Jumps :
           jpc[j] = "pipe" /\ jpc'[j] = "done" /\ user[j] = "open" /\ agent = "up"
             => agentEOF[j] /\ ~out[j]]_tvars
  <2> SUFFICES ASSUME TunnelInv, TunnelNext, NEW j \in Jumps,
                      jpc[j] = "pipe", jpc'[j] = "done", user[j] = "open", agent = "up"
               PROVE  agentEOF[j] /\ ~out[j]
    OBVIOUS
  <2>1. outDone[j]
    BY DEF TunnelNext, Proxy, Outside, Timeout, Reject, NotFound, Found, OpenOK, OpenErr,
           ResultOK, ResultErr, Discard, Accept, AcceptFails, Copying, CopyOut, OutEnds,
           InEnds, InFails, PipeDone, AgentWrites, AgentEnds, UserEnds, UserGone, NextJump,
           AgentGoesSilent, AgentDown, ends, TunnelInv, TunnelTypeOK
  <2> QED
    BY <2>1 DEF TunnelInv, OutPhase
<1> QED
  BY <1>1, TunnelInvariance, PTL DEF TunnelSpec, NoTruncation
-----------------------------------------------------------------------------
(* The embedded server. A session is its own affair except for the tunnel it    *)
(* goes through, which closes for good.                                         *)

\* What the output copy has seen by the time it ends: a terminal that was closed,
\* a channel that was, or all there was of a process that has exited.
CopyOver(x, up) ==
  \/ ~x.tty
  \/ ~up
  \/ ~x.out /\ x.proc \in {"exited", "reaped"}

SessionSound(x, up) ==
  /\ x.loop = "none" => ~x.started
  /\ ~x.started => x.proc = "none" /\ x.sftp = "none"
  /\ x.proc = "none" \/ x.sftp = "none"
  /\ x.proc = "none" => x.waiter = "none" /\ ~x.drained
  /\ x.waiter = "close" => x.drained
  /\ x.drained => CopyOver(x, up)

ESInv ==
  /\ ESTypeOK
  /\ hpc = "serving" => hsDone
  /\ \A s \in Sessions : SessionSound(sess[s], Up(s))

LEMMA ESInvInit == ESInit => ESInv
<1> SUFFICES ASSUME ESInit PROVE ESInv
  OBVIOUS
<1>1. ESTypeOK
  BY DEF ESInit, ESTypeOK, Session
<1> QED
  BY <1>1 DEF ESInit, ESInv, SessionSound

\* serveEmbedded, its timer and the client: the sessions are left as they are,
\* and the tunnel never opens again.
LEMMA HandshakeKeeps ==
  ASSUME ESInv,
         \/ Serve \/ Timer \/ HandshakeOK \/ HandshakeErr
         \/ ClientLeaves \/ ClientFallsSilent
  PROVE  ESInv'
<1> USE DEF ESInv
<1>1. ESTypeOK' /\ sess' = sess /\ (link' => link)
  BY DEF ESTypeOK, Serve, Timer, LoadFails, Arm, Record, ServingEnds, HandshakeErr,
         HandshakeOK, TimerFires, TimerRuns, ClientLeaves, ClientFallsSilent
<1>2. hpc' = "serving" => hsDone'
  BY DEF ESTypeOK, Serve, Timer, LoadFails, Arm, Record, ServingEnds, HandshakeErr,
         HandshakeOK, TimerFires, TimerRuns, ClientLeaves, ClientFallsSilent
<1>3. \A s \in Sessions : SessionSound(sess[s], Up(s))'
  BY <1>1 DEF SessionSound, CopyOver, Up
<1> QED
  BY <1>1, <1>2, <1>3

\* A step of one session: it is enough that the session's own record stays sound.
LEMMA OneSession ==
  ASSUME ESInv, NEW s \in Sessions, NEW x \in Session,
         sess' = [sess EXCEPT ![s] = x], UNCHANGED handshake,
         SessionSound(x, link /\ x.ch)
  PROVE  ESInv'
<1> USE DEF ESInv, handshake
<1>1. ESTypeOK'
  BY DEF ESTypeOK
<1>2. ASSUME NEW t \in Sessions
      PROVE  SessionSound(sess[t], Up(t))'
  <2>1. CASE t = s
    BY <2>1 DEF ESTypeOK, Up
  <2>2. CASE t # s
    BY <2>2 DEF ESTypeOK, Up
  <2> QED
    BY <2>1, <2>2
<1> QED
  BY <1>1, <1>2

\* serveSession's requests and its ways out.
LEMMA RequestsKeep ==
  ASSUME ESInv, NEW s \in Sessions,
         \/ OpenSession(s) \/ Requests(s) \/ LoopEnds(s) \/ SftpEnds(s) \/ ClientCloses(s)
  PROVE  ESInv'
<1> DEFINE x == sess[s]
<1>0. x \in Session /\ SessionSound(x, link /\ x.ch)
  BY DEF ESInv, ESTypeOK, Up
<1>1. CASE OpenSession(s)
  <2> DEFINE y == [x EXCEPT !.loop = "running", !.ch = TRUE]
  <2>1. y \in Session /\ SessionSound(y, link /\ y.ch)
    BY <1>0, <1>1 DEF OpenSession, Session, SessionSound, CopyOver
  <2>2. sess' = [sess EXCEPT ![s] = y]
    BY <1>1 DEF OpenSession, ESInv, ESTypeOK
  <2> QED
    BY <1>1, <2>1, <2>2, OneSession DEF OpenSession
<1>2. CASE StartShell(s)
  <2> DEFINE y == [x EXCEPT !.started = TRUE, !.proc = "running",
                           !.tty = TRUE, !.waiter = "wait"]
  <2>1. y \in Session /\ SessionSound(y, link /\ y.ch)
    BY <1>0, <1>2 DEF StartShell, Session, SessionSound, CopyOver
  <2>2. sess' = [sess EXCEPT ![s] = y]
    BY <1>2 DEF StartShell, ESInv, ESTypeOK
  <2> QED
    BY <1>2, <2>1, <2>2, OneSession DEF StartShell
<1>3. CASE StartFails(s)
  <2> DEFINE y == [x EXCEPT !.started = TRUE]
  <2>1. y \in Session /\ SessionSound(y, link /\ y.ch)
    BY <1>0, <1>3 DEF StartFails, Session, SessionSound, CopyOver
  <2>2. sess' = [sess EXCEPT ![s] = y]
    BY <1>3 DEF StartFails, ESInv, ESTypeOK
  <2> QED
    BY <1>3, <2>1, <2>2, OneSession DEF StartFails
<1>4. CASE Subsystem(s)
  <2> DEFINE y == [x EXCEPT !.started = TRUE, !.sftp = "serving"]
  <2>1. y \in Session /\ SessionSound(y, link /\ y.ch)
    BY <1>0, <1>4 DEF Subsystem, Session, SessionSound, CopyOver
  <2>2. sess' = [sess EXCEPT ![s] = y]
    BY <1>4 DEF Subsystem, ESInv, ESTypeOK
  <2> QED
    BY <1>4, <2>1, <2>2, OneSession DEF Subsystem
<1>5. CASE SubsystemRefused(s)
  <2> DEFINE y == [x EXCEPT !.loop = "over", !.started = TRUE, !.ch = FALSE,
                           !.tty = FALSE, !.hup = (x.proc # "none")]
  <2>1. y \in Session /\ SessionSound(y, link /\ y.ch)
    BY <1>0, <1>5 DEF SubsystemRefused, Cleanup, Session, SessionSound, CopyOver
  <2>2. sess' = [sess EXCEPT ![s] = y]
    BY <1>5 DEF SubsystemRefused, Cleanup, ESInv, ESTypeOK
  <2> QED
    BY <1>5, <2>1, <2>2, OneSession DEF SubsystemRefused, Cleanup
<1>6. CASE LoopEnds(s)
  <2> DEFINE y == [x EXCEPT !.loop = "over", !.started = TRUE, !.ch = FALSE,
                           !.tty = FALSE, !.hup = (x.proc # "none")]
  <2>1. y \in Session /\ SessionSound(y, link /\ y.ch)
    BY <1>0, <1>6 DEF LoopEnds, Cleanup, Session, SessionSound, CopyOver
  <2>2. sess' = [sess EXCEPT ![s] = y]
    BY <1>6 DEF LoopEnds, Cleanup, ESInv, ESTypeOK
  <2> QED
    BY <1>6, <2>1, <2>2, OneSession DEF LoopEnds, Cleanup
<1>7. CASE SftpEnds(s)
  <2> DEFINE y == [x EXCEPT !.sftp = "over", !.ch = FALSE]
  <2>1. y \in Session /\ SessionSound(y, link /\ y.ch)
    BY <1>0, <1>7 DEF SftpEnds, Session, SessionSound, CopyOver
  <2>2. sess' = [sess EXCEPT ![s] = y]
    BY <1>7 DEF SftpEnds, ESInv, ESTypeOK
  <2> QED
    BY <1>7, <2>1, <2>2, OneSession DEF SftpEnds
<1>8. CASE ClientCloses(s)
  <2> DEFINE y == [x EXCEPT !.ch = FALSE]
  <2>1. y \in Session /\ SessionSound(y, link /\ y.ch)
    BY <1>0, <1>8 DEF ClientCloses, Session, SessionSound, CopyOver
  <2>2. sess' = [sess EXCEPT ![s] = y]
    BY <1>8 DEF ClientCloses, ESInv, ESTypeOK
  <2> QED
    BY <1>8, <2>1, <2>2, OneSession DEF ClientCloses
<1> QED
  BY <1>1, <1>2, <1>3, <1>4, <1>5, <1>6, <1>7, <1>8 DEF Requests

\* The shell, the copy of its output and the goroutine that waits for it.
LEMMA ShellKeeps ==
  ASSUME ESInv, NEW s \in Sessions,
         \/ ProcWrites(s) \/ (\E job \in BOOLEAN : ProcExits(s, job)) \/ Copy(s) \/ Waiter(s)
  PROVE  ESInv'
<1> DEFINE x == sess[s]
<1>0. x \in Session /\ SessionSound(x, link /\ x.ch)
  BY DEF ESInv, ESTypeOK, Up
<1>1. CASE ProcWrites(s)
  <2> DEFINE y == [x EXCEPT !.out = TRUE]
  <2>1. y \in Session /\ SessionSound(y, link /\ y.ch)
    BY <1>0, <1>1 DEF ProcWrites, Session, SessionSound, CopyOver
  <2>2. sess' = [sess EXCEPT ![s] = y]
    BY <1>1 DEF ProcWrites, ESInv, ESTypeOK
  <2> QED
    BY <1>1, <2>1, <2>2, OneSession DEF ProcWrites
<1>2. CASE CopyOutput(s)
  <2> DEFINE y == [x EXCEPT !.out = FALSE]
  <2>1. y \in Session /\ SessionSound(y, link /\ y.ch)
    BY <1>0, <1>2 DEF CopyOutput, Session, SessionSound, CopyOver, Up
  <2>2. sess' = [sess EXCEPT ![s] = y]
    BY <1>2 DEF CopyOutput, ESInv, ESTypeOK
  <2> QED
    BY <1>2, <2>1, <2>2, OneSession DEF CopyOutput
<1>3. CASE CopyEnds(s)
  <2> DEFINE y == [x EXCEPT !.drained = TRUE]
  <2>1. y \in Session /\ SessionSound(y, link /\ y.ch)
    BY <1>0, <1>3 DEF CopyEnds, Session, SessionSound, CopyOver, Up
  <2>2. sess' = [sess EXCEPT ![s] = y]
    BY <1>3 DEF CopyEnds, ESInv, ESTypeOK
  <2> QED
    BY <1>3, <2>1, <2>2, OneSession DEF CopyEnds
<1>4. CASE Reap(s)
  <2> DEFINE y == [x EXCEPT !.proc = "reaped", !.waiter = "drain"]
  <2>1. y \in Session /\ SessionSound(y, link /\ y.ch)
    BY <1>0, <1>4 DEF Reap, Session, SessionSound, CopyOver
  <2>2. sess' = [sess EXCEPT ![s] = y]
    BY <1>4 DEF Reap, ESInv, ESTypeOK
  <2> QED
    BY <1>4, <2>1, <2>2, OneSession DEF Reap
<1>5. CASE Drained(s)
  <2> DEFINE y == [x EXCEPT !.waiter = "close"]
  <2>1. y \in Session /\ SessionSound(y, link /\ y.ch)
    BY <1>0, <1>5 DEF Drained, Session, SessionSound, CopyOver
  <2>2. sess' = [sess EXCEPT ![s] = y]
    BY <1>5 DEF Drained, ESInv, ESTypeOK
  <2> QED
    BY <1>5, <2>1, <2>2, OneSession DEF Drained
<1>6. CASE DrainTimeout(s)
  <2> DEFINE y == [x EXCEPT !.waiter = "closeAnyway"]
  <2>1. y \in Session /\ SessionSound(y, link /\ y.ch)
    BY <1>0, <1>6 DEF DrainTimeout, Session, SessionSound, CopyOver
  <2>2. sess' = [sess EXCEPT ![s] = y]
    BY <1>6 DEF DrainTimeout, ESInv, ESTypeOK
  <2> QED
    BY <1>6, <2>1, <2>2, OneSession DEF DrainTimeout
<1>7. CASE SendExit(s)
  <2> DEFINE y == [x EXCEPT !.waiter = "done", !.ch = FALSE]
  <2>1. y \in Session /\ SessionSound(y, link /\ y.ch)
    BY <1>0, <1>7 DEF SendExit, Session, SessionSound, CopyOver
  <2>2. sess' = [sess EXCEPT ![s] = y]
    BY <1>7 DEF SendExit, ESInv, ESTypeOK
  <2> QED
    BY <1>7, <2>1, <2>2, OneSession DEF SendExit
<1>8. ASSUME NEW job \in BOOLEAN, ProcExits(s, job)
      PROVE  ESInv'
  <2> DEFINE y == [x EXCEPT !.proc = "exited", !.held = job]
  <2>1. y \in Session /\ SessionSound(y, link /\ y.ch)
    BY <1>0, <1>8 DEF ProcExits, Session, SessionSound, CopyOver
  <2>2. sess' = [sess EXCEPT ![s] = y]
    BY <1>8 DEF ProcExits, ESInv, ESTypeOK
  <2> QED
    BY <1>8, <2>1, <2>2, OneSession DEF ProcExits
<1> QED
  BY <1>1, <1>2, <1>3, <1>4, <1>5, <1>6, <1>7, <1>8 DEF Copy, Waiter

LEMMA ESInvNext == ESInv /\ [ESNext]_esVars => ESInv'
<1> SUFFICES ASSUME ESInv, [ESNext]_esVars PROVE ESInv'
  OBVIOUS
<1>1. CASE UNCHANGED esVars
  BY <1>1 DEF esVars, ESInv, ESTypeOK, SessionSound, CopyOver, Up
<1> QED
  BY <1>1, HandshakeKeeps, RequestsKeep, ShellKeeps DEF ESNext, ClientAndShell

\* Every session's record is always sound, whatever ends first.
THEOREM ESInvariance == ESSpec => []ESInv
BY ESInvInit, ESInvNext, PTL DEF ESSpec

\* Type correctness of the embedded server and its sessions.
THEOREM ESTypeCorrect == ESSpec => []ESTypeOK
BY ESInvariance, PTL DEF ESInv

\* A session channel carries a shell or an sftp server and never both, whichever
\* requests come in which order: serveSession's one "started" flag for all three.
THEOREM ChannelsServeOneThing == ESSpec => []OneServicePerChannel
<1>1. ESInv => OneServicePerChannel
  BY DEF ESInv, SessionSound, OneServicePerChannel
<1> QED
  BY <1>1, ESInvariance, PTL

\* The timer's goroutine, however late it gets the lock, closes no tunnel whose
\* handshake has been recorded: only the client's going ends one that is served.
THEOREM TimerSparesTheServed == ESSpec => ServedOutlivesTimer
<1>1. ESInv /\ [ESNext]_esVars => [hpc = "serving" /\ link /\ ~link' => ~client']_esVars
  <2> SUFFICES ASSUME ESInv, ESNext, hpc = "serving", link, ~link'
               PROVE  ~client'
    OBVIOUS
  <2>1. hsDone
    BY DEF ESInv
  <2>2. ClientLeaves
    BY <2>1 DEF ESNext, Serve, Timer, LoadFails, Arm, Record, ServingEnds, HandshakeErr,
       HandshakeOK, TimerFires, TimerRuns, ClientFallsSilent, ClientAndShell, Requests, Copy,
       Waiter, OpenSession, ClientCloses, ProcWrites, ProcExits, StartShell, StartFails,
       Subsystem, SubsystemRefused, LoopEnds, SftpEnds, CopyOutput, CopyEnds, Reap, Drained,
       DrainTimeout, SendExit, handshake
  <2> QED
    BY <2>2 DEF ClientLeaves
<1> QED
  BY <1>1, ESInvariance, PTL DEF ESSpec, ServedOutlivesTimer

\* The goroutine that waits for a command sends its exit status only when the
\* output copy has ended, and to a client that is there the copy ends only with
\* the output, unless the wait for it was given up (outputDrainTimeout).
THEOREM OutputComesFirst == ESSpec => OutputBeforeExit
<1>1. ESInv =>
        [\A s \in Sessions :
           /\ sess[s].waiter = "close" /\ sess'[s].waiter = "done"
           /\ Up(s) /\ sess[s].tty
           => ~sess[s].out]_esVars
  <2> SUFFICES ASSUME ESInv, NEW s \in Sessions, sess[s].waiter = "close", Up(s), sess[s].tty
               PROVE  ~sess[s].out
    OBVIOUS
  <2>1. SessionSound(sess[s], Up(s))
    BY DEF ESInv
  <2>2. CopyOver(sess[s], Up(s))
    BY <2>1 DEF SessionSound
  <2> QED
    BY <2>2 DEF CopyOver
<1> QED
  BY <1>1, ESInvariance, PTL DEF OutputBeforeExit
=============================================================================
