--------------------------- MODULE EmbeddedServer ---------------------------
(* The agent's end of a tunnel: serveEmbedded with its handshake timer, and the *)
(* sessions it serves, each with a request loop, a shell on a pseudo-terminal,  *)
(* the copy of its output, the goroutine that waits for it, or an sftp server.  *)
(* Terminal size and the copy of the user's input change none of this.          *)
EXTENDS Integers

CONSTANT Sessions   \* session channels the user opens inside the tunnel

VARIABLES
  hpc,       \* where serveEmbedded is
  timer,     \* hsTimer: "off", "armed", "firing" (its goroutine runs), "spent"
  hsDone,    \* hsDone and timedOut, under hsMu
  timedOut,
  link,      \* the tunnel channel is open
  client,    \* the user's client is at the other end
  sess       \* the sessions

esVars == <<hpc, timer, hsDone, timedOut, link, client, sess>>
handshake == <<hpc, timer, hsDone, timedOut, link, client>>

Session ==
  [loop    : {"none", "running", "over"},        \* serveSession's request loop
   started : BOOLEAN,
   proc    : {"none", "running", "exited", "reaped"},
   hup     : BOOLEAN,                            \* Terminate has signalled it
   tty     : BOOLEAN,                            \* the pseudo-terminal is open
   held    : BOOLEAN,                            \* a job left behind holds it
   out     : BOOLEAN,                            \* output no one has read yet
   drained : BOOLEAN,                            \* the output copy has ended
   waiter  : {"none", "wait", "drain", "close", "closeAnyway", "done"},
   sftp    : {"none", "serving", "over"},
   ch      : BOOLEAN]                            \* the session channel is open

ESTypeOK ==
  /\ hpc \in {"load", "handshake", "ok", "err", "serving", "over"}
  /\ timer \in {"off", "armed", "firing", "spent"}
  /\ hsDone \in BOOLEAN /\ timedOut \in BOOLEAN
  /\ link \in BOOLEAN /\ client \in BOOLEAN
  /\ sess \in [Sessions -> Session]

ESInit ==
  /\ hpc = "load" /\ timer = "off"
  /\ hsDone = FALSE /\ timedOut = FALSE
  /\ link = TRUE /\ client = TRUE
  /\ sess = [s \in Sessions |->
       [loop |-> "none", started |-> FALSE, proc |-> "none", hup |-> FALSE,
        tty |-> FALSE, held |-> FALSE, out |-> FALSE, drained |-> FALSE,
        waiter |-> "none", sftp |-> "none", ch |-> FALSE]]

-----------------------------------------------------------------------------
(* serveEmbedded.                                                               *)

\* authorized_keys cannot be read: the channel is closed.
LoadFails ==
  /\ hpc = "load"
  /\ link' = FALSE
  /\ hpc' = "over"
  /\ UNCHANGED <<timer, hsDone, timedOut, client, sess>>

\* The timer is started, and NewServerConn called.
Arm ==
  /\ hpc = "load"
  /\ timer' = "armed"
  /\ hpc' = "handshake"
  /\ UNCHANGED <<hsDone, timedOut, link, client, sess>>

\* embeddedHandshakeTimeout: the timer's function starts on its own goroutine ...
TimerFires ==
  /\ timer = "armed"
  /\ timer' = "firing"
  /\ UNCHANGED <<hpc, hsDone, timedOut, link, client, sess>>

\* Faulty variants: without the guard; without closing the channel.
TimerUnguarded ==
  /\ timer = "firing"
  /\ timer' = "spent"
  /\ hsDone' = TRUE /\ timedOut' = TRUE /\ link' = FALSE
  /\ UNCHANGED <<hpc, client, sess>>

TimerTalksOnly ==
  /\ timer = "firing"
  /\ timer' = "spent"
  /\ hsDone' = TRUE /\ timedOut' = TRUE
  /\ UNCHANGED <<hpc, link, client, sess>>

\* ... and takes hsMu, before or after serveEmbedded does.
TimerRuns ==
  /\ timer = "firing"
  /\ timer' = "spent"
  /\ IF hsDone
     THEN UNCHANGED <<hsDone, timedOut, link>>
     ELSE hsDone' = TRUE /\ timedOut' = TRUE /\ link' = FALSE
  /\ UNCHANGED <<hpc, client, sess>>

\* NewServerConn returns: the client has authenticated ...
HandshakeOK ==
  /\ hpc = "handshake"
  /\ link /\ client
  /\ hpc' = "ok"
  /\ UNCHANGED <<timer, hsDone, timedOut, link, client, sess>>

\* ... or it has not, or its channel was closed.
HandshakeErr ==
  /\ hpc = "handshake"
  /\ client \/ ~link
  /\ hpc' = "err"
  /\ UNCHANGED <<timer, hsDone, timedOut, link, client, sess>>

\* hsDone is set and the timer stopped, unless it has fired. After an error the
\* channel is closed; after success sessions are served, whatever timedOut says.
Record ==
  /\ hpc \in {"ok", "err"}
  /\ hsDone' = TRUE
  /\ timer' = IF timer = "armed" THEN "off" ELSE timer
  /\ IF hpc = "ok"
     THEN hpc' = "serving" /\ UNCHANGED link
     ELSE hpc' = "over" /\ link' = FALSE
  /\ UNCHANGED <<timedOut, client, sess>>

\* The channel is gone: the loop over chans ends, and conn.Close().
ServingEnds ==
  /\ hpc = "serving"
  /\ ~link
  /\ hpc' = "over"
  /\ UNCHANGED <<timer, hsDone, timedOut, link, client, sess>>

\* The user's client, its connection or the proxy ends the tunnel.
ClientLeaves ==
  /\ link
  /\ client' = FALSE /\ link' = FALSE
  /\ UNCHANGED <<hpc, timer, hsDone, timedOut, sess>>

\* The client keeps the tunnel open and says nothing more.
ClientFallsSilent ==
  /\ client /\ hpc \in {"load", "handshake"}
  /\ client' = FALSE
  /\ UNCHANGED <<hpc, timer, hsDone, timedOut, link, sess>>

-----------------------------------------------------------------------------
(* serveSession.                                                                *)

\* What the session's channel carries reaches the client.
Up(s) == link /\ sess[s].ch

\* A "session" channel is accepted.
OpenSession(s) ==
  /\ hpc = "serving" /\ link /\ client
  /\ sess[s].loop = "none"
  /\ sess' = [sess EXCEPT ![s].loop = "running", ![s].ch = TRUE]
  /\ UNCHANGED handshake

\* "shell" or "exec": startShell, the output copy and the waiting goroutine. The
\* request may have been queued before the client left. A second one is refused.
StartShell(s) ==
  /\ sess[s].loop = "running" /\ ~sess[s].started
  /\ sess' = [sess EXCEPT ![s].started = TRUE, ![s].proc = "running",
                          ![s].tty = TRUE, ![s].waiter = "wait"]
  /\ UNCHANGED handshake

\* startShell fails: the request is refused, and the channel spoilt.
StartFails(s) ==
  /\ sess[s].loop = "running" /\ ~sess[s].started
  /\ sess' = [sess EXCEPT ![s].started = TRUE]
  /\ UNCHANGED handshake

\* Faulty variant: without the flag it shares with the shell.
SubsystemAnyway(s) ==
  /\ sess[s].loop = "running" /\ sess[s].sftp = "none"
  /\ sess' = [sess EXCEPT ![s].started = TRUE, ![s].sftp = "serving"]
  /\ UNCHANGED handshake

\* "subsystem sftp" on a channel that has started nothing.
Subsystem(s) ==
  /\ sess[s].loop = "running" /\ ~sess[s].started
  /\ sess' = [sess EXCEPT ![s].started = TRUE, ![s].sftp = "serving"]
  /\ UNCHANGED handshake

\* server.Serve returns: the client is done. Then ch.Close().
SftpEnds(s) ==
  /\ sess[s].sftp = "serving"
  /\ sess' = [sess EXCEPT ![s].sftp = "over", ![s].ch = FALSE]
  /\ UNCHANGED handshake

\* Faulty variant: the shell is left to itself.
CloseOnly(s) ==
  sess' = [sess EXCEPT ![s].loop = "over", ![s].started = TRUE, ![s].ch = FALSE]

\* serveSession returns. Its deferred function terminates the shell (the terminal
\* is closed, its process group gets SIGHUP) and closes the channel.
Cleanup(s) ==
  sess' = [sess EXCEPT ![s].loop = "over", ![s].started = TRUE, ![s].ch = FALSE,
                       ![s].tty = FALSE, ![s].hup = (sess[s].proc # "none")]

\* The request loop ends with its channel.
LoopEnds(s) ==
  /\ sess[s].loop = "running"
  /\ ~Up(s)
  /\ Cleanup(s)
  /\ UNCHANGED handshake

\* "subsystem sftp" once something has started, or sftp.NewServer fails: the
\* request is refused and the whole session ends.
SubsystemRefused(s) ==
  /\ sess[s].loop = "running"
  /\ Cleanup(s)
  /\ UNCHANGED handshake

\* The client closes the session's channel.
ClientCloses(s) ==
  /\ sess[s].ch
  /\ sess' = [sess EXCEPT ![s].ch = FALSE]
  /\ UNCHANGED handshake

-----------------------------------------------------------------------------
(* The shell and the goroutines around it.                                      *)

ProcWrites(s) ==
  /\ sess[s].proc = "running" /\ sess[s].tty /\ ~sess[s].out
  /\ sess' = [sess EXCEPT ![s].out = TRUE]
  /\ UNCHANGED handshake

\* It exits, perhaps leaving a job behind that keeps the terminal open.
ProcExits(s, leavesJob) ==
  /\ sess[s].proc = "running"
  /\ sess' = [sess EXCEPT ![s].proc = "exited", ![s].held = leavesJob]
  /\ UNCHANGED handshake

\* io.Copy(ch, s) delivers output, while the terminal can be read.
CopyOutput(s) ==
  /\ sess[s].out /\ ~sess[s].drained /\ sess[s].tty /\ Up(s)
  /\ sess' = [sess EXCEPT ![s].out = FALSE]
  /\ UNCHANGED handshake

\* It ends: at the end of output, on a terminal that was closed, or on a write
\* that failed.
CopyEnds(s) ==
  /\ sess[s].proc # "none" /\ ~sess[s].drained
  /\ \/ ~sess[s].out /\ ~sess[s].held /\ sess[s].proc \in {"exited", "reaped"}
     \/ ~sess[s].tty
     \/ sess[s].out /\ ~Up(s)
  /\ sess' = [sess EXCEPT ![s].drained = TRUE]
  /\ UNCHANGED handshake

\* Faulty variant: "closing the channel the moment Wait returns".
ReapAndClose(s) ==
  /\ sess[s].waiter = "wait" /\ sess[s].proc = "exited"
  /\ sess' = [sess EXCEPT ![s].proc = "reaped", ![s].waiter = "close"]
  /\ UNCHANGED handshake

\* s.Wait returns.
Reap(s) ==
  /\ sess[s].waiter = "wait" /\ sess[s].proc = "exited"
  /\ sess' = [sess EXCEPT ![s].proc = "reaped", ![s].waiter = "drain"]
  /\ UNCHANGED handshake

Drained(s) ==
  /\ sess[s].waiter = "drain" /\ sess[s].drained
  /\ sess' = [sess EXCEPT ![s].waiter = "close"]
  /\ UNCHANGED handshake

\* outputDrainTimeout: the channel will be closed over what is still to come.
DrainTimeout(s) ==
  /\ sess[s].waiter = "drain"
  /\ sess' = [sess EXCEPT ![s].waiter = "closeAnyway"]
  /\ UNCHANGED handshake

\* exit-status, and ch.Close().
SendExit(s) ==
  /\ sess[s].waiter \in {"close", "closeAnyway"}
  /\ sess' = [sess EXCEPT ![s].waiter = "done", ![s].ch = FALSE]
  /\ UNCHANGED handshake

-----------------------------------------------------------------------------
Serve == LoadFails \/ Arm \/ Record \/ ServingEnds \/ (~link /\ HandshakeErr)

Timer == TimerFires \/ TimerRuns

Waiter(s) == Reap(s) \/ Drained(s) \/ DrainTimeout(s) \/ SendExit(s)

Copy(s) == CopyOutput(s) \/ CopyEnds(s)

ClientAndShell(s) ==
  \/ OpenSession(s) \/ ClientCloses(s)
  \/ ProcWrites(s) \/ \E job \in BOOLEAN : ProcExits(s, job)

Requests(s) == StartShell(s) \/ StartFails(s) \/ Subsystem(s) \/ SubsystemRefused(s)

ESNext ==
  \/ Serve \/ Timer \/ HandshakeOK \/ HandshakeErr
  \/ ClientLeaves \/ ClientFallsSilent
  \/ \E s \in Sessions :
       ClientAndShell(s) \/ Requests(s) \/ LoopEnds(s) \/ SftpEnds(s) \/ Copy(s) \/ Waiter(s)

ESSpec == ESInit /\ [][ESNext]_esVars

\* Goroutines run, timers fire, and a read from a closed channel fails. A shell
\* that is hung up exits. Nothing is expected of the client.
ESFairSpec ==
  /\ ESSpec
  /\ WF_esVars(Serve) /\ WF_esVars(Timer)
  /\ \A s \in Sessions :
       /\ WF_esVars(LoopEnds(s)) /\ WF_esVars(Copy(s)) /\ WF_esVars(Waiter(s))
       /\ WF_esVars(sess[s].hup /\ ProcExits(s, FALSE))

-----------------------------------------------------------------------------
(* Properties.                                                                  *)

\* A tunnel whose client says nothing is let go of: serveEmbedded does not sit in
\* its handshake for as long as the user's connection lasts. The deadline is the
\* timer, "enforced here by hand".
SilentTunnelEnds == (hpc \in {"load", "handshake"}) ~> (hpc \in {"serving", "over"})

\* Once the handshake is recorded, the timer ends no session, not even when its
\* goroutine was already on its way to the lock (the hsDone guard).
ServedOutlivesTimer == [][hpc = "serving" /\ link /\ ~link' => ~client']_esVars

\* "a channel is one thing or the other, never both": no shell beside an sftp
\* server on one channel, whichever requests come in which order.
OneServicePerChannel ==
  \A s \in Sessions : sess[s].proc = "none" \/ sess[s].sftp = "none"

\* The exit status of a command never overtakes its output: unless the wait for
\* the output timed out, the channel of a client that is still there is closed
\* only when all of it has been delivered.
OutputBeforeExit ==
  [][\A s \in Sessions :
       /\ sess[s].waiter = "close" /\ sess'[s].waiter = "done"
       /\ Up(s) /\ sess[s].tty
       => ~sess[s].out]_esVars

\* "Whatever ends the session, the shell must go with it": a shell whose channel
\* is gone is hung up and reaped, whoever closed the channel. And the other way
\* round: a session ends with its shell, also when a job left behind holds the
\* terminal open for good.
ShellEndsWithSession ==
  \A s \in Sessions :
    /\ (sess[s].proc = "running" /\ ~Up(s)) ~> (sess[s].proc = "reaped")
    /\ (sess[s].proc = "exited") ~> ~sess[s].ch
=============================================================================
