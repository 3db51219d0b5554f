------------------------------- MODULE Tunnel -------------------------------
(* `ssh -J proxy user@label`: serveJump, openTunnel and Pipe on the proxy, for  *)
(* any number of jumps over one agent connection that may go silent, and die,   *)
(* at any moment. What the registry answers is AgentRegistry's subject.         *)
EXTENDS Integers

CONSTANT Jumps      \* direct-tcpip channels users have opened

VARIABLES
  agent,     \* the agent connection: "up", "silent" (half-open) or "down"
  jpc,       \* where serveJump is
  user,      \* the user's channel
  tun,       \* the tunnel channel to the agent
  opener,    \* openTunnel's goroutine, and the result it left in "done"
  discarder, \* the goroutine that waits to close a channel that came too late
  userEOF,   \* the user's side has nothing more to send
  agentEOF,  \* the agent's side has nothing more to send
  out,       \* output of the agent is on its way to the user
  outDone,   \* Pipe: the copy from agent to user has ended
  inDone     \* Pipe: the copy from user to agent has ended

tvars == <<agent, jpc, user, tun, opener, discarder, userEOF, agentEOF, out,
           outDone, inDone>>
ends == <<userEOF, agentEOF, out, outDone, inDone>>

TunnelTypeOK ==
  /\ agent \in {"up", "silent", "down"}
  /\ jpc \in [Jumps -> {"lookup", "select", "accept", "pipe", "done"}]
  /\ user \in [Jumps -> {"waiting", "open", "rejected", "closed"}]
  /\ tun \in [Jumps -> {"none", "open", "closed"}]
  /\ opener \in [Jumps -> {"none", "calling", "ok", "err"}]
  /\ discarder \in [Jumps -> BOOLEAN]
  /\ userEOF \in [Jumps -> BOOLEAN] /\ agentEOF \in [Jumps -> BOOLEAN]
  /\ out \in [Jumps -> BOOLEAN]
  /\ outDone \in [Jumps -> BOOLEAN] /\ inDone \in [Jumps -> BOOLEAN]

TunnelInit ==
  /\ agent = "up"
  /\ jpc = [j \in Jumps |-> "lookup"]
  /\ user = [j \in Jumps |-> "waiting"]
  /\ tun = [j \in Jumps |-> "none"]
  /\ opener = [j \in Jumps |-> "none"]
  /\ discarder = [j \in Jumps |-> FALSE]
  /\ userEOF = [j \in Jumps |-> FALSE] /\ agentEOF = [j \in Jumps |-> FALSE]
  /\ out = [j \in Jumps |-> FALSE]
  /\ outDone = [j \in Jumps |-> FALSE] /\ inDone = [j \in Jumps |-> FALSE]

-----------------------------------------------------------------------------
(* serveJump and openTunnel.                                                    *)

\* nc.Reject and return. On a channel the user has already left it does nothing.
Reject(j) ==
  /\ user' = [user EXCEPT ![j] = IF @ = "waiting" THEN "rejected" ELSE @]
  /\ jpc' = [jpc EXCEPT ![j] = "done"]

\* A bad payload, or no such target.
NotFound(j) ==
  /\ jpc[j] = "lookup"
  /\ Reject(j)
  /\ UNCHANGED <<agent, tun, opener, discarder, ends>>

\* reg.get returned the connection; it may be dead by now. OpenChannel is
\* called on a goroutine, the result awaited in a select.
Found(j) ==
  /\ jpc[j] = "lookup"
  /\ jpc' = [jpc EXCEPT ![j] = "select"]
  /\ opener' = [opener EXCEPT ![j] = "calling"]
  /\ UNCHANGED <<agent, user, tun, discarder, ends>>

\* OpenChannel returns a channel: the agent accepted.
OpenOK(j) ==
  /\ opener[j] = "calling"
  /\ agent = "up"
  /\ opener' = [opener EXCEPT ![j] = "ok"]
  /\ tun' = [tun EXCEPT ![j] = "open"]
  /\ UNCHANGED <<agent, jpc, user, discarder, ends>>

\* It returns an error: the agent refused, or its connection is dead. A silent
\* agent makes it block.
OpenErr(j) ==
  /\ opener[j] = "calling"
  /\ agent # "silent"
  /\ opener' = [opener EXCEPT ![j] = "err"]
  /\ UNCHANGED <<agent, jpc, user, tun, discarder, ends>>

ResultOK(j) ==
  /\ jpc[j] = "select"
  /\ opener[j] = "ok"
  /\ jpc' = [jpc EXCEPT ![j] = "accept"]
  /\ opener' = [opener EXCEPT ![j] = "none"]
  /\ UNCHANGED <<agent, user, tun, discarder, ends>>

ResultErr(j) ==
  /\ jpc[j] = "select"
  /\ opener[j] = "err"
  /\ opener' = [opener EXCEPT ![j] = "none"]
  /\ Reject(j)
  /\ UNCHANGED <<agent, tun, discarder, ends>>

\* Faulty variants: giving up without someone to take the late channel; never
\* giving up.
TimeoutAndLeave(j) ==
  /\ jpc[j] = "select"
  /\ opener' = [opener EXCEPT ![j] = "none"]
  /\ Reject(j)
  /\ UNCHANGED <<agent, tun, discarder, ends>>

NoTimeout(j) == FALSE /\ UNCHANGED tvars

\* tunnelOpenTimeout. The select may choose it over a result that is there.
Timeout(j) ==
  /\ jpc[j] = "select"
  /\ discarder' = [discarder EXCEPT ![j] = TRUE]
  /\ Reject(j)
  /\ UNCHANGED <<agent, tun, opener, ends>>

\* "If it lands after we gave up, discard it rather than leak a channel."
Discard(j) ==
  /\ discarder[j]
  /\ opener[j] \in {"ok", "err"}
  /\ tun' = [tun EXCEPT ![j] = IF opener[j] = "ok" THEN "closed" ELSE @]
  /\ opener' = [opener EXCEPT ![j] = "none"]
  /\ discarder' = [discarder EXCEPT ![j] = FALSE]
  /\ UNCHANGED <<agent, jpc, user, ends>>

\* nc.Accept, and Pipe starts.
Accept(j) ==
  /\ jpc[j] = "accept"
  /\ user[j] = "waiting"
  /\ user' = [user EXCEPT ![j] = "open"]
  /\ jpc' = [jpc EXCEPT ![j] = "pipe"]
  /\ UNCHANGED <<agent, tun, opener, discarder, ends>>

\* nc.Accept fails, the user having gone: tunnel.Close().
AcceptFails(j) ==
  /\ jpc[j] = "accept"
  /\ user[j] = "closed"
  /\ tun' = [tun EXCEPT ![j] = "closed"]
  /\ jpc' = [jpc EXCEPT ![j] = "done"]
  /\ UNCHANGED <<agent, user, opener, discarder, ends>>

-----------------------------------------------------------------------------
(* Pipe(client, tunnel): two copies, each ending with CloseWrite.               *)

Copying(j) == jpc[j] = "pipe"

\* io.Copy(client, tunnel) delivers what it has read.
CopyOut(j) ==
  /\ Copying(j) /\ ~outDone[j]
  /\ out[j] /\ user[j] = "open"
  /\ out' = [out EXCEPT ![j] = FALSE]
  /\ UNCHANGED <<agent, jpc, user, tun, opener, discarder, userEOF, agentEOF,
                 outDone, inDone>>

\* Faulty variant: only an orderly end of the agent's side is noticed.
OutEndsOrderly(j) ==
  /\ Copying(j) /\ ~outDone[j]
  /\ \/ ~out[j] /\ agentEOF[j]
     \/ out[j] /\ user[j] = "closed"
  /\ outDone' = [outDone EXCEPT ![j] = TRUE]
  /\ UNCHANGED <<agent, jpc, user, tun, opener, discarder, userEOF, agentEOF,
                 out, inDone>>

\* It ends when the agent's side has ended and all is delivered, or on a write
\* to a user who has gone.
OutEnds(j) ==
  /\ Copying(j) /\ ~outDone[j]
  /\ \/ ~out[j] /\ (agentEOF[j] \/ agent = "down")
     \/ out[j] /\ user[j] = "closed"
  /\ outDone' = [outDone EXCEPT ![j] = TRUE]
  /\ UNCHANGED <<agent, jpc, user, tun, opener, discarder, userEOF, agentEOF,
                 out, inDone>>

\* io.Copy(tunnel, client) ends when the user's side has.
InEnds(j) ==
  /\ Copying(j) /\ ~inDone[j]
  /\ userEOF[j] \/ user[j] = "closed"
  /\ inDone' = [inDone EXCEPT ![j] = TRUE]
  /\ UNCHANGED <<agent, jpc, user, tun, opener, discarder, userEOF, agentEOF,
                 out, outDone>>

\* It also ends when the user writes and the tunnel does not take it any more:
\* the agent connection is down, or the agent has closed its side.
InFails(j) ==
  /\ Copying(j) /\ ~inDone[j]
  /\ user[j] = "open" /\ ~userEOF[j]
  /\ agent = "down" \/ agentEOF[j]
  /\ inDone' = [inDone EXCEPT ![j] = TRUE]
  /\ UNCHANGED <<agent, jpc, user, tun, opener, discarder, userEOF, agentEOF,
                 out, outDone>>

\* Faulty variants: closing when the first direction ends; closing one side only.
PipeStopsEarly(j) ==
  /\ Copying(j)
  /\ outDone[j] \/ inDone[j]
  /\ user' = [user EXCEPT ![j] = "closed"]
  /\ tun' = [tun EXCEPT ![j] = "closed"]
  /\ jpc' = [jpc EXCEPT ![j] = "done"]
  /\ UNCHANGED <<agent, opener, discarder, ends>>

\* wg.Wait, then both channels are closed.
PipeDone(j) ==
  /\ Copying(j)
  /\ outDone[j] /\ inDone[j]
  /\ user' = [user EXCEPT ![j] = "closed"]
  /\ tun' = [tun EXCEPT ![j] = "closed"]
  /\ jpc' = [jpc EXCEPT ![j] = "done"]
  /\ UNCHANGED <<agent, opener, discarder, ends>>

-----------------------------------------------------------------------------
(* The two ends, and the agent connection between them.                         *)

AgentWrites(j) ==
  /\ tun[j] = "open" /\ agent = "up" /\ ~agentEOF[j] /\ ~out[j]
  /\ out' = [out EXCEPT ![j] = TRUE]
  /\ UNCHANGED <<agent, jpc, user, tun, opener, discarder, userEOF, agentEOF,
                 outDone, inDone>>

\* The embedded server is done with the channel.
AgentEnds(j) ==
  /\ tun[j] = "open" /\ agent = "up" /\ ~agentEOF[j]
  /\ agentEOF' = [agentEOF EXCEPT ![j] = TRUE]
  /\ UNCHANGED <<agent, jpc, user, tun, opener, discarder, userEOF, out,
                 outDone, inDone>>

\* The user's client has sent its last byte, but still reads.
UserEnds(j) ==
  /\ user[j] = "open" /\ ~userEOF[j]
  /\ userEOF' = [userEOF EXCEPT ![j] = TRUE]
  /\ UNCHANGED <<agent, jpc, user, tun, opener, discarder, agentEOF, out,
                 outDone, inDone>>

\* The user's channel or connection is gone, answered or not.
UserGone(j) ==
  /\ user[j] \in {"waiting", "open"}
  /\ user' = [user EXCEPT ![j] = "closed"]
  /\ UNCHANGED <<agent, jpc, tun, opener, discarder, ends>>

\* The next jump: a new channel, with nothing left of the previous one.
NextJump(j) ==
  /\ jpc[j] = "done" /\ user[j] \in {"rejected", "closed"}
  /\ tun[j] # "open" /\ opener[j] = "none" /\ ~discarder[j]
  /\ jpc' = [jpc EXCEPT ![j] = "lookup"]
  /\ user' = [user EXCEPT ![j] = "waiting"]
  /\ tun' = [tun EXCEPT ![j] = "none"]
  /\ userEOF' = [userEOF EXCEPT ![j] = FALSE]
  /\ agentEOF' = [agentEOF EXCEPT ![j] = FALSE]
  /\ out' = [out EXCEPT ![j] = FALSE]
  /\ outDone' = [outDone EXCEPT ![j] = FALSE]
  /\ inDone' = [inDone EXCEPT ![j] = FALSE]
  /\ UNCHANGED <<agent, opener, discarder>>

AgentGoesSilent ==
  /\ agent = "up"
  /\ agent' = "silent"
  /\ UNCHANGED <<jpc, user, tun, opener, discarder, ends>>

\* The connection dies, or probeLiveness gives up on it.
AgentDown ==
  /\ agent # "down"
  /\ agent' = "down"
  /\ UNCHANGED <<jpc, user, tun, opener, discarder, ends>>

-----------------------------------------------------------------------------
Proxy(j) ==
  \/ NotFound(j) \/ Found(j) \/ OpenErr(j) \/ ResultOK(j) \/ ResultErr(j)
  \/ Discard(j) \/ Accept(j) \/ AcceptFails(j)
  \/ CopyOut(j) \/ OutEnds(j) \/ InEnds(j) \/ PipeDone(j)

Outside(j) ==
  \/ OpenOK(j) \/ InFails(j) \/ NextJump(j)
  \/ AgentWrites(j) \/ AgentEnds(j) \/ UserEnds(j) \/ UserGone(j)

TunnelNext ==
  \/ \E j \in Jumps : Proxy(j) \/ Timeout(j) \/ Outside(j)
  \/ AgentGoesSilent \/ AgentDown

TunnelSpec == TunnelInit /\ [][TunnelNext]_tvars

\* The proxy's goroutines run and its timer fires; OpenChannel on a connection
\* that is not half-open comes back one way or the other. A side that is told
\* the other has ended ends too: CloseWrite reaches the embedded server, whose
\* read fails, or the user's client, which exits. Nothing is assumed about how
\* soon a half-open connection is found out.
TunnelFairSpec ==
  /\ TunnelSpec
  /\ \A j \in Jumps :
       /\ WF_tvars(Proxy(j)) /\ WF_tvars(Timeout(j))
       /\ WF_tvars(inDone[j] /\ AgentEnds(j))
       /\ WF_tvars(outDone[j] /\ UserEnds(j))

-----------------------------------------------------------------------------
(* Properties.                                                                  *)

\* An open tunnel channel always has someone whose business it is to close it:
\* the jump that uses it, or the goroutine openTunnel left behind when it gave
\* up on an answer that was still to come.
TunnelHasOwner ==
  \A j \in Jumps : tun[j] = "open" =>
    \/ jpc[j] \in {"select", "accept", "pipe"}
    \/ discarder[j] /\ opener[j] = "ok"

\* Pipe never cuts off output: when it closes a session whose user is still
\* there and whose agent is still up, all the agent wrote has been delivered.
\* ("Closing outright would truncate output.")
NoTruncation ==
  [][\A j \in Jumps :
       jpc[j] = "pipe" /\ jpc'[j] = "done" /\ user[j] = "open" /\ agent = "up"
         => agentEOF[j] /\ ~out[j]]_tvars

\* Every jump is answered, however dead the agent is and whether or not its
\* probe finds out: accepted, or rejected at the latest when tunnelOpenTimeout
\* strikes.
JumpIsAnswered ==
  \A j \in Jumps : (user[j] = "waiting") ~> (user[j] # "waiting")

\* Neither channel outlives the other for good: no tunnel its user, wherever in
\* the jump the user left, unless the agent connection is half-open (how that ends
\* is AgentRegistry's subject); and no user's channel a dead agent connection.
ChannelsEndTogether ==
  \A j \in Jumps :
    /\ (tun[j] = "open" /\ user[j] \in {"rejected", "closed"})
         ~> (tun[j] = "closed" \/ agent = "silent")
    /\ (user[j] = "open" /\ agent = "down") ~> (user[j] # "open")
=============================================================================
