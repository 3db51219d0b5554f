# multiSSH: specifications, model checking and proofs

multiSSH gives shell access to machines behind NAT. Every machine runs an
*agent* that keeps one SSH connection open to a *proxy*; users jump through the
proxy (`ssh -J proxy user@label`) and the proxy opens a channel back over the
agent's connection. This directory holds TLA+ models of the proxy's concurrent
core, of the agent and of its updates, their TLC configurations, and TLAPS
proofs of all the safety properties the runs check.
Line references are to `src/`.

## 1. Inventory

| Component | State | Operations | Talks to |
|---|---|---|---|
| Agent registry (`cmd/proxy/main.go`) | `registry.m`: name -> connection, identity, host key | `add`, `remove`, `get`, `listing`, `setHostFP`, `connections`; the handler `handleAgent` with its request goroutine and `probeLiveness` | every connection's handler, the revocation sweep, `serveJump`, the listing |
| Revocation (`cmd/proxy/revoke.go`) | `revoked_keys`, the set and the stamp in memory | `-revoke`, `-unrevoke` (processes of their own), `reload`, `sweep`, `watch` | authentication, the registry |
| Ledger and sightings (`ledger.go`, `sightings.go`) | `friendly_labels`, `last_seen`, and a copy of each in memory | `claim`, `seen`/`save`, `forget` (in another process), `reload` on SIGHUP | `handleAgent`, the listing, `-forget` |
| Tunnels (`serveJump`, `openTunnel`, `sshx.Pipe`) | two channels, a goroutine waiting for the agent's answer, two copies | open, time out, accept, copy, half-close, close | the registry (a lookup), the agent |
| Admission (`takeConn`, `slots`, `limiter`, `realClientHost`) | slots in use, recent failures per address | take, give, count, allow | both listeners |
| Enrolment (`enroll.go`) | the password set, a limiter, argon slots | `handle`, `reload`, the password commands | HTTP clients, the password file |
| Agent (`cmd/agent/main.go`) | the backoff, the session, one embedded server per tunnel | `maintain`, `session`, `serveEmbedded`, `serveSession` | the proxy |
| Distribution, listing, health (`install.go`, `serveListing`, `serveHealth`) | the builds' hashes, the registry, the last-seen record | scan on SIGHUP, serve script and binary, list | installers, users, `handleAgent` |
| Installer and updates (`scripts/install.*`, `deploy/update-agents.sh`) | binary, previous binary, manifest, service | install, update, roll back, uninstall | the proxy's `/dist`, the fleet |
| Key roll-out (`deploy/authorize.sh`) | the `authorized_keys` of every target | add, remove | the fleet, over tunnels |
| Names, certificates, versions (`internal/sshx`) | none | derive, verify, parse | all of the above |

What is hard here: the registry is written by one goroutine per connection, with
the transport failing under any of them; a connection is replaced under a lock
and closed after it; files are shared between the running proxy and one-shot
commands with no lock between them; a revocation has to reach connections in
every stage of their life; an answer can arrive after its waiter gave up. The
list of hazards, each at its line, is in `PROJECT.json`.

What makes each component correct, in one line each:

- registry: it agrees with the handlers that write it (no entry without an owner
  that will remove it, no live agent that cannot be found), a name never moves
  between machines except through being given up, and silent agents leave it;
- revocation: what was reported by a command that nothing overlapped is not lost,
  each revocation reaches memory, then every connection of the key;
- ledger and sightings: what is forgotten stays forgotten, nothing else is;
- tunnels: no channel leaks, no output is cut off, every jump is answered;
- admission: slots are conserved, the limit is bounded although it is checked
  before and counted after the handshake, and hits nobody else;
- enrolment: a withdrawn password stops working, the limiter cannot be bypassed,
  the argon slots come back and fit in memory;
- distribution and listing: no machine is lost between two reads, old builds are
  flagged, and what was deployed last is what gets installed;
- agent: it always comes back, under the name it had, after a bounded delay; shell
  and session end together and output comes before the exit status;
- updates: at every moment a machine has an agent that can be started, and an
  update that was cut off and is run again gets there.

## 2. Modules

| Module | Models | Composes / implements |
|---|---|---|
| `AgentDirectory` | the registry's promise: who is served under a name | abstract specification |
| `AgentRegistry` | registry, `handleAgent`, request goroutine, probe, handshake, transport | implements `AgentDirectory` |
| `AgentRegistryProofs` | the registry's invariant, its refinement, and the sweep over it | extends `RevokedAgents` |
| `Revocations` | `revoked_keys`, the commands, `watch`'s reload | |
| `RevokedAgents` | authentication against the set, and the sweep | extends `AgentRegistry`, instantiates `Revocations` |
| `StateFiles` | `friendly_labels`, `last_seen`, `-forget`, SIGHUP, restart | |
| `Tunnel` | `serveJump`, `openTunnel`, `Pipe` | |
| `EmbeddedServer` | the agent's `serveEmbedded` and `serveSession` | the far end of `Tunnel` |
| `Limiter` | `limiter` as a value: `count`, `allow`, its sweep | used by the next two |
| `Admission` | `takeConn` on both listeners, `slots`, `realClientHost` | extends `Limiter` |
| `Enroll` | `enroller.handle`, its argon slots and password set, the password commands, SIGHUP | extends `Limiter` |
| `Agent` | the agent's start, `maintain`, `session`, keepalives | the other side of `AgentRegistry` |
| `Fleet` | `scan`, the installer's two requests, a deployment, saves and reloads of `last_seen`, the listing, health | |
| `Update` | `install.sh`: `--update`, a pushed binary, `--rollback`, cut off anywhere | the installer `Fleet` runs, in detail |
| `StateFilesProofs` | what is forgotten stays forgotten; the stamp of `revoked_keys`, and what overlapping commands keep | extends `StateFiles`, `Revocations` |
| `SessionProofs` | who owns a tunnel, that no output is lost at either end, what the timer spares | extends `Tunnel`, `EmbeddedServer` |
| `LimiterProofs` | what the limiter's loop keeps, and what `allow` and its sweep do | extends `Limiter` |
| `AdmissionProofs` | slots, the address behind a forged header, and the failures within a window | extends `Admission`, `LimiterProofs` |
| `EnrollProofs` | argon slots, a withdrawn password, and the attempts within a window | extends `Enroll`, `LimiterProofs` |
| `AgentProofs` | the agent's types, delays, surviving name and leftover keepalives; that there is always a whole binary | extends `Agent`, `Update` |
| `FleetProofs` | no machine vanishes from a listing, old builds are flagged | extends `Fleet` |
| `MC*` | constants for TLC | one per checked module |

Each module with "Faulty variant" definitions keeps, next to the definition it
would replace, a plausible slip in that code; substituting one must break the
property named for it in `PROJECT.json`.

### AgentRegistry

One handler per connection object, at `pc[c]`: `handshake` (accepted by
`PublicKeyCallback`, not yet through `NewServerConn`), `canonical`, `claim`,
`friendly` (the three steps of `handleAgent`), `wait` (in `conn.Wait`),
`removeFriendly` (between the two removals). A step is one critical section of
`registry.mu` or `ledger.mu`. `registry.add` is two: the map update, and closing
the replaced connection after the unlock, which `victim` remembers; the handler
goes on only after that. `open` is what `conn.Wait` waits for; `peer` says that
the agent is really there, so `open /\ ~peer` is a half-open connection, which
only `probeLiveness` can notice, and only once the handler has come to `wait`.
`book` is the ledger's map, reloaded to anything at any time, as `StateFiles`
decides what the file holds. Host keys are represented by the canonical name
they derive, so `VerifyCanonicalName` is equality; which key an agent reports is
its own choice. An agent sends its report once per session
(`cmd/agent/main.go:338`). Connection objects are recycled once nothing refers
to them, so a bounded set of them stands for any number of connections.
Protocol number, build and platform are carried along by the code without being
looked at and are left out, and so are logging and `seen.seen` (`StateFiles`).

### Revocations and RevokedAgents

`version` stands for the size and mtime that make up the stamp: each write gives
the file a new one. `reload` is three steps, stat, read, apply, because commands
run in between; a command is two, read and rename, `WriteFileAtomic` being
atomic and leaving the old file on failure. `RevokedAgents` adds the check in
`PublicKeyCallback` and the sweep: a snapshot of the registry, then one `Close`
at a time. Any number of commands may be between their read and their write;
`raced` keeps the revocations that were reported while another one was. A read may
fail whatever the file holds, as it may be unreadable to the service's user; a stat
that fails changes nothing and is no step of its own. Deleting the file and replacing it within one mtime tick are left
out.

### StateFiles

Both files are replaced with `os.WriteFile`: truncation and write are separate
steps wherever another process or an unlocked read can come between. `-forget`
reads both files, then edits one after the other, from its own copies; its two
reads (`main.go:411`, `main.go:415`) are one step, and one such command runs at a
time. A reload that cannot read its file keeps what it had, and the loop goes on
to the next one. `Crash`
stops the proxy at any point and restarts it from what the files hold. A claim's
append may fail. Times are left out: a sighting is the fact that there is one.
`saving` allows one `seen` per machine at a time. `freed` and `forgotten` record
how far a forgetting has come (written to the file, read by a reload, applied),
so that the properties can say from when on it must hold.

### Tunnel

Jumps share one agent connection that is up, silent or down. `opener` is the
goroutine in `openTunnel` together with the result it left in the buffered
channel; `discarder` the one started when the select times out. The select may
take the timeout although a result is there. A channel is open or closed, each
direction has ended or not, and one chunk of the agent's output may be on its
way (`out`), which is what truncation would lose.

### EmbeddedServer

`hpc` follows `serveEmbedded`: `ok` and `err` are the moments between the return
of `NewServerConn` and the lock that records it, which is where the timer's
goroutine can come in; the timer has a state of its own for having fired without
having the lock yet, because `Stop` no longer helps then. A session is a record:
the request loop, the shell's process (running, exited, reaped), its terminal
and whether a job left behind holds it, output no one has read, the output copy,
the goroutine that waits, and the channel. Requests may be handled after the
client has left, as they queue. Terminal sizes, the input copy and replies are
left out; so is the Windows console, which stands behind the same interface.

### Limiter and Admission

A limiter is a value, the times of every address's recent events and the time of
its last sweep, and `allow` an operator that returns the next one, because the
code has two instances. `Recent` is their loop over the times, one step per
index. Times are a clock `now` that the actions read; a window is `Window`
units, and whether an event at the edge still counts is the code's `After`. In
`Admission` a socket goes through `check` (slot taken, the failure count not
read yet), `handshake`, `serving`; everything `takeConn` defers is part of the
step that leaves. The count is read in one step and raised in another, after the
handshake, as in the code. A connection behind the reverse proxy has the address
its header names: the entry the trusted proxy appended, whatever the client put
before it. This is the assumption about that proxy: it appends its own entry, in
the one header line there is, so `realClientHost`'s fallback to the peer for an
empty last entry (`main.go:187`) is not taken. The accept loop's pause after an
error (`main.go:929`) is left out: no connection has come of it. `failures` records the failures of each real client, past the burst
too, where the code's `allow` records none.

### Enroll

A request passes the limiter (`Admit`), takes an argon slot and a snapshot of the
passwords (`verify`), has its key checked (`key`) and is signed (`sign`); every
answer gives the slot back. The password commands read the file, prompt, and
write it anew, which may fail; SIGHUP reads and applies in two steps, with one
more signal pending at most. Hashing is equality of secrets, expiry a time.
`withdrawn`, `gone` and `late` record how far a removal has come (written, read
without it by a reload, applied before a request came to its check).

### Agent

One `maintain` loop, as every proxy has its own: `dial`, `handshake`, `up`,
`sleep`. Time passes in `Tick`, which no timer that is due is passed by. `dead`
is a half-open connection: neither the handshake nor the keepalive's request gets
an answer then, and the code has no deadline on either, so it ends when TCP gives
up. The keepalive goroutine of a session that ended stays until its next tick;
`leftover` holds those. The key file and the certificate are on `disk`: `Enrol` is
the installer, run once or again and also beside a running agent, which uses the
host key that is there, or makes one, and is done or killed with the certificate
truncated; `StartEnds` is a start that ends after the keys were made. Making a key
is one step. The key file may be lost at any time, and `lost` keeps those keys.

### Fleet

A deployment replaces the platforms' files one by one and signals; `Scan` hashes
them one by one and then replaces the map; the signal channel holds one. The same
loop then reloads `last_seen`, reading the file without the lock and replacing the
record under it, while every sighting has the handler save the record: the file is
truncated, then written, under the lock the reload's read does not take. (The loop's
other reloads touch nothing that is modelled here, and `-forget` is a step.)
`dropped` keeps the machines such a reload took out and that have not been seen
since. The installer gets the script with its checksum, then the binary, which it
compares in the same step, as nothing else looks at the file it downloads to. A
listing is four reads under four locks (builds, serving, registry, record), with
handlers registering, recording and leaving in between. A build is a number; the
proxy starts with `FirstBuild` served and installed.

### Update

`script` is the running `install.sh`: its step, its mode, the build it wants, and
whether it was handed over to by an older copy. A step is one rename, write or
restart; keeping the previous binary may fail without ending the script. `Interrupt`
stops it between any two; `AgentRestarts` may, as a script run over the agent's own
tunnel goes with the agent, and nobody says which one does. `cut` records that a
rollback or a push was stopped before it marked the manifest, `behind` that an
update was stopped between the manifest and the restart. There is one proxy, so the
check that it is the one the machine was enrolled with (`install.sh:502`), which
ends the script before it has done anything, is left out.

## 3. Runs

| Run | Instance | Shows |
|---|---|---|
| `AgentRegistry` | 2 connections; 2 machines after one friendly name, one with a certificate for the other's canonical name; any ledger | the registry's invariants, the refinement, `SilentAgentLeaves` |
| `Revocations` | 2 keys, 2 operators, 4 writes | `StampSound`, `RevocationSticks`, `RevocationReachesProxy` |
| `RevokedAgents` | 2 connections of a machine enrolled twice, 1 operator, 2 writes | `SweepMissesNobody`, `RevokedAgentIsDropped` |
| `StateFiles` | 2 machines with one label, 1 command at a time | `ForgottenNameIsFree`, `ForgottenMachineLeaves` |
| `Tunnel` | 2 jumps | `TunnelHasOwner`, `NoTruncation`, `JumpIsAnswered`, `ChannelsEndTogether` |
| `EmbeddedServer` | 1 tunnel, 2 sessions | `OneServicePerChannel`, `ServedOutlivesTimer`, `OutputBeforeExit`, `SilentTunnelEnds`, `ShellEndsWithSession` |
| `Admission` | 2 sockets, a limited and an unlimited listener, one of them behind the reverse proxy, 2 clients, burst 2 | `SlotsConserved`, `GuessesBounded`, `StaleAddressesSwept`, `RefusedOnlyGuessers`, `SilentClientLetGo` |
| `Enroll` | 2 requests, 1 operator, 2 secrets under 1 name, burst 2, memory for one slot | `ArgonConserved`, `AttemptsBounded`, `WithdrawnStopsWorking` |
| `Agent` | delays from 2 to 9, a keepalive every 7, 2 host keys | `NameSurvives`, `DelayBounded`, `KeepalivesBounded`, `AgentComesBack` |
| `Fleet` | 3 builds: agents of the first, the second served at the start, the third deployed; 1 platform, 1 machine, 1 installer, 1 listing | `NoMachineVanishes`, `OldBuildsFlagged`, `DeployedIsInstalled` |
| `Update` | 3 builds | `AlwaysABinary`, `UpdateConverges` |

Every module states the types of its variables (`...TypeOK`). They are part of the
inductive invariants where there is a proof, and can be added to any
configuration; the runs spend their time on the properties above.

Bounds. Two connections are what replacement needs, and recycling makes any
number of successive ones; the theorems of section 4 cover the safety part for
every number. Two writes are a revocation and its withdrawal, or one and a hand
edit; four let the file change between stat, read and apply and again before the
next tick. Two machines with one label are an old installation and a new one.
Two sockets overlap, and one that is done is used again; with a burst of two the
first failure does not block and the second does, and a clock of one window and
a unit lets an event reach the window's edge and pass it. The agent's bounds keep
what matters of the real ones (1s, 60s, 60s, 25s): several delays fit between
two ticks of the keepalive, a healthy session and the longest delay outlast one,
and no doubling hits the longest delay. In `Fleet` the second build is settled at the start and the third deployed
over it, before, during or after a listing of an agent that still runs the first;
an operator's SIGHUP may be waiting from the start, so that the deployment's comes
before, during or after another reload. One machine and one platform are what the
time for a run with liveness allows; the theorems cover any number of both. `Update`
has three builds so that the proxy can move on under an update whose predecessor is
still there. Two operators overlap in every way two commands can; `RevokedAgents`
has one, as the file's part is `Revocations`' and proved for any number.
`MaxWrites`, `MaxClock` and `MaxBuild` are the only bounds on counters. Symmetry
is used in `StateFiles` and `Enroll`, which check invariants only. Deadlock is
not checked for `Tunnel` and `EmbeddedServer`, where nothing has to happen when
all jumps or sessions are over.

One run ends in a violation: it states what a comment says, and shows what the
code does instead.

| Run | Said | What happens |
|---|---|---|
| `AgentRegistryGhost` | "the live connection must win" (`main.go:237`) | a handler late to register replaces and closes the connection its agent came back with |

It holds agents to one session at a time (`SerialSpec`), as
`maintain` does: without that, the violation would show nothing.

### Met while modelling, and without a run of their own

Revocation, ledger and sightings:

- Two revocation commands at once lose one of two reported revocations
  (`revoke.go:178`, no lock between processes). These are the ones in `raced`:
  with `promised \subseteq entries` instead of `RevocationSticks` the run ends in
  a counterexample.
- A revocation "takes effect within this long" (`revoke.go:36`), but an agent
  that authenticated before the reload and registers after the sweep's snapshot
  lasts until the next sweep.
- A malformed `revoked_keys` suspends the sweep of the set that is kept
  (`revoke.go:154`).
- "The binding still holds for this run" (`ledger.go:67`) when its append fails,
  but the next SIGHUP replaces the map by what the file holds.
- `-forget` of a canonical name releases "its friendly name" by its spelling,
  whoever owns it (`main.go:427`).
- A machine is listed "until the proxy is told to forget it"
  (`docs/operations.md:232`), but an agent that connects between the command and
  the reload makes the proxy save the forgotten one again (`sightings.go:59`).
- A reload of `last_seen` that reads the file in the middle of a save, or before a
  machine was first seen, drops machines from the listing until they are seen again
  (`sightings.go:154`). These are the ones in `dropped`: without them in
  `NoMachineVanishes` the run ends in a counterexample.
- A host key report handled before the registration finds no entry and is lost
  for the session (`main.go:1070` against `main.go:1103`).

Admission, enrolment and distribution:

- Failures past the burst are not recorded, as `allow` records only what it lets
  through (`enroll.go:203`).
- Two password commands at once can bring a removed password back
  (`docs/security.md:214`), and "removed" is printed before the file is written
  (`enroll.go:433`). A request that has checked its password is signed even if a
  reload withdraws it meanwhile.
- `builds()` and `serving()` are read under two locks (`install.go:122`): with the
  first scan in between, a listing calls every agent OUTDATED. A scan that fails
  keeps the old map, and SIGHUP still logs "reloaded". One that finds the files and
  can read none of them empties it, and the listing says nothing of any build until
  the next ("worse than saying nothing", `install.go:122`), which is why
  `OldBuildsFlagged` asks for `know`: proving it brought this out, as it takes a
  third deployment.

Agent and updates:

- The timer "cannot tear down a good session" (`cmd/agent/main.go:400`), but
  between the return of `NewServerConn` and `hsDone` it can.
- After an ordinary exit `Terminate` signals the process group of a shell that
  `Wait` has reaped, whose number may be another's by then (`pty_unix.go:59`).
- `healthySession` is measured from before the dial: a handshake that hangs for a
  minute resets the backoff.
- An update cut off between the swap and the manifest, and run again, makes the
  new binary its own predecessor: a rollback then has nothing to go back to
  (`install.sh:430`).
- A rollback or a push cut off between its binary and the manifest leaves a
  manifest that makes `--update` say "already current" (`install.sh:444`): `cut`
  in `UpdateConverges`.
- Killed between the manifest and the restart, an update leaves the old agent
  running, and one that is run again says "already current" and restarts nothing
  (`install.sh:503`), whereas `docs/design-notes.md:26` and `install.sh:392` leave it
  to "the next restart": `behind` in `UpdateConverges`.
- `manage.sh` run in place fetches itself anew without a rename, and two scripts
  at once share one `.new` file; the model has one script at a time.

### Fairness

Of the program's own steps, and weak unless said otherwise: `handshakeTimeout` ends
every handshake, a goroutine that can run does, tickers and timers fire. Agents,
users and operators owe nothing, with two exceptions in `Tunnel`: an embedded
server or a user's client that is told the other side has ended ends its own
side, which is what a read of EOF makes both do. In `EmbeddedServer` a shell that
is hung up exits. `ChannelsEndTogether` makes no
assumption about when a half-open agent is found out; that it is, is
`SilentAgentLeaves`.

`Revocations` and `RevokedAgents` assume in addition that a well-formed file is not
unreadable for ever: of the reads `watch` attempts, one in the end succeeds (strong
fairness of `Read`, as a read that fails is tried again at the next tick).

`Admission` assumes that handlers run and deadlines fire, nothing about clients.
In `Agent` the loop runs, timers fire, and TCP gives up a half-open connection;
`AgentComesBack` is about behaviours in which the proxy stays reachable and
handshakes are let through. `Fleet` assumes that a deployment that was begun
ends, that the reload loop runs, that saves end and leave the mutex to the reload
(strong, as each save takes it), and, since the installer is run again until it
succeeds, that it goes on and its downloads do not fail for ever (strong, because a
failed run starts over). `Update` assumes that the operator runs the update again
and that it is not cut off every time at the same step (strong fairness of each
step up to the manifest). It assumes nothing about restarts but the script's own:
nothing in the code restarts an agent that runs.

## 4. Proofs

`AgentRegistryProofs` proves, for all sets of connections, machines, names and
certificates, from the assumptions that certificates are records over these
sets, that canonical and friendly names differ (a dot) and that `None` is none
of them:

- `TypeCorrect`, `EntriesAreOwned`, `NobodyStranded`, `OwnEvictions`,
  `HostKeysVerified`: `Spec` implies that `TypeOK`, `NoOrphanEntry`,
  `NoStrandedAgent`, `EvictsOwnOnly` and `HostKeyDerivesName` always hold;
- `Refinement`: `Spec` implies `ImplementsDirectory`.

The argument. None of the five is inductive alone: whether a handler's removal
leaves an orphan depends on which names it may have registered at that point of
its life, and whether a replaced connection may be forgotten depends on who
still has to close it. `Phases` says, for each program counter, which names are
on the handler's list and whether it can have a connection to close; `IInv` is
its conjunction with the five. One lemma per action shows that the action keeps
`IInv`; `Invariance` combines them, and each theorem is a consequence. For the
refinement, each action either leaves every name's holder alone, takes a free
name for an entitled machine, replaces a connection of the same machine (a
stutter), or gives up one name.

The same module goes on to `RevokedAgents`, from the registry's invariant:

- `SweepIsComplete`: `RASpec` implies that `SweepMissesNobody` always holds. It is
  inductive with `IInv` and `Owed`: an open connection the sweep owes a `Close` is
  still in its snapshot, or has been replaced and its replacer is about to close it.
- `CompositionImplementsRevocations`: `RASpec` implies `Rev!RevSpec`, every step of
  the registry and of the sweep being a stutter of the file's part. So what
  `StateFilesProofs` shows of `Revocations` holds in the composition as well.

`AgentProofs` proves, for all delays with `2 <= MinBackoff <= MaxBackoff`, every
keepalive interval and any set of host keys, that `AgentTypeOK`, `DelayBounded`
and `NameSurvives` always hold of `AgentSpec`. `NameSurvives` is
inductive with the types, as it speaks of the files beside the running process;
`FilesInv` has the steps that change them. The bound on a sleep needs
that the delay it was computed from is at least `MinBackoff` (`DelayPositive`), so
that the jitter has something to be drawn from, and that jitter is less than half
of it; doubling happens only below `MaxBackoff`, which gives the factor two, and
the jitter the factor three.

`KeepalivesAreBounded` takes two hypotheses more, both true of the code: a tick is
shorter than `HealthySession` and than `MaxBackoff` (25s against 60s). The bound is a
power of two, which no invariant about a count carries; `SpacedInv` is about the gaps
instead. Two keepalives in a row are apart by the delay slept between their sessions
(`Gaps`), the i-th gap being at least `MinBackoff` doubled i - 1 times; the delay now
is the next of the row (`DelayedBy`); and the newest one lags behind the sleep, the
session or the session's own keepalive by as much (`Sleeping`, `InSession`,
`KeeperBehind`). A session long enough to reset the delay, or a delay at its longest,
outlasts a tick, and then none is left. When the first returns the others move up a
place, where smaller gaps are asked for. The sum of the gaps, by induction, is the
bound.

It also proves, for any number of builds, that `UpdTypeOK` and `AlwaysABinary`
always hold of `UpdSpec`. The strengthening is `SwapsWhole`: what the rename is
about to put in place is a whole build, either the file that was verified or
copied, or, in a rollback, the previous binary.

`StateFilesProofs` is about all files of the proxy. Of `revoked_keys`, for any number
of keys, commands and writes:

- `StampIsSound`. Inductive with `ReloadSound`: neither stamp is ahead of the
  file, and what `reload` has read and not applied yet is the file, unless the
  file has a newer version than the stamp it took first. That stat comes before
  read is what carries it.
- `ReportedRevocationsStick`: `RevocationSticks`, for any number of operators.
  `NothingLost` says of a key that is promised and not raced that it is in the file
  and in what every command under way has read: whichever of them writes next writes
  it too, unless it is the one that un-revokes it. It begins to hold when the
  report is made with no other command under way, which is what `raced` tells.

Of the other two, for any number of machines and names: `ForgottenNamesAreFree` and
`ForgottenMachinesLeave`. The invariant follows what was forgotten through the
stages (written, read by a reload, applied) and says at each one which of the file,
the command's copy, the reload's copy and the map cannot hold it. For a name this
takes no exception; for a machine `overwritten` is one, the save by the running
proxy told of above.

`SessionProofs`, for any number of jumps and sessions. In `Tunnel`, `JumpPhase` says
for each step of `serveJump` what has become of `OpenChannel` and whose the channel
is, `OutPhase` why the copy of the output has ended; `TunnelsAreOwned` and
`PipeTruncatesNothing` follow. In `EmbeddedServer`, `SessionSound` is about one
session's record and the tunnel, which never opens again: what has been started,
and what the output copy has seen when it ends (`CopyOver`). `OneSession` reduces
every action on a session to its own record. `ChannelsServeOneThing`,
`OutputComesFirst` and `TimerSparesTheServed` follow, the last from `hsDone` alone.

`AdmissionProofs` and `EnrollProofs`, for a finite number of sockets or requests and
any limits: `SlotsAreConserved` and `ArgonIsConserved` count the holders of a slot
along each action; `EnrolSlotsFit` gives the bound on memory.
`ForgedHeadersChangeNothing` is about the operator: every connection is attributed
to the client it comes from. `WithdrawnBuysNothing` proves `WithdrawnStopsWorking` for
one operator at a time, following a password from the file through the reload's
copy to the snapshot a request took.

`LimiterProofs` is about the limiter as a value, for slices of any length. The
library's induction theorems are out of the provers' reach, as they take an operator;
that `<` is well founded and that a nonempty set then has a least element (`WFMin`)
are not, which gives induction in terms of a set (`Least`, `Induct`, `SeqInduct`).
With it, `RecentRuns` shows that the loop is defined on every slice, and the lemmas
after it what it keeps: of an appended slice, of its own result, of a later time, and
of the newest element. `AllowCountsExactly` is what users of the limiter need:
an event is let through exactly when fewer than `Burst` are recent, and this is the
only change of what is recent, at this or any later time, whatever was pruned or
swept. `WellSwept` is the invariant of the map: no address whose newest event is
older than a window before the last sweep.

- `AttemptsAreBounded` (`EnrollProofs`): what was admitted is recent for the limiter
  at every time to come, so that its verdict bounds `admitted` too (`LimitInv`).
- `GuessesAreBounded` (`AdmissionProofs`), which is harder, as the count is read
  before the handshake and raised after it, and only up to the burst. `FailInv` says
  that, for every time t from now on and N sockets, the failures within the window
  that ends at t and the unrecorded ones still in flight are at most N times those
  the limiter has on record, and N - 1: each that is recorded pays for those in flight
  with it, and one group may be left over from failures that have left the window.
- `OnlyGuessersAreRefused`: what the limiter has on record of an address is never
  more than its client has done, whatever stands in a header.
- `StaleAddressesAreSwept`: `WellSwept` along `Admission`'s steps.
- `AdmissionTypes` and `EnrollTypes`.

`FleetProofs`, for any number of machines, platforms and deployments:

- `NobodyVanishes`. `NobodyLost` says where a machine that has to be shown is at each
  stage of a request: in the registry or the record; then in what was read of the
  registry, or the record; then in what was read; or, at each, among the dropped. It needs that a handler has
  recorded its machine before it can remove it (`SeenBeforeRemoved`), and that both
  requests read the registry first.
- `OldBuildsAreFlagged`. `NothingOlder` says that files, map, scan and what the
  request has read hold no build before the one that was settled when the request
  began. That it holds when a request begins takes `FilesFollow` and `ScanFollows`:
  with no deployment under way and no signal pending, a scan can have read the
  last build only.

The assumptions are those of the modules (`...Assumption`), which TLC evaluates on
every run, and the hypotheses that stand in two theorems: one operator of the
password commands in `WithdrawnBuysNothing`, and the short tick of
`KeepalivesAreBounded`.

Only model-checked, and why: the liveness properties, fairness and `ENABLED` being
beyond the prover. These are `SilentAgentLeaves`, `RevocationReachesProxy`,
`RevokedAgentIsDropped`, `JumpIsAnswered`, `ChannelsEndTogether`, `SilentTunnelEnds`,
`ShellEndsWithSession`, `SilentClientLetGo`, `AgentComesBack`, `DeployedIsInstalled`
and `UpdateConverges`. `LiveConnectionWins` is false of the code, as its run shows.

## 5. Not modelled, and the plan

Not modelled on purpose: cryptography, terminal handling, HTML, flags and
listener set-up, the service wrappers, and the build and deployment scripts, which
keep no state of the program. `authorize.sh` and the interactive half of
`forget.sh` and `update-agents.sh` are sequential scripts that edit text or ask
questions. `install.ps1` follows `install.sh`; the first installation and
`--uninstall` run once, with nothing to race. Version strings and names are pure
functions of one input. The programs under `docs/spikes` are experiments and no
part of the system.

Left to do: `Agent` composed with `AgentRegistry`, so that `SerialSpec` is what
`maintain` does rather than an assumption about agents; and with two operators, what
the password commands still guarantee.
