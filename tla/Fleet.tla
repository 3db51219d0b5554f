------------------------------- MODULE Fleet -------------------------------
(* What the proxy hands out and shows about its agents: the distributor, whose  *)
(* directory a deployment fills and whose scan a SIGHUP starts; an installer,   *)
(* which gets its checksum and its binary in two requests; the handlers that    *)
(* enter machines into the registry and the last-seen record, which each saves  *)
(* to its file and a SIGHUP reads back; and the listing and health requests,    *)
(* which read all of these one lock at a time. A build is its number: an agent  *)
(* of one platform never matches the build of another.                          *)
EXTENDS Integers, FiniteSets

CONSTANTS
  Machines,
  Platforms,
  PlatformOf,   \* of each machine
  Target,       \* the platform of the installer
  FirstBuild,   \* what is served when the proxy starts; 0 is nothing
  MaxBuild,     \* bound: the last deployment
  AgentBuilds   \* the builds agents run; 0 is one too old to report it

ASSUME FleetAssumption ==
  /\ PlatformOf \in [Machines -> Platforms] /\ Target \in Platforms
  /\ MaxBuild \in Nat /\ FirstBuild \in 0..MaxBuild /\ AgentBuilds \subseteq 0..MaxBuild

VARIABLES
  files,     \* the build in each platform's file; 0 is none
  hashes,    \* the distributor's map
  deploy,    \* the deployment: its build, and the files it has yet to replace
  hup,       \* the SIGHUP loop: a signal in the channel, the scan in progress
  rpc,       \* the loop's reload of last_seen, after the scan
  fresh,     \* what it has read of the file
  inst,      \* the installer, run again and again
  handler,   \* where handleAgent is, for each machine, and its agent's build
  registry,  \* machines registered
  known,     \* machines in the last-seen record
  lastSeen,  \* machines in its file
  saving,    \* each handler's seen(): nothing, save() due, file truncated
  dropped,   \* history: machines a reload took out of the record, not seen since
  view       \* a listing or health request and what it has read

dist == <<files, hashes, deploy, hup, inst>>
reload == <<rpc, fresh>>
agents == <<handler, registry, known, lastSeen, saving, dropped>>
fleetVars == <<dist, reload, agents, view>>

Builds == 0..MaxBuild
Catalogue == [Platforms -> Builds]
NoBuilds == [p \in Platforms |-> 0]
NoView == [at |-> "idle"]

\* Faulty variant: the last-seen record before the registry.
OrderKnownFirst ==
  [listing |-> <<"builds", "serving", "known", "registry">>,
   health  |-> <<"known", "registry", "builds", "serving">>]

\* The requests' reads, in the order each makes them.
Order == [listing |-> <<"builds", "serving", "registry", "known">>,
          health  |-> <<"registry", "known", "builds", "serving">>]

FleetTypeOK ==
  /\ files \in Catalogue /\ hashes \in Catalogue
  /\ deploy \in [build : Builds, left : SUBSET Platforms, signal : BOOLEAN]
  /\ hup \in [pending : BOOLEAN, scanning : BOOLEAN, left : SUBSET Platforms,
              sums : Catalogue, failed : BOOLEAN]
  /\ inst \in [at : {"idle", "script"}, want : Builds, installed : Builds]
  /\ handler \in [Machines -> [at : {"out", "added", "up", "ending"},
                               build : Builds]]
  /\ rpc \in {"no", "read", "apply"} /\ fresh \subseteq Machines
  /\ registry \subseteq Machines /\ known \subseteq Machines
  /\ lastSeen \subseteq Machines /\ dropped \subseteq Machines
  /\ saving \in [Machines -> {"no", "due", "cut"}]
  /\ view \in {NoView} \cup
       [at : 1..5, kind : DOMAIN Order, current : SUBSET (Platforms \X Builds),
        know : BOOLEAN, online : SUBSET (Machines \X Builds), known : SUBSET Machines,
        dropped : SUBSET Machines, before : SUBSET Machines, settled : Builds]

\* FirstBuild is served and installed, and a SIGHUP may be under way, an operator's
\* after -forget, which the loop takes up sooner or later.
FleetInit ==
  /\ files = [p \in Platforms |-> FirstBuild] /\ hashes = files
  /\ deploy = [build |-> FirstBuild, left |-> {}, signal |-> FALSE]
  /\ hup \in [pending : BOOLEAN, scanning : {FALSE}, left : {{}}, sums : {NoBuilds},
              failed : {FALSE}]
  /\ inst = [at |-> "idle", want |-> 0, installed |-> FirstBuild]
  /\ handler = [m \in Machines |-> [at |-> "out", build |-> 0]]
  /\ rpc = "no" /\ fresh = {}
  /\ registry = {} /\ known = {} /\ lastSeen = {} /\ dropped = {}
  /\ saving = [m \in Machines |-> "no"]
  /\ view = NoView

-----------------------------------------------------------------------------
(* A deployment: each file is renamed into place, then the proxy is reloaded.   *)

DeployBegins ==
  /\ deploy.left = {} /\ ~deploy.signal
  /\ deploy.build < MaxBuild
  /\ deploy' = [build |-> deploy.build + 1, left |-> Platforms, signal |-> TRUE]
  /\ UNCHANGED <<files, hashes, hup, inst, reload, agents, view>>

DeployReplaces ==
  /\ \E p \in deploy.left :
       /\ files' = [files EXCEPT ![p] = deploy.build]
       /\ deploy' = [deploy EXCEPT !.left = @ \ {p}]
  /\ UNCHANGED <<hashes, hup, inst, reload, agents, view>>

\* Faulty variant: nothing buffers a signal that comes during a reload.
DeploySignalLost ==
  /\ deploy.signal /\ deploy.left = {}
  /\ deploy' = [deploy EXCEPT !.signal = FALSE]
  /\ hup' = IF hup.scanning THEN hup ELSE [hup EXCEPT !.pending = TRUE]
  /\ UNCHANGED <<files, hashes, inst, reload, agents, view>>

\* SIGHUP, held by a channel of one place.
DeploySignals ==
  /\ deploy.signal /\ deploy.left = {}
  /\ deploy' = [deploy EXCEPT !.signal = FALSE]
  /\ hup' = [hup EXCEPT !.pending = TRUE]
  /\ UNCHANGED <<files, hashes, inst, reload, agents, view>>

-----------------------------------------------------------------------------
(* distributor.scan and serveBinary.                                            *)

\* The directory's names are read, and those of the right shape taken, ...
ScanReadsDir ==
  /\ hup.pending /\ ~hup.scanning /\ rpc = "no"
  /\ hup' = [hup EXCEPT !.pending = FALSE, !.scanning = TRUE,
                        !.left = {p \in Platforms : files[p] # 0}, !.failed = FALSE]
  /\ UNCHANGED <<files, hashes, deploy, inst, reload, agents, view>>

\* ... or the directory cannot be read, and the map stays.
ScanFails ==
  /\ hup.pending /\ ~hup.scanning /\ rpc = "no"
  /\ hup' = [hup EXCEPT !.pending = FALSE, !.failed = TRUE]
  /\ rpc' = "read"
  /\ UNCHANGED <<files, hashes, deploy, inst, fresh, agents, view>>

\* The files are hashed one by one; ...
ScanHashes ==
  /\ \E p \in hup.left :
       hup' = [hup EXCEPT !.left = @ \ {p}, !.sums[p] = files[p]]
  /\ UNCHANGED <<files, hashes, deploy, inst, reload, agents, view>>

\* ... one that cannot be read is left out; ...
ScanSkips ==
  /\ \E p \in hup.left :
       hup' = [hup EXCEPT !.left = @ \ {p}, !.failed = TRUE]
  /\ UNCHANGED <<files, hashes, deploy, inst, reload, agents, view>>

\* ... and the new map put in place. The loop goes on to the other reloads.
ScanInstalls ==
  /\ hup.scanning /\ hup.left = {}
  /\ hashes' = hup.sums
  /\ hup' = [hup EXCEPT !.scanning = FALSE, !.sums = NoBuilds]
  /\ rpc' = "read"
  /\ UNCHANGED <<files, deploy, inst, fresh, agents, view>>

\* renderScript: the checksum of the platform's build goes into the script.
InstallerGetsScript ==
  /\ inst.at = "idle"
  /\ hashes[Target] # 0
  /\ inst' = [inst EXCEPT !.at = "script", !.want = hashes[Target]]
  /\ UNCHANGED <<files, hashes, deploy, hup, reload, agents, view>>

\* serveBinary: what is in the file by now, if the map has the platform. The
\* installer keeps what has the checksum and gives up on what has not.
InstallerFetches ==
  /\ inst.at = "script"
  /\ hashes[Target] # 0
  /\ inst' = [at |-> "idle", want |-> 0,
              installed |-> IF files[Target] = inst.want THEN inst.want ELSE inst.installed]
  /\ UNCHANGED <<files, hashes, deploy, hup, reload, agents, view>>

\* The map has it no more, or the download fails.
InstallerDies ==
  /\ inst.at = "script"
  /\ inst' = [inst EXCEPT !.at = "idle", !.want = 0]
  /\ UNCHANGED <<files, hashes, deploy, hup, reload, agents, view>>

-----------------------------------------------------------------------------
(* handleAgent, as far as the registry and the last-seen record show it.        *)

To(m, pc) == handler' = [handler EXCEPT ![m].at = pc]

\* sightings.mu is free: a save holds it from the truncation to the end of the write.
SeenUnlocked == \A m \in Machines : saving[m] # "cut"

\* seen, up to the unlock before it calls save.
Seen(m) ==
  /\ SeenUnlocked
  /\ known' = known \cup {m}
  /\ dropped' = dropped \ {m}
  /\ saving' = [saving EXCEPT ![m] = "due"]

\* An agent is registered, whatever its build, ...
AgentAdds(m) ==
  /\ handler[m].at = "out"
  /\ \E b \in AgentBuilds :
       handler' = [handler EXCEPT ![m] = [at |-> "added", build |-> b]]
  /\ registry' = registry \cup {m}
  /\ UNCHANGED <<dist, reload, known, lastSeen, saving, dropped, view>>

\* ... recorded as seen, ...
AgentSeen(m) ==
  /\ handler[m].at = "added"
  /\ To(m, "up")
  /\ Seen(m)
  /\ UNCHANGED <<dist, reload, registry, lastSeen, view>>

\* ... and when its connection ends recorded once more ...
AgentEnds(m) ==
  /\ handler[m].at = "up" /\ saving[m] = "no"
  /\ To(m, "ending")
  /\ Seen(m)
  /\ UNCHANGED <<dist, reload, registry, lastSeen, view>>

\* ... and removed.
AgentRemoved(m) ==
  /\ handler[m].at = "ending" /\ saving[m] = "no"
  /\ handler' = [handler EXCEPT ![m] = [at |-> "out", build |-> 0]]
  /\ registry' = registry \ {m}
  /\ UNCHANGED <<dist, reload, known, lastSeen, saving, dropped, view>>

\* save: os.WriteFile truncates the file ...
SaveBegins(m) ==
  /\ saving[m] = "due" /\ SeenUnlocked
  /\ lastSeen' = {}
  /\ saving' = [saving EXCEPT ![m] = "cut"]
  /\ UNCHANGED <<dist, reload, handler, registry, known, dropped, view>>

\* ... and writes the record.
SaveEnds(m) ==
  /\ saving[m] = "cut"
  /\ lastSeen' = known
  /\ saving' = [saving EXCEPT ![m] = "no"]
  /\ UNCHANGED <<dist, reload, handler, registry, known, dropped, view>>

\* proxy -forget, a process of its own (StateFiles has its steps).
Forget(m) ==
  /\ m \in lastSeen
  /\ lastSeen' = lastSeen \ {m}
  /\ UNCHANGED <<dist, reload, handler, registry, known, saving, dropped, view>>

\* The SIGHUP loop, after the scan: sightings.reload reads the file, without the
\* lock, ...
SeenReads ==
  /\ rpc = "read"
  /\ fresh' = lastSeen
  /\ rpc' = "apply"
  /\ UNCHANGED <<dist, agents, view>>

\* ... or cannot, and the record stays; ...
SeenReadFails ==
  /\ rpc = "read"
  /\ rpc' = "no"
  /\ UNCHANGED <<dist, fresh, agents, view>>

\* ... and replaces the record under it.
SeenApplies ==
  /\ rpc = "apply" /\ SeenUnlocked
  /\ known' = fresh
  /\ dropped' = (dropped \cup known) \ fresh
  /\ rpc' = "no" /\ fresh' = {}
  /\ UNCHANGED <<dist, handler, registry, lastSeen, saving, view>>

-----------------------------------------------------------------------------
(* serveListing and serveHealth.                                                *)

\* Faulty variant: what was served before counts too.
buildsEver == {t \in Platforms \X Builds : 0 < t[2] /\ t[2] <= hashes[t[1]]}

builds == {<<p, hashes[p]>> : p \in {q \in Platforms : hashes[q] # 0}}
serving == builds # {}

\* The deployed builds, if the last reload went well and nothing is under way.
Settled ==
  IF deploy.left = {} /\ ~deploy.signal /\ ~hup.pending /\ ~hup.scanning /\ ~hup.failed
  THEN deploy.build ELSE 0

ViewBegins ==
  /\ view = NoView
  /\ \E k \in DOMAIN Order :
       view' = [at |-> 1, kind |-> k, current |-> {}, know |-> FALSE, online |-> {},
                known |-> {}, dropped |-> {}, before |-> registry \cup known,
                settled |-> Settled]
  /\ UNCHANGED <<dist, reload, agents>>

Reading(what) ==
  view # NoView /\ view.at <= 4 /\ Order[view.kind][view.at] = what

ReadBuilds ==
  /\ Reading("builds")
  /\ view' = [view EXCEPT !.at = @ + 1, !.current = builds]
  /\ UNCHANGED <<dist, reload, agents>>

ReadServing ==
  /\ Reading("serving")
  /\ view' = [view EXCEPT !.at = @ + 1, !.know = serving]
  /\ UNCHANGED <<dist, reload, agents>>

ReadRegistry ==
  /\ Reading("registry")
  /\ view' = [view EXCEPT !.at = @ + 1,
                !.online = {<<m, handler[m].build>> : m \in registry}]
  /\ UNCHANGED <<dist, reload, agents>>

ReadKnown ==
  /\ Reading("known") /\ SeenUnlocked
  /\ view' = [view EXCEPT !.at = @ + 1, !.known = known, !.dropped = dropped]
  /\ UNCHANGED <<dist, reload, agents>>

\* The answer is written.
ViewEnds ==
  /\ view # NoView /\ view.at = 5
  /\ view' = NoView
  /\ UNCHANGED <<dist, reload, agents>>

\* Shown when all is read: the machines online with what is said of their build,
\* and the others that are known.
Complete == view # NoView /\ view.at = 5
Online == {t[1] : t \in view.online}
Missing == view.known \ Online

buildState(m, b) ==
  IF ~view.know \/ b = 0 THEN ""
  ELSE IF <<PlatformOf[m], b>> \in view.current THEN "current" ELSE "OUTDATED"

Scan == ScanReadsDir \/ ScanHashes \/ ScanInstalls
SeenReload == SeenReads \/ SeenReadFails \/ SeenApplies
Install == InstallerGetsScript \/ InstallerFetches \/ InstallerDies

FleetNext ==
  \/ DeployBegins \/ DeployReplaces \/ DeploySignals
  \/ Scan \/ ScanFails \/ ScanSkips \/ SeenReload \/ Install
  \/ \E m \in Machines :
       \/ AgentAdds(m) \/ AgentSeen(m) \/ AgentEnds(m) \/ AgentRemoved(m)
       \/ SaveBegins(m) \/ SaveEnds(m) \/ Forget(m)
  \/ ViewBegins \/ ReadBuilds \/ ReadServing \/ ReadRegistry \/ ReadKnown \/ ViewEnds

FleetSpec == FleetInit /\ [][FleetNext]_fleetVars

\* Deployments come to their end, the reload loop runs and gets its mutex among
\* the saves, and the installer is run again until it works; downloads do not fail
\* for ever.
FleetFairSpec ==
  /\ FleetSpec
  /\ WF_fleetVars(DeployReplaces \/ DeploySignals)
  /\ WF_fleetVars(Scan) /\ WF_fleetVars(SeenReads) /\ SF_fleetVars(SeenApplies)
  /\ \A m \in Machines : WF_fleetVars(SaveEnds(m))
  /\ WF_fleetVars(InstallerGetsScript) /\ SF_fleetVars(InstallerFetches)

-----------------------------------------------------------------------------
(* Properties.                                                                  *)

\* A machine that was registered or on record when a request began counts in its
\* answer, online or not connected, though it may register, leave and be seen
\* between the reads (serveListing and serveHealth, handleAgent). One thing alone
\* takes a machine out of sight: a SIGHUP's reload of a last_seen that had not
\* got it, as while a save had truncated the file, and that only until it is seen
\* again ("losing this costs history only").
NoMachineVanishes ==
  Complete => view.before \subseteq Online \cup Missing \cup view.dropped

\* Once a deployment has been reloaded, every listing that begins calls agents of
\* an earlier build outdated, whatever is deployed and reloaded while it reads
\* ("the listing flips to OUTDATED", docs/security.md); only if a reload in the
\* meantime could read no file at all is nothing said of any build (buildState,
\* distributor.serving).
OldBuildsFlagged ==
  Complete /\ view.know => \A t \in view.online :
    0 < t[2] /\ t[2] < view.settled => buildState(t[1], t[2]) = "OUTDATED"

\* After the last deployment, if its reload could read the files, the installer
\* gets that very build: no scan in progress when the signal came, and no
\* checksum taken between the files, stands in its way for good.
DeployedIsInstalled ==
  []<>(inst.installed = files[Target] \/ deploy.left # {} \/ deploy.signal \/ hup.failed)
=============================================================================
