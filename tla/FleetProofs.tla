---------------------------- MODULE FleetProofs ----------------------------
(* Proofs about the listing, for any number of machines, platforms and          *)
(* deployments. Two invariants carry them. A machine that a request has to show *)
(* is, at every stage, in what the request has read or in what it has yet to    *)
(* read. And what the distributor has, reads or has been asked about is never   *)
(* older than what was deployed when the request began.                         *)
EXTENDS Fleet, TLAPS

\* On record, or taken out of it by a reload and not seen since.
OnRecord == known \cup dropped

\* A handler records its machine as seen before it can remove it.
SeenBeforeRemoved ==
  \A m \in Machines : handler[m].at \in {"up", "ending"} => m \in OnRecord

RegistryRead == view.at > (IF view.kind = "listing" THEN 3 ELSE 1)
KnownRead == view.at > (IF view.kind = "listing" THEN 4 ELSE 2)

\* Where a machine is that the request has to show.
Found(m) ==
  /\ ~RegistryRead => m \in registry \cup OnRecord
  /\ RegistryRead /\ ~KnownRead => m \in Online \cup OnRecord
  /\ KnownRead => m \in Online \cup view.known \cup view.dropped

NobodyLost == view # NoView => \A m \in view.before : Found(m)

\* The files are the last two builds, and the last one where they are replaced;
\* until all are, the signal is still to come.
FilesFollow ==
  /\ \A p \in Platforms :
       files[p] = IF p \in deploy.left THEN deploy.build - 1 ELSE deploy.build
  /\ deploy.left # {} => deploy.signal

\* No deployment is under way, nor waiting for a reload.
Quiet == deploy.left = {} /\ ~deploy.signal /\ ~hup.pending

\* The reload loop: a scan that no deployment has disturbed has the last build of
\* what it has read, and so has the map that such a scan left.
ScanFollows ==
  /\ ~hup.scanning => hup.left = {} /\ hup.sums = NoBuilds
  /\ Quiet => \A p \in Platforms : hup.sums[p] \in {0, deploy.build}
  /\ Quiet /\ ~hup.scanning /\ ~hup.failed =>
       \A p \in Platforms : hashes[p] \in {0, deploy.build}

\* Nothing older than the builds deployed when the request began is left.
NothingOlder ==
  view # NoView =>
    /\ view.settled <= deploy.build
    /\ \A p \in Platforms :
         /\ files[p] >= view.settled
         /\ hashes[p] = 0 \/ hashes[p] >= view.settled
         /\ hup.sums[p] = 0 \/ hup.sums[p] >= view.settled
    /\ \A t \in view.current : t[2] >= view.settled

FleetInv ==
  /\ FleetTypeOK /\ SeenBeforeRemoved /\ NobodyLost
  /\ FilesFollow /\ ScanFollows /\ NothingOlder

-----------------------------------------------------------------------------
(* Types.                                                                       *)

Kinds == {"listing", "health"}

Views ==
  [at : 1..5, kind : Kinds, current : SUBSET (Platforms \X Builds), know : BOOLEAN,
   online : SUBSET (Machines \X Builds), known : SUBSET Machines,
   dropped : SUBSET Machines, before : SUBSET Machines, settled : Builds]

LEMMA KindsOfView == DOMAIN Order = Kinds
BY DEF Order, Kinds

LEMMA ViewType ==
  ASSUME FleetTypeOK, view # NoView
  PROVE  view \in Views
BY KindsOfView DEF FleetTypeOK, Views

LEMMA BuildsType == Builds \subseteq Nat /\ 0 \in Builds
BY FleetAssumption DEF Builds

DistTypes ==
  /\ files \in Catalogue /\ hashes \in Catalogue
  /\ deploy \in [build : Builds, left : SUBSET Platforms, signal : BOOLEAN]
  /\ hup \in [pending : BOOLEAN, scanning : BOOLEAN, left : SUBSET Platforms,
              sums : Catalogue, failed : BOOLEAN]
  /\ inst \in [at : {"idle", "script"}, want : Builds, installed : Builds]

ReloadTypes == rpc \in {"no", "read", "apply"} /\ fresh \subseteq Machines

AgentTypes ==
  /\ handler \in [Machines -> [at : {"out", "added", "up", "ending"}, build : Builds]]
  /\ registry \subseteq Machines /\ known \subseteq Machines
  /\ lastSeen \subseteq Machines /\ dropped \subseteq Machines
  /\ saving \in [Machines -> {"no", "due", "cut"}]

LEMMA TypesSplit ==
  FleetTypeOK <=>
    DistTypes /\ ReloadTypes /\ AgentTypes /\ view \in {NoView} \cup Views
BY KindsOfView DEF FleetTypeOK, DistTypes, ReloadTypes, AgentTypes, Views

LEMMA TypesSplitNext ==
  FleetTypeOK' <=>
    DistTypes' /\ ReloadTypes' /\ AgentTypes' /\ view' \in {NoView} \cup Views
BY KindsOfView DEF FleetTypeOK, DistTypes, ReloadTypes, AgentTypes, Views

LEMMA FleetInvInit == FleetInit => FleetInv
<1> SUFFICES ASSUME FleetInit PROVE FleetInv
  OBVIOUS
<1>0. FirstBuild \in Builds
  BY FleetAssumption DEF Builds
<1>1. FleetTypeOK
  <2>1. DistTypes
    BY <1>0, BuildsType DEF FleetInit, DistTypes, Catalogue, NoBuilds
  <2>2. ReloadTypes /\ AgentTypes /\ view = NoView
    BY BuildsType DEF FleetInit, ReloadTypes, AgentTypes
  <2> QED
    BY <2>1, <2>2, TypesSplit
<1>2. SeenBeforeRemoved /\ NobodyLost /\ NothingOlder
  BY DEF FleetInit, SeenBeforeRemoved, NobodyLost, NothingOlder
<1>3. FilesFollow /\ ScanFollows
  BY DEF FleetInit, FilesFollow, ScanFollows, NoBuilds
<1> QED
  BY <1>1, <1>2, <1>3 DEF FleetInv

-----------------------------------------------------------------------------
(* The machines.                                                                *)

LEMMA ListUntouched ==
  ASSUME FleetInv, UNCHANGED <<agents, view>>
  PROVE  AgentTypes' /\ SeenBeforeRemoved' /\ NobodyLost' /\ view' \in {NoView} \cup Views
<1>1. AgentTypes /\ view \in {NoView} \cup Views
  BY TypesSplit DEF FleetInv
<1> QED
  BY <1>1 DEF FleetInv, agents, AgentTypes, SeenBeforeRemoved, NobodyLost, Found,
              RegistryRead, KnownRead, OnRecord, Online

LEMMA ReloadUntouched ==
  ASSUME FleetInv, UNCHANGED reload
  PROVE  ReloadTypes'
<1>1. ReloadTypes
  BY TypesSplit DEF FleetInv
<1> QED
  BY <1>1 DEF ReloadTypes, reload

LEMMA DistUntouched ==
  ASSUME FleetInv, UNCHANGED dist
  PROVE  DistTypes' /\ FilesFollow' /\ ScanFollows'
<1>1. DistTypes
  BY TypesSplit DEF FleetInv
<1> QED
  BY <1>1 DEF FleetInv, dist, DistTypes, FilesFollow, ScanFollows, Quiet

\* What a handler's step, or a reload's, means for a request: nothing leaves the
\* record but what a reload drops, and a machine that leaves the registry is on it.
LEMMA StillFound ==
  ASSUME FleetInv, UNCHANGED view, OnRecord \subseteq OnRecord',
         registry \subseteq registry' \cup OnRecord'
  PROVE  NobodyLost'
BY DEF FleetInv, NobodyLost, Found, RegistryRead, KnownRead, Online

LEMMA OneHandler ==
  ASSUME FleetInv, NEW m \in Machines, NEW pc \in {"out", "added", "up", "ending"},
         NEW b \in Builds, handler' = [handler EXCEPT ![m] = [at |-> pc, build |-> b]],
         OnRecord \subseteq OnRecord', registry' \subseteq Machines,
         known' \subseteq Machines, dropped' \subseteq Machines,
         lastSeen' \subseteq Machines, saving' \in [Machines -> {"no", "due", "cut"}],
         pc \in {"up", "ending"} => m \in OnRecord'
  PROVE  AgentTypes' /\ SeenBeforeRemoved'
<1>1. AgentTypes /\ SeenBeforeRemoved
  BY TypesSplit DEF FleetInv
<1>2. AgentTypes'
  BY <1>1 DEF AgentTypes
<1>3. ASSUME NEW k \in Machines, handler'[k].at \in {"up", "ending"} PROVE k \in OnRecord'
  <2>1. CASE k = m
    <3>1. handler'[k].at = pc
      BY <1>1, <2>1 DEF AgentTypes
    <3> QED
      BY <1>3, <2>1, <3>1
  <2>2. CASE k # m
    <3>1. handler'[k] = handler[k]
      BY <1>1, <2>2 DEF AgentTypes
    <3> QED
      BY <1>1, <1>3, <3>1 DEF SeenBeforeRemoved
  <2> QED
    BY <2>1, <2>2
<1> QED
  BY <1>2, <1>3 DEF SeenBeforeRemoved

LEMMA SeenEffect ==
  ASSUME FleetInv, NEW m \in Machines, Seen(m)
  PROVE  /\ OnRecord \subseteq OnRecord' /\ m \in OnRecord'
         /\ known' \subseteq Machines /\ dropped' \subseteq Machines
         /\ saving' \in [Machines -> {"no", "due", "cut"}]
<1>1. AgentTypes
  BY TypesSplit DEF FleetInv
<1>2. known' = known \cup {m} /\ dropped' = dropped \ {m}
  BY DEF Seen
<1> QED
  BY <1>1, <1>2 DEF Seen, OnRecord, AgentTypes

LEMMA AgentKeeps ==
  ASSUME FleetInv, NEW m \in Machines,
         AgentAdds(m) \/ AgentSeen(m) \/ AgentEnds(m) \/ AgentRemoved(m)
  PROVE  FleetInv'
<1>1. AgentTypes /\ view \in {NoView} \cup Views /\ SeenBeforeRemoved
  BY TypesSplit DEF FleetInv
<1>2. UNCHANGED dist /\ UNCHANGED reload /\ UNCHANGED view /\ UNCHANGED lastSeen
  BY DEF AgentAdds, AgentSeen, AgentEnds, AgentRemoved
<1>3. handler[m] \in [at : {"out", "added", "up", "ending"}, build : Builds]
  BY <1>1 DEF AgentTypes
<1>4. ASSUME NEW pc \in {"out", "added", "up", "ending"}, To(m, pc)
      PROVE  \E b \in Builds : handler' = [handler EXCEPT ![m] = [at |-> pc, build |-> b]]
  <2> DEFINE x == [handler[m] EXCEPT !.at = pc]
  <2>1. x = [at |-> pc, build |-> handler[m].build]
    BY <1>3
  <2>2. handler' = [handler EXCEPT ![m] = x]
    BY <1>4 DEF To
  <2> QED
    BY <1>3, <2>1, <2>2
<1>5. AgentTypes' /\ SeenBeforeRemoved' /\ NobodyLost'
  <2>1. CASE AgentAdds(m)
    <3>1. /\ registry' \subseteq Machines /\ registry \subseteq registry'
          /\ known' = known /\ dropped' = dropped /\ saving' = saving
      BY <1>1, <2>1 DEF AgentAdds, AgentTypes
    <3>2. PICK b \in Builds : handler' = [handler EXCEPT ![m] = [at |-> "added", build |-> b]]
      BY <2>1, FleetAssumption DEF AgentAdds, Builds
    <3>3. OnRecord' = OnRecord
      BY <3>1 DEF OnRecord
    <3> QED
      BY <1>1, <1>2, <3>1, <3>2, <3>3, OneHandler, StillFound DEF AgentTypes
  <2>2. CASE AgentSeen(m)
    <3>1. registry' = registry /\ Seen(m)
      BY <2>2 DEF AgentSeen
    <3>2. PICK b \in Builds : handler' = [handler EXCEPT ![m] = [at |-> "up", build |-> b]]
      BY <1>4, <2>2 DEF AgentSeen
    <3> QED
      BY <1>1, <1>2, <3>1, <3>2, SeenEffect, OneHandler, StillFound DEF AgentTypes
  <2>3. CASE AgentEnds(m)
    <3>1. registry' = registry /\ Seen(m)
      BY <2>3 DEF AgentEnds
    <3>2. PICK b \in Builds : handler' = [handler EXCEPT ![m] = [at |-> "ending", build |-> b]]
      BY <1>4, <2>3 DEF AgentEnds
    <3> QED
      BY <1>1, <1>2, <3>1, <3>2, SeenEffect, OneHandler, StillFound DEF AgentTypes
  <2>4. CASE AgentRemoved(m)
    <3>1. /\ registry' = registry \ {m} /\ m \in OnRecord
          /\ known' = known /\ dropped' = dropped /\ saving' = saving
      BY <1>1, <2>4 DEF AgentRemoved, SeenBeforeRemoved
    <3>2. handler' = [handler EXCEPT ![m] = [at |-> "out", build |-> 0]]
      BY <2>4 DEF AgentRemoved
    <3>3. OnRecord' = OnRecord
      BY <3>1 DEF OnRecord
    <3> QED
      BY <1>1, <1>2, <3>1, <3>2, <3>3, BuildsType, OneHandler, StillFound DEF AgentTypes
  <2> QED
    BY <2>1, <2>2, <2>3, <2>4
<1>6. NothingOlder'
  BY <1>2 DEF FleetInv, NothingOlder, dist
<1>7. FleetTypeOK'
  BY <1>1, <1>2, <1>5, DistUntouched, ReloadUntouched, TypesSplitNext
<1> QED
  BY <1>2, <1>5, <1>6, <1>7, DistUntouched DEF FleetInv

\* What a save or another process makes of the file, and a reload of the record.
LEMMA RecordKeeps ==
  ASSUME FleetInv, SeenReload \/ \E m \in Machines : SaveBegins(m) \/ SaveEnds(m) \/ Forget(m)
  PROVE  FleetInv'
<1>1. AgentTypes /\ ReloadTypes /\ view \in {NoView} \cup Views /\ SeenBeforeRemoved
  BY TypesSplit DEF FleetInv
<1>2. UNCHANGED <<files, hashes, deploy, hup, inst>> /\ UNCHANGED <<handler, registry, view>>
  BY DEF SeenReload, SeenReads, SeenReadFails, SeenApplies, SaveBegins, SaveEnds, Forget,
         dist, agents
<1>3. AgentTypes' /\ ReloadTypes' /\ OnRecord \subseteq OnRecord'
  <2>1. CASE SeenReads \/ SeenReadFails
    BY <1>1, <2>1 DEF SeenReads, SeenReadFails, AgentTypes, ReloadTypes, OnRecord, agents
  <2>2. CASE SeenApplies
    <3>1. /\ known' = fresh /\ dropped' = (dropped \cup known) \ fresh
          /\ rpc' = "no" /\ fresh' = {} /\ UNCHANGED <<handler, registry, lastSeen, saving>>
      BY <2>2 DEF SeenApplies
    <3> QED
      BY <1>1, <3>1 DEF AgentTypes, ReloadTypes, OnRecord
  <2>3. ASSUME NEW m \in Machines, SaveBegins(m) \/ SaveEnds(m) \/ Forget(m)
        PROVE  AgentTypes' /\ ReloadTypes' /\ OnRecord \subseteq OnRecord'
    <3>1. UNCHANGED <<handler, registry, known, dropped, rpc, fresh>>
      BY <2>3 DEF SaveBegins, SaveEnds, Forget, reload
    <3>2. lastSeen' \subseteq Machines /\ saving' \in [Machines -> {"no", "due", "cut"}]
      BY <1>1, <2>3 DEF SaveBegins, SaveEnds, Forget, AgentTypes
    <3> QED
      BY <1>1, <3>1, <3>2 DEF AgentTypes, ReloadTypes, OnRecord
  <2> QED
    BY <2>1, <2>2, <2>3 DEF SeenReload
<1>4. SeenBeforeRemoved' /\ NobodyLost'
  BY <1>1, <1>2, <1>3, StillFound DEF SeenBeforeRemoved
<1>5. UNCHANGED dist
  BY <1>2 DEF dist
<1>6. NothingOlder'
  BY <1>2 DEF FleetInv, NothingOlder
<1>7. FleetTypeOK'
  BY <1>1, <1>2, <1>3, <1>5, DistUntouched, TypesSplitNext
<1> QED
  BY <1>4, <1>5, <1>6, <1>7, DistUntouched DEF FleetInv

-----------------------------------------------------------------------------
(* Deployments, reloads and the installer.                                      *)

Deploys == [build : Builds, left : SUBSET Platforms, signal : BOOLEAN]
Reloads == [pending : BOOLEAN, scanning : BOOLEAN, left : SUBSET Platforms,
            sums : Catalogue, failed : BOOLEAN]

DistKept ==
  /\ DistTypes' /\ FilesFollow' /\ ScanFollows' /\ NothingOlder'

LEMMA DistSuffices ==
  ASSUME FleetInv, UNCHANGED <<agents, view>>, DistKept,
         UNCHANGED reload \/ (rpc' = "read" /\ UNCHANGED fresh)
  PROVE  FleetInv'
<1>1. ReloadTypes
  BY TypesSplit DEF FleetInv
<1>2. ReloadTypes'
  BY <1>1 DEF ReloadTypes, reload
<1> QED
  BY <1>2, ListUntouched, TypesSplitNext DEF FleetInv, DistKept

LEMMA DistFacts ==
  ASSUME FleetInv
  PROVE  /\ DistTypes /\ deploy \in Deploys /\ hup \in Reloads
         /\ deploy.build \in Nat /\ MaxBuild \in Nat
         /\ view # NoView => view.settled \in Nat
         /\ \A p \in Platforms : files[p] \in Nat /\ hashes[p] \in Nat /\ hup.sums[p] \in Nat
<1>1. DistTypes /\ deploy \in Deploys /\ hup \in Reloads
  BY TypesSplit DEF FleetInv, DistTypes, Deploys, Reloads
<1>2. view # NoView => view.settled \in Builds
  BY ViewType DEF FleetInv, Views
<1> QED
  BY <1>1, <1>2, BuildsType, FleetAssumption DEF DistTypes, Deploys, Reloads, Catalogue

LEMMA DeployKeeps ==
  ASSUME FleetInv, DeployBegins \/ DeployReplaces \/ DeploySignals
  PROVE  FleetInv'
<1> USE DistFacts
<1>1. CASE DeployBegins
  <2>1. /\ deploy'.build = deploy.build + 1 /\ deploy'.left = Platforms
        /\ deploy'.signal = TRUE /\ deploy.left = {} /\ deploy' \in Deploys
    BY <1>1 DEF DeployBegins, Deploys, Builds
  <2>2. UNCHANGED <<files, hashes, hup, inst, reload, agents, view>>
    BY <1>1 DEF DeployBegins
  <2>3. DistTypes'
    BY <2>1, <2>2 DEF DistTypes, Deploys
  <2>4. FilesFollow' /\ ScanFollows'
    BY <2>1, <2>2 DEF FleetInv, FilesFollow, ScanFollows, Quiet
  <2>5. NothingOlder'
    BY <2>1, <2>2 DEF FleetInv, NothingOlder
  <2> QED
    BY <2>2, <2>3, <2>4, <2>5, DistSuffices DEF DistKept
<1>2. CASE DeployReplaces
  <2>1. PICK p \in deploy.left :
          /\ files' = [files EXCEPT ![p] = deploy.build]
          /\ deploy' = [deploy EXCEPT !.left = @ \ {p}]
    BY <1>2 DEF DeployReplaces
  <2>2. UNCHANGED <<hashes, hup, inst, reload, agents, view>>
    BY <1>2 DEF DeployReplaces
  <2>3. /\ p \in Platforms /\ deploy' \in Deploys /\ deploy'.build = deploy.build
        /\ deploy'.left = deploy.left \ {p} /\ deploy'.signal = deploy.signal
    BY <2>1 DEF Deploys
  <2>4. /\ files' \in Catalogue
        /\ \A q \in Platforms : files'[q] = IF q = p THEN deploy.build ELSE files[q]
    BY <2>1, <2>3 DEF DistTypes, Catalogue, Deploys
  <2>5. DistTypes'
    BY <2>2, <2>3, <2>4 DEF DistTypes, Deploys
  <2>6. FilesFollow'
    BY <2>3, <2>4 DEF FleetInv, FilesFollow
  <2>7. ScanFollows'
    <3>1. deploy'.signal
      BY <2>3 DEF FleetInv, FilesFollow
    <3> QED
      BY <2>2, <3>1 DEF FleetInv, ScanFollows, Quiet
  <2>8. NothingOlder'
    BY <2>2, <2>3, <2>4 DEF FleetInv, NothingOlder
  <2> QED
    BY <2>2, <2>5, <2>6, <2>7, <2>8, DistSuffices DEF DistKept
<1>3. CASE DeploySignals
  <2>1. /\ deploy' \in Deploys /\ deploy'.build = deploy.build
        /\ deploy'.left = deploy.left /\ deploy.left = {}
    BY <1>3 DEF DeploySignals, Deploys
  <2>2. /\ hup' \in Reloads /\ hup'.pending = TRUE /\ hup'.scanning = hup.scanning
        /\ hup'.left = hup.left /\ hup'.sums = hup.sums /\ hup'.failed = hup.failed
    BY <1>3 DEF DeploySignals, Reloads
  <2>3. UNCHANGED <<files, hashes, inst, reload, agents, view>>
    BY <1>3 DEF DeploySignals
  <2>4. DistTypes'
    BY <2>1, <2>2, <2>3 DEF DistTypes, Deploys, Reloads
  <2>5. FilesFollow' /\ ScanFollows'
    BY <2>1, <2>2, <2>3 DEF FleetInv, FilesFollow, ScanFollows, Quiet
  <2>6. NothingOlder'
    BY <2>1, <2>2, <2>3 DEF FleetInv, NothingOlder
  <2> QED
    BY <2>3, <2>4, <2>5, <2>6, DistSuffices DEF DistKept
<1> QED
  BY <1>1, <1>2, <1>3

LEMMA ScanKeeps ==
  ASSUME FleetInv, Scan \/ ScanFails \/ ScanSkips
  PROVE  FleetInv'
<1> USE DistFacts
<1>1. CASE ScanReadsDir
  <2>1. /\ hup' \in Reloads /\ hup'.scanning = TRUE /\ hup'.sums = hup.sums
        /\ ~hup.scanning
    BY <1>1 DEF ScanReadsDir, Reloads
  <2>2. UNCHANGED <<files, hashes, deploy, inst, reload, agents, view>>
    BY <1>1 DEF ScanReadsDir
  <2>3. \A p \in Platforms : hup.sums[p] = 0
    BY <2>1 DEF FleetInv, ScanFollows, NoBuilds
  <2>4. DistTypes' /\ FilesFollow'
    BY <2>1, <2>2 DEF FleetInv, DistTypes, Reloads, FilesFollow
  <2>5. ScanFollows'
    BY <2>1, <2>2, <2>3 DEF ScanFollows
  <2>6. NothingOlder'
    BY <2>1, <2>2 DEF FleetInv, NothingOlder
  <2> QED
    BY <2>2, <2>4, <2>5, <2>6, DistSuffices DEF DistKept
<1>2. CASE ScanFails
  <2>1. /\ hup' \in Reloads /\ hup'.scanning = hup.scanning /\ hup'.sums = hup.sums
        /\ hup'.left = hup.left /\ hup'.failed = TRUE /\ ~hup.scanning
    BY <1>2 DEF ScanFails, Reloads
  <2>2. UNCHANGED <<files, hashes, deploy, inst, fresh, agents, view>> /\ rpc' = "read"
    BY <1>2 DEF ScanFails
  <2>3. \A p \in Platforms : hup.sums[p] = 0
    BY <2>1 DEF FleetInv, ScanFollows, NoBuilds
  <2>4. DistTypes' /\ FilesFollow'
    BY <2>1, <2>2 DEF FleetInv, DistTypes, Reloads, FilesFollow
  <2>5. ScanFollows'
    BY <2>1, <2>2, <2>3 DEF FleetInv, ScanFollows
  <2>6. NothingOlder'
    BY <2>1, <2>2 DEF FleetInv, NothingOlder
  <2> QED
    BY <2>2, <2>4, <2>5, <2>6, DistSuffices DEF DistKept
<1>3. CASE ScanHashes
  <2>1. PICK p \in hup.left : hup' = [hup EXCEPT !.left = @ \ {p}, !.sums[p] = files[p]]
    BY <1>3 DEF ScanHashes
  <2>2. UNCHANGED <<files, hashes, deploy, inst, reload, agents, view>>
    BY <1>3 DEF ScanHashes
  <2> DEFINE s == [hup.sums EXCEPT ![p] = files[p]]
  <2>3. p \in Platforms /\ hup.scanning /\ files[p] \in Builds
    BY DEF Reloads, FleetInv, ScanFollows, DistTypes, Catalogue
  <2>4. /\ s \in Catalogue
        /\ \A q \in Platforms : s[q] = IF q = p THEN files[p] ELSE hup.sums[q]
    BY <2>3 DEF Reloads, Catalogue
  <2>5. hup' = [hup EXCEPT !.left = @ \ {p}, !.sums = s]
    BY <2>1
  <2> HIDE DEF s
  <2>6. /\ hup' \in Reloads /\ hup'.scanning = hup.scanning /\ hup'.sums = s
        /\ hup'.pending = hup.pending
    BY <2>4, <2>5 DEF Reloads
  <2>7. DistTypes' /\ FilesFollow'
    BY <2>2, <2>6 DEF FleetInv, DistTypes, Reloads, FilesFollow
  <2>8. ScanFollows'
    <3>1. ASSUME Quiet', NEW q \in Platforms PROVE s[q] \in {0, deploy.build}
      BY <2>2, <2>3, <2>4, <2>6, <3>1 DEF FleetInv, FilesFollow, ScanFollows, Quiet
    <3> QED
      BY <2>2, <2>3, <2>6, <3>1 DEF ScanFollows
  <2>9. NothingOlder'
    BY <2>2, <2>3, <2>4, <2>6 DEF FleetInv, NothingOlder
  <2> QED
    BY <2>2, <2>7, <2>8, <2>9, DistSuffices DEF DistKept
<1>4. CASE ScanSkips
  <2>1. PICK p \in hup.left : hup' = [hup EXCEPT !.left = @ \ {p}, !.failed = TRUE]
    BY <1>4 DEF ScanSkips
  <2>2. UNCHANGED <<files, hashes, deploy, inst, reload, agents, view>>
    BY <1>4 DEF ScanSkips
  <2>3. /\ hup' \in Reloads /\ hup'.scanning = hup.scanning /\ hup'.sums = hup.sums
        /\ hup'.pending = hup.pending /\ hup'.failed = TRUE
    BY <2>1 DEF Reloads
  <2>4. hup.scanning
    BY DEF Reloads, FleetInv, ScanFollows
  <2>5. DistTypes' /\ FilesFollow'
    BY <2>2, <2>3 DEF FleetInv, DistTypes, Reloads, FilesFollow
  <2>6. ScanFollows'
    BY <2>2, <2>3, <2>4 DEF FleetInv, ScanFollows, Quiet
  <2>7. NothingOlder'
    BY <2>2, <2>3 DEF FleetInv, NothingOlder
  <2> QED
    BY <2>2, <2>5, <2>6, <2>7, DistSuffices DEF DistKept
<1>5. CASE ScanInstalls
  <2>1. /\ hup.scanning /\ hup.left = {} /\ hashes' = hup.sums
        /\ UNCHANGED <<files, deploy, inst, fresh, agents, view>> /\ rpc' = "read"
    BY <1>5 DEF ScanInstalls
  <2>2. NoBuilds \in Catalogue /\ \A p \in Platforms : NoBuilds[p] = 0
    BY BuildsType DEF NoBuilds, Catalogue
  <2>3. /\ hup' \in Reloads /\ hup'.sums = NoBuilds /\ hup'.left = {}
        /\ hup'.pending = hup.pending
    BY <1>5, <2>2 DEF ScanInstalls, Reloads
  <2>4. DistTypes' /\ FilesFollow'
    BY <2>1, <2>3 DEF FleetInv, DistTypes, Reloads, FilesFollow
  <2>5. ScanFollows'
    BY <2>1, <2>2, <2>3 DEF FleetInv, ScanFollows, Quiet
  <2>6. NothingOlder'
    BY <2>1, <2>2, <2>3 DEF FleetInv, NothingOlder
  <2> QED
    BY <2>1, <2>4, <2>5, <2>6, DistSuffices DEF DistKept
<1> QED
  BY <1>1, <1>2, <1>3, <1>4, <1>5 DEF Scan

LEMMA InstallerKeeps ==
  ASSUME FleetInv, Install
  PROVE  FleetInv'
<1>1. UNCHANGED <<files, hashes, deploy, hup, reload, agents, view>>
  BY DEF Install, InstallerGetsScript, InstallerFetches, InstallerDies
<1>2. hashes[Target] \in Builds
  BY DistFacts, FleetAssumption DEF DistTypes, Catalogue
<1> DEFINE Installers == [at : {"idle", "script"}, want : Builds, installed : Builds]
<1>3. inst' \in Installers
  <2>1. inst \in Installers
    BY DistFacts DEF DistTypes
  <2>2. CASE InstallerGetsScript
    BY <1>2, <2>1, <2>2 DEF InstallerGetsScript
  <2>3. CASE InstallerFetches
    <3>1. inst.want \in Builds /\ inst.installed \in Builds /\ 0 \in Builds
      BY BuildsType, <2>1
    <3> QED
      BY <2>3, <3>1 DEF InstallerFetches
  <2>4. CASE InstallerDies
    BY BuildsType, <2>1, <2>4 DEF InstallerDies
  <2> QED
    BY <2>2, <2>3, <2>4 DEF Install
<1>4. DistTypes'
  BY DistFacts, <1>1, <1>3 DEF DistTypes
<1>5. FilesFollow' /\ ScanFollows' /\ NothingOlder'
  BY <1>1 DEF FleetInv, FilesFollow, ScanFollows, Quiet, NothingOlder
<1> QED
  BY <1>1, <1>4, <1>5, DistSuffices DEF DistKept

-----------------------------------------------------------------------------
(* The requests.                                                                *)

\* The next read's place in a listing and in a health request.
Stands(l, h) == view.at = IF view.kind = "listing" THEN l ELSE h

\* Where a request is when it makes each of its reads.
LEMMA ReadOrder ==
  ASSUME FleetTypeOK
  PROVE  /\ Reading("builds") => view \in Views /\ Stands(1, 3)
         /\ Reading("serving") => view \in Views /\ Stands(2, 4)
         /\ Reading("registry") => view \in Views /\ Stands(3, 1)
         /\ Reading("known") => view \in Views /\ Stands(4, 2)
<1>1. ASSUME NEW w, Reading(w)
      PROVE  /\ view \in Views /\ view.kind \in Kinds /\ view.at \in 1..4
             /\ Order[view.kind][view.at] = w
  <2>1. view \in Views /\ view.at <= 4 /\ Order[view.kind][view.at] = w
    BY <1>1, ViewType DEF Reading
  <2>2. view.kind \in Kinds /\ view.at \in 1..5
    BY <2>1 DEF Views
  <2> QED
    BY <2>1, <2>2
<1>2. /\ Order["listing"] = <<"builds", "serving", "registry", "known">>
      /\ Order["health"] = <<"registry", "known", "builds", "serving">>
  BY DEF Order
<1>3. \A i \in 1..4 : i = 1 \/ i = 2 \/ i = 3 \/ i = 4
  OBVIOUS
<1>4. /\ Order["listing"][1] = "builds" /\ Order["listing"][2] = "serving"
      /\ Order["listing"][3] = "registry" /\ Order["listing"][4] = "known"
      /\ Order["health"][1] = "registry" /\ Order["health"][2] = "known"
      /\ Order["health"][3] = "builds" /\ Order["health"][4] = "serving"
  BY <1>2
<1> QED
  BY <1>1, <1>3, <1>4 DEF Kinds, Stands

LEMMA ViewSuffices ==
  ASSUME FleetInv, UNCHANGED <<dist, reload, agents>>, view' \in {NoView} \cup Views,
         NobodyLost', NothingOlder'
  PROVE  FleetInv'
<1>1. AgentTypes /\ SeenBeforeRemoved
  BY TypesSplit DEF FleetInv
<1>2. AgentTypes' /\ SeenBeforeRemoved'
  BY <1>1 DEF AgentTypes, SeenBeforeRemoved, OnRecord, agents
<1> QED
  BY <1>2, DistUntouched, ReloadUntouched, TypesSplitNext DEF FleetInv

LEMMA ViewBeginsKeeps ==
  ASSUME FleetInv, ViewBegins
  PROVE  FleetInv'
<1>1. UNCHANGED <<dist, reload, agents>>
  BY DEF ViewBegins
<1>2. PICK k \in Kinds :
        view' = [at |-> 1, kind |-> k, current |-> {}, know |-> FALSE, online |-> {},
                 known |-> {}, dropped |-> {}, before |-> registry \cup known,
                 settled |-> Settled]
  BY KindsOfView DEF ViewBegins
<1>3. AgentTypes /\ Settled \in Builds
  BY TypesSplit, BuildsType, DistFacts DEF FleetInv, Settled, Deploys
<1>4. view' \in Views
  BY <1>2, <1>3 DEF Views, AgentTypes
<1>5. /\ view'.at = 1 /\ view'.kind = k /\ view'.before = registry \cup known
      /\ view'.settled = Settled /\ view'.current = {}
  BY <1>2
<1>6. NobodyLost'
  BY <1>1, <1>5 DEF NobodyLost, Found, RegistryRead, KnownRead, OnRecord, agents
<1>7. NothingOlder'
  <2>1. /\ Settled <= deploy.build
        /\ \A p \in Platforms :
             /\ files[p] >= Settled
             /\ hashes[p] = 0 \/ hashes[p] >= Settled
             /\ hup.sums[p] = 0 \/ hup.sums[p] >= Settled
    <3>1. CASE Settled = 0
      BY <3>1, DistFacts
    <3>2. CASE Settled # 0
      <4>1. Quiet /\ ~hup.scanning /\ ~hup.failed /\ Settled = deploy.build
        BY <3>2 DEF Settled, Quiet
      <4> QED
        BY <4>1, DistFacts DEF FleetInv, FilesFollow, ScanFollows, Quiet
    <3> QED
      BY <3>1, <3>2
  <2> QED
    BY <1>1, <1>5, <2>1 DEF NothingOlder, dist
<1> QED
  BY <1>1, <1>4, <1>6, <1>7, ViewSuffices

\* A read that adds nothing older, and takes nobody away.
LEMMA ReadKeeps ==
  ASSUME FleetInv, ReadBuilds \/ ReadServing \/ ReadRegistry \/ ReadKnown
  PROVE  FleetInv'
<1>0. FleetTypeOK /\ UNCHANGED <<dist, reload, agents>> /\ view # NoView
  BY DEF FleetInv, ReadBuilds, ReadServing, ReadRegistry, ReadKnown, Reading
<1>1. view \in Views
  BY <1>0, ViewType
<1> DEFINE next == view.at + 1
<1>2. CASE ReadBuilds
  <2>1. builds \subseteq Platforms \X Builds
    BY DistFacts DEF builds, DistTypes, Catalogue
  <2>2. /\ Stands(1, 3)
        /\ view' = [view EXCEPT !.at = @ + 1, !.current = builds]
    BY <1>0, <1>2, ReadOrder DEF ReadBuilds
  <2>3. /\ view' \in Views /\ view'.at = next /\ view'.kind = view.kind
        /\ view'.online = view.online /\ view'.known = view.known
        /\ view'.dropped = view.dropped
        /\ view'.before = view.before /\ view'.settled = view.settled
        /\ view'.current = builds
    <3>1. next \in 1..5
      BY <1>1, <2>2 DEF Views, Stands
    <3> HIDE DEF next
    <3>2. view' = [view EXCEPT !.at = next, !.current = builds]
      BY <2>2 DEF next
    <3> QED
      BY <1>1, <2>1, <3>1, <3>2 DEF Views
  <2>4. NobodyLost'
    BY <1>0, <2>2, <2>3
       DEF FleetInv, Stands, NobodyLost, Found, RegistryRead, KnownRead, OnRecord,
           Online, agents
  <2>5. \A t \in builds : t[2] >= view.settled
    BY <1>0, DistFacts DEF FleetInv, NothingOlder, builds
  <2>6. NothingOlder'
    BY <1>0, <2>3, <2>5 DEF FleetInv, NothingOlder, dist
  <2> QED
    BY <1>0, <2>3, <2>4, <2>6, ViewSuffices
<1>3. CASE ReadServing
  <2>1. /\ Stands(2, 4)
        /\ view' = [view EXCEPT !.at = @ + 1, !.know = serving]
    BY <1>0, <1>3, ReadOrder DEF ReadServing
  <2>2. /\ view' \in Views /\ view'.at = next /\ view'.kind = view.kind
        /\ view'.online = view.online /\ view'.known = view.known
        /\ view'.dropped = view.dropped
        /\ view'.before = view.before /\ view'.settled = view.settled
        /\ view'.current = view.current
    <3>1. next \in 1..5
      BY <1>1, <2>1 DEF Views, Stands
    <3> HIDE DEF next
    <3>2. view' = [view EXCEPT !.at = next, !.know = serving] /\ serving \in BOOLEAN
      BY <2>1 DEF next, serving
    <3> QED
      BY <1>1, <3>1, <3>2 DEF Views
  <2>3. NobodyLost'
    BY <1>0, <2>1, <2>2
       DEF FleetInv, Stands, NobodyLost, Found, RegistryRead, KnownRead, OnRecord,
           Online, agents
  <2>4. NothingOlder'
    BY <1>0, <2>2 DEF FleetInv, NothingOlder, dist
  <2> QED
    BY <1>0, <2>2, <2>3, <2>4, ViewSuffices
<1>4. CASE ReadRegistry
  <2> DEFINE on == {<<m, handler[m].build>> : m \in registry}
  <2>1. /\ on \subseteq Machines \X Builds
        /\ {t[1] : t \in on} = registry
    <3>1. registry \subseteq Machines /\ \A m \in Machines : handler[m].build \in Builds
      BY <1>0, TypesSplit DEF AgentTypes
    <3>2. on \subseteq Machines \X Builds
      BY <3>1
    <3>3. ASSUME NEW m \in registry PROVE \E t \in on : m = t[1]
      <4>1. <<m, handler[m].build>> \in on
        OBVIOUS
      <4>2. m = <<m, handler[m].build>>[1]
        OBVIOUS
      <4> HIDE DEF on
      <4> QED
        BY <4>1, <4>2
    <3>4. registry \subseteq {t[1] : t \in on}
      BY <3>3
    <3>5. {t[1] : t \in on} \subseteq registry
      OBVIOUS
    <3> QED
      BY <3>2, <3>4, <3>5
  <2>2. /\ Stands(3, 1)
        /\ view' = [view EXCEPT !.at = @ + 1, !.online = on]
    BY <1>0, <1>4, ReadOrder DEF ReadRegistry
  <2> HIDE DEF on
  <2>3. /\ view' \in Views /\ view'.at = next /\ view'.kind = view.kind
        /\ view'.online = on /\ view'.known = view.known
        /\ view'.before = view.before /\ view'.settled = view.settled
        /\ view'.current = view.current
    <3>1. next \in 1..5
      BY <1>1, <2>2 DEF Views, Stands
    <3> HIDE DEF next
    <3>2. view' = [view EXCEPT !.at = next, !.online = on]
      BY <2>2 DEF next
    <3> QED
      BY <1>1, <2>1, <3>1, <3>2 DEF Views
  <2>4. Online' = registry
    BY <2>1, <2>3 DEF Online
  <2>5. NobodyLost'
    BY <1>0, <2>2, <2>3, <2>4
       DEF FleetInv, Stands, NobodyLost, Found, RegistryRead, KnownRead, OnRecord, agents
  <2>6. NothingOlder'
    BY <1>0, <2>3 DEF FleetInv, NothingOlder, dist
  <2> QED
    BY <1>0, <2>3, <2>5, <2>6, ViewSuffices
<1>5. CASE ReadKnown
  <2>1. /\ Stands(4, 2)
        /\ view' = [view EXCEPT !.at = @ + 1, !.known = known, !.dropped = dropped]
    BY <1>0, <1>5, ReadOrder DEF ReadKnown
  <2>2. known \subseteq Machines /\ dropped \subseteq Machines
    BY <1>0, TypesSplit DEF AgentTypes
  <2>3. /\ view' \in Views /\ view'.at = next /\ view'.kind = view.kind
        /\ view'.online = view.online /\ view'.known = known
        /\ view'.dropped = dropped
        /\ view'.before = view.before /\ view'.settled = view.settled
        /\ view'.current = view.current
    <3>1. next \in 1..5
      BY <1>1, <2>1 DEF Views, Stands
    <3> HIDE DEF next
    <3>2. view' = [view EXCEPT !.at = next, !.known = known, !.dropped = dropped]
      BY <2>1 DEF next
    <3> QED
      BY <1>1, <2>2, <3>1, <3>2 DEF Views
  <2>4. NobodyLost'
    BY <1>0, <2>1, <2>3
       DEF FleetInv, Stands, NobodyLost, Found, RegistryRead, KnownRead, OnRecord,
           Online, agents
  <2>5. NothingOlder'
    BY <1>0, <2>3 DEF FleetInv, NothingOlder, dist
  <2> QED
    BY <1>0, <2>3, <2>4, <2>5, ViewSuffices
<1> QED
  BY <1>2, <1>3, <1>4, <1>5

LEMMA FleetInvNext == FleetInv /\ [FleetNext]_fleetVars => FleetInv'
<1> SUFFICES ASSUME FleetInv, [FleetNext]_fleetVars PROVE FleetInv'
  OBVIOUS
<1>1. CASE UNCHANGED fleetVars
  <2>1. UNCHANGED <<dist, reload, agents>> /\ view' = view
    BY <1>1 DEF fleetVars
  <2>2. NothingOlder'
    BY <2>1 DEF FleetInv, NothingOlder, dist
  <2> QED
    BY <2>1, <2>2, ListUntouched, ViewSuffices
<1>2. CASE ViewEnds
  BY <1>2, ViewSuffices DEF ViewEnds, NobodyLost, NothingOlder
<1> QED
  BY <1>1, <1>2, DeployKeeps, ScanKeeps, InstallerKeeps, AgentKeeps, RecordKeeps,
     ViewBeginsKeeps, ReadKeeps DEF FleetNext

\* The inductive invariant of the listing and of what it reads.
THEOREM FleetInvariance == FleetSpec => []FleetInv
BY FleetInvInit, FleetInvNext, PTL DEF FleetSpec

\* Type correctness of the distributor, the handlers, the installer and a request.
THEOREM FleetTypeCorrect == FleetSpec => []FleetTypeOK
BY FleetInvariance, PTL DEF FleetInv

\* No listing and no health answer loses a machine that was registered or on
\* record when it began, however many machines register, leave and are seen, and
\* saves and reloads of last_seen happen, while it reads; unless a reload took the
\* machine out of the record and it has not been seen since (serveListing,
\* serveHealth, handleAgent, sightings.reload).
THEOREM NobodyVanishes == FleetSpec => []NoMachineVanishes
<1>1. FleetInv => NoMachineVanishes
  <2> SUFFICES ASSUME FleetInv, Complete, NEW m \in view.before
               PROVE  m \in Online \cup Missing \cup view.dropped
    BY DEF NoMachineVanishes
  <2>1. view # NoView /\ view.at = 5
    BY DEF Complete
  <2>2. Found(m) /\ KnownRead
    BY <2>1 DEF FleetInv, NobodyLost, KnownRead
  <2> QED
    BY <2>2 DEF Found, Missing
<1> QED
  BY <1>1, FleetInvariance, PTL

\* A listing that begins when a deployment has been reloaded never takes an agent
\* of an earlier build for a current one, though any number of deployments and
\* reloads, failing ones too, may happen while it reads (distributor.scan, builds,
\* buildState).
THEOREM OldBuildsAreFlagged == FleetSpec => []OldBuildsFlagged
<1>1. FleetInv => OldBuildsFlagged
  <2> SUFFICES ASSUME FleetInv, Complete, view.know, NEW t \in view.online,
                      0 < t[2], t[2] < view.settled
               PROVE  buildState(t[1], t[2]) = "OUTDATED"
    BY DEF OldBuildsFlagged
  <2>1. view # NoView /\ view \in Views
    BY ViewType DEF Complete, FleetInv
  <2>2. t[2] \in Nat /\ view.settled \in Nat
    BY <2>1, BuildsType DEF Views
  <2>3. <<PlatformOf[t[1]], t[2]>> \notin view.current
    BY <2>1, <2>2 DEF FleetInv, NothingOlder
  <2>4. t[2] # 0
    BY <2>2
  <2> QED
    BY <2>3, <2>4 DEF buildState
<1> QED
  BY <1>1, FleetInvariance, PTL
=============================================================================
