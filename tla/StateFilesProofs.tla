-------------------------- MODULE StateFilesProofs --------------------------
(* Proofs about the files in the proxy's state directory. First the advisory    *)
(* ones, for any number of machines and names: what was forgotten, and reloaded *)
(* since, does not come back. No file and no copy of one that is still to be    *)
(* used may hold what has been forgotten; the invariant says so for the ledger  *)
(* and for the sightings, at each stage. Then revoked_keys, for any number of   *)
(* keys, commands and writes; by AgentRegistryProofs the registry and the sweep *)
(* leave all of it as it is, so that those results hold in the composition too. *)
EXTENDS StateFiles, Revocations, TLAPS

ForgetPhase ==
  /\ cpc \in {"seen", "seenCut"} => target \in Machines
  /\ cpc \in {"ledger", "ledgerCut"} => target \in Machines \cup FriendlyNames

\* A friendly name on its way to being free.
NamePhase(n) ==
  /\ freed[n] # "overwritten"
  /\ freed[n] # "no" => lfile[n] = None /\ (cpc # "idle" => cl[n] = None)
  /\ freed[n] = "read" => hpc = "applyLedger"
  /\ freed[n] \in {"read", "reloaded"} /\ hpc = "applyLedger" => hl[n] = None
  /\ freed[n] = "reloaded" => lmem[n] = None

Off == {"filed", "read", "reloaded"}

\* A machine on its way out of the listing.
MachinePhase(k) ==
  /\ forgotten[k] \in Off => k \notin sfile
  /\ forgotten[k] \in Off /\ cpc \in {"seen", "seenCut"} => k \notin cs
  /\ forgotten[k] = "read" => hpc = "applySeen"
  /\ forgotten[k] \in {"read", "reloaded"} /\ hpc = "applySeen" => k \notin hs
  /\ forgotten[k] = "reloaded" => k \notin smem

NamesSound == \A n \in FriendlyNames : NamePhase(n)

MachinesSound == \A k \in Machines : MachinePhase(k)

SFInv == SFTypeOK /\ ForgetPhase /\ NamesSound /\ MachinesSound

-----------------------------------------------------------------------------
LEMMA LabelsAreNames ==
  ASSUME NEW t \in Machines \cup FriendlyNames
  PROVE  LabelOf(t) \in FriendlyNames
BY LabelAssumption DEF LabelOf

LEMMA SFInvInit == SFInit => SFInv
BY AbsentAssumption DEF SFInit, SFInv, SFTypeOK, ForgetPhase, NamesSound, NamePhase,
   MachinesSound, MachinePhase, Off, Bindings, NoBindings, Progress

-----------------------------------------------------------------------------
(* Each step touches one of the two files, or both.                             *)

LEMMA NamesUntouched ==
  ASSUME SFInv, UNCHANGED <<ledgerVars, hl>>,
         cpc' # "idle" => cpc # "idle" /\ UNCHANGED cl,
         hpc' = "applyLedger" <=> hpc = "applyLedger"
  PROVE  NamesSound'
BY DEF SFInv, NamesSound, NamePhase, ledgerVars

LEMMA MachinesUntouched ==
  ASSUME SFInv, UNCHANGED <<smem, sfile, forgotten, hs>>,
         cpc' \in {"seen", "seenCut"} => cpc \in {"seen", "seenCut"} /\ UNCHANGED cs,
         hpc' = "applySeen" <=> hpc = "applySeen"
  PROVE  MachinesSound'
BY DEF SFInv, MachinesSound, MachinePhase

LEMMA ServingKeeps ==
  ASSUME SFInv, NEW k \in Machines, Claim(k) \/ Seen(k) \/ SaveBegins(k) \/ SaveEnds(k)
  PROVE  SFInv'
<1> USE DEF SFInv
<1>1. CASE Claim(k)
  <2>1. Label[k] \in FriendlyNames
    BY LabelAssumption
  <2>2. SFTypeOK'
    BY <1>1, <2>1 DEF Claim, SFTypeOK, Bindings, seenVars, hupVars, cliVars, Progress
  <2>3. ForgetPhase'
    BY <1>1 DEF Claim, ForgetPhase, cliVars
  <2>4. ASSUME NEW n \in FriendlyNames PROVE NamePhase(n)'
    <3>1. CASE n = Label[k]
      BY <1>1, <3>1 DEF Claim, NamePhase, SFTypeOK
    <3>2. CASE n # Label[k]
      <4>1. freed'[n] = freed[n] /\ lmem'[n] = lmem[n] /\ lfile'[n] = lfile[n]
        BY <1>1, <2>1, <3>2 DEF Claim, SFTypeOK, Bindings
      <4> QED
        BY <1>1, <4>1 DEF Claim, NamesSound, NamePhase, hupVars, cliVars
    <3> QED
      BY <3>1, <3>2
  <2>5. MachinesSound'
    BY <1>1, MachinesUntouched DEF Claim, seenVars, hupVars, cliVars
  <2> QED
    BY <2>2, <2>3, <2>4, <2>5 DEF NamesSound
<1>2. CASE Seen(k)
  <2>1. SFTypeOK'
    BY <1>2 DEF Seen, SFTypeOK, ledgerVars, hupVars, cliVars, Progress
  <2>2. ForgetPhase' /\ NamesSound'
    BY <1>2, NamesUntouched DEF Seen, ForgetPhase, hupVars, cliVars
  <2>3. ASSUME NEW m \in Machines PROVE MachinePhase(m)'
    <3>1. CASE m = k
      BY <1>2, <3>1 DEF Seen, MachinePhase, SFTypeOK, Off
    <3>2. CASE m # k
      <4>1. forgotten'[m] = forgotten[m] /\ (m \in smem' <=> m \in smem)
        BY <1>2, <3>2 DEF Seen, SFTypeOK
      <4> QED
        BY <1>2, <4>1 DEF Seen, MachinesSound, MachinePhase, hupVars, cliVars
    <3> QED
      BY <3>1, <3>2
  <2> QED
    BY <2>1, <2>2, <2>3 DEF MachinesSound
<1>3. CASE SaveBegins(k)
  <2>1. SFTypeOK'
    BY <1>3 DEF SaveBegins, SFTypeOK, ledgerVars, hupVars, cliVars
  <2>2. ForgetPhase' /\ NamesSound'
    BY <1>3, NamesUntouched DEF SaveBegins, ForgetPhase, hupVars, cliVars
  <2>3. MachinesSound'
    BY <1>3 DEF SaveBegins, MachinesSound, MachinePhase, hupVars, cliVars
  <2> QED
    BY <2>1, <2>2, <2>3
<1>4. CASE SaveEnds(k)
  <2>1. /\ forgotten' \in [Machines -> Progress]
        /\ \A m \in Machines : forgotten'[m] =
             IF forgotten[m] \in {"filed", "read"} /\ m \in smem
             THEN "overwritten" ELSE forgotten[m]
    BY <1>4 DEF SaveEnds, Advance, SFTypeOK, Progress
  <2>2. SFTypeOK'
    BY <1>4, <2>1 DEF SaveEnds, SFTypeOK, ledgerVars, hupVars, cliVars
  <2>3. ForgetPhase' /\ NamesSound'
    BY <1>4, NamesUntouched DEF SaveEnds, ForgetPhase, hupVars, cliVars
  <2>4. MachinesSound'
    BY <1>4, <2>1 DEF SaveEnds, MachinesSound, MachinePhase, Off, hupVars, cliVars
  <2> QED
    BY <2>2, <2>3, <2>4
<1> QED
  BY <1>1, <1>2, <1>3, <1>4

LEMMA HupKeeps ==
  ASSUME SFInv, Hup
  PROVE  SFInv'
<1> USE DEF SFInv
<1>1. CASE HupReadsLedger
  <2>1. /\ freed' \in [FriendlyNames -> Progress]
        /\ \A n \in FriendlyNames : freed'[n] =
             IF freed[n] = "filed" THEN "read" ELSE freed[n]
    BY <1>1 DEF HupReadsLedger, Advance, SFTypeOK, Progress
  <2>2. SFTypeOK'
    BY <1>1, <2>1 DEF HupReadsLedger, SFTypeOK, seenVars, cliVars
  <2>3. ForgetPhase' /\ MachinesSound'
    BY <1>1, MachinesUntouched DEF HupReadsLedger, ForgetPhase, seenVars, cliVars
  <2>4. NamesSound'
    BY <1>1, <2>1 DEF HupReadsLedger, NamesSound, NamePhase, cliVars
  <2> QED
    BY <2>2, <2>3, <2>4
<1>2. CASE HupAppliesLedger
  <2>1. /\ freed' \in [FriendlyNames -> Progress]
        /\ \A n \in FriendlyNames : freed'[n] =
             IF freed[n] = "read" THEN "reloaded" ELSE freed[n]
    BY <1>2 DEF HupAppliesLedger, Advance, SFTypeOK, Progress
  <2>2. SFTypeOK'
    BY <1>2, <2>1 DEF HupAppliesLedger, SFTypeOK, Bindings, NoBindings, seenVars, cliVars
  <2>3. ForgetPhase' /\ MachinesSound'
    BY <1>2, MachinesUntouched DEF HupAppliesLedger, ForgetPhase, seenVars, cliVars
  <2>4. NamesSound'
    BY <1>2, <2>1 DEF HupAppliesLedger, NamesSound, NamePhase, cliVars
  <2> QED
    BY <2>2, <2>3, <2>4
<1>3. CASE HupReadsSeen
  <2>1. /\ forgotten' \in [Machines -> Progress]
        /\ \A k \in Machines : forgotten'[k] =
             IF forgotten[k] = "filed" THEN "read" ELSE forgotten[k]
    BY <1>3 DEF HupReadsSeen, Advance, SFTypeOK, Progress
  <2>2. SFTypeOK'
    BY <1>3, <2>1 DEF HupReadsSeen, SFTypeOK, ledgerVars, cliVars
  <2>3. ForgetPhase' /\ NamesSound'
    BY <1>3, NamesUntouched DEF HupReadsSeen, ForgetPhase, cliVars
  <2>4. MachinesSound'
    BY <1>3, <2>1 DEF HupReadsSeen, MachinesSound, MachinePhase, Off, cliVars
  <2> QED
    BY <2>2, <2>3, <2>4
<1>4. CASE HupAppliesSeen
  <2>1. /\ forgotten' \in [Machines -> Progress]
        /\ \A k \in Machines : forgotten'[k] =
             IF forgotten[k] = "read" THEN "reloaded" ELSE forgotten[k]
    BY <1>4 DEF HupAppliesSeen, Advance, SFTypeOK, Progress
  <2>2. SFTypeOK'
    BY <1>4, <2>1 DEF HupAppliesSeen, SFTypeOK, ledgerVars, cliVars
  <2>3. ForgetPhase' /\ NamesSound'
    BY <1>4, NamesUntouched DEF HupAppliesSeen, ForgetPhase, cliVars
  <2>4. MachinesSound'
    BY <1>4, <2>1 DEF HupAppliesSeen, MachinesSound, MachinePhase, Off, cliVars
  <2> QED
    BY <2>2, <2>3, <2>4
<1>5. CASE HupLedgerFails \/ HupSeenFails
  <2>1. SFTypeOK'
    BY <1>5 DEF HupLedgerFails, HupSeenFails, SFTypeOK, ledgerVars, seenVars, cliVars
  <2>2. NamesSound'
    BY <1>5, NamesUntouched DEF HupLedgerFails, HupSeenFails, cliVars
  <2>3. MachinesSound'
    BY <1>5, MachinesUntouched DEF HupLedgerFails, HupSeenFails, seenVars, cliVars
  <2>4. ForgetPhase'
    BY <1>5 DEF HupLedgerFails, HupSeenFails, ForgetPhase, cliVars
  <2> QED
    BY <2>1, <2>2, <2>3, <2>4
<1> QED
  BY <1>1, <1>2, <1>3, <1>4, <1>5 DEF Hup

LEMMA CrashKeeps ==
  ASSUME SFInv, Crash
  PROVE  SFInv'
<1> USE DEF SFInv
<1>1. /\ freed' \in [FriendlyNames -> Progress]
      /\ \A n \in FriendlyNames : freed'[n] =
           IF freed[n] \in {"filed", "read"} THEN "reloaded" ELSE freed[n]
  BY DEF Advance, Crash, SFTypeOK, Progress
<1>2. /\ forgotten' \in [Machines -> Progress]
      /\ \A k \in Machines : forgotten'[k] =
           IF forgotten[k] \in {"filed", "read"} THEN "reloaded" ELSE forgotten[k]
  BY DEF Advance, Crash, SFTypeOK, Progress
<1>3. SFTypeOK'
  BY <1>1, <1>2 DEF Crash, SFTypeOK, Bindings, NoBindings, cliVars
<1>4. ForgetPhase'
  BY DEF Crash, ForgetPhase, cliVars
<1>5. NamesSound'
  BY <1>1 DEF Crash, NamesSound, NamePhase, cliVars
<1>6. MachinesSound'
  BY <1>2 DEF Crash, MachinesSound, MachinePhase, Off, cliVars
<1> QED
  BY <1>3, <1>4, <1>5, <1>6

LEMMA ForgetKeeps ==
  ASSUME SFInv, Forget
  PROVE  SFInv'
<1> USE DEF SFInv
<1>1. ASSUME NEW t \in Machines \cup FriendlyNames, ForgetOpens(t)
      PROVE  SFInv'
  <2>1. SFTypeOK'
    BY <1>1 DEF ForgetOpens, SFTypeOK, hupVars, ledgerVars, seenVars
  <2>2. ForgetPhase'
    BY <1>1 DEF ForgetOpens, ForgetPhase
  <2>3. NamesSound'
    BY <1>1 DEF ForgetOpens, NamesSound, NamePhase, hupVars, ledgerVars
  <2>4. MachinesSound'
    BY <1>1 DEF ForgetOpens, MachinesSound, MachinePhase, hupVars, seenVars
  <2> QED
    BY <2>1, <2>2, <2>3, <2>4
<1>2. CASE ForgetCutsSeen
  <2>1. SFTypeOK' /\ ForgetPhase'
    BY <1>2 DEF ForgetCutsSeen, SFTypeOK, ForgetPhase, hupVars, ledgerVars
  <2>2. NamesSound'
    BY <1>2, NamesUntouched DEF ForgetCutsSeen, hupVars
  <2>3. MachinesSound'
    BY <1>2 DEF ForgetCutsSeen, MachinesSound, MachinePhase, hupVars
  <2> QED
    BY <2>1, <2>2, <2>3
<1>3. CASE ForgetWritesSeen
  <2>1. target \in Machines
    BY <1>3 DEF ForgetWritesSeen, ForgetPhase
  <2>2. SFTypeOK' /\ ForgetPhase'
    BY <1>3, <2>1 DEF ForgetWritesSeen, ForgetExits, SFTypeOK, ForgetPhase, Bindings,
                      NoBindings, hupVars, ledgerVars, Progress
  <2>3. NamesSound'
    BY <1>3, NamesUntouched DEF ForgetWritesSeen, ForgetExits, hupVars
  <2>4. ASSUME NEW k \in Machines PROVE MachinePhase(k)'
    <3>1. forgotten'[k] = IF k = target THEN "filed" ELSE forgotten[k]
      BY <1>3, <2>1 DEF ForgetWritesSeen, SFTypeOK
    <3>2. cpc' \notin {"seen", "seenCut"} /\ sfile' = cs \ {target} /\ cpc = "seenCut"
      BY <1>3 DEF ForgetWritesSeen, ForgetExits
    <3> QED
      BY <1>3, <3>1, <3>2 DEF ForgetWritesSeen, MachinesSound, MachinePhase, Off, hupVars
  <2> QED
    BY <2>2, <2>3, <2>4 DEF MachinesSound
<1>4. CASE ForgetCutsLedger
  <2>1. SFTypeOK' /\ ForgetPhase'
    BY <1>4 DEF ForgetCutsLedger, SFTypeOK, ForgetPhase, Bindings, NoBindings, hupVars, seenVars
  <2>2. NamesSound'
    BY <1>4 DEF ForgetCutsLedger, NamesSound, NamePhase, NoBindings, hupVars
  <2>3. MachinesSound'
    BY <1>4, MachinesUntouched DEF ForgetCutsLedger, hupVars, seenVars
  <2> QED
    BY <2>1, <2>2, <2>3
<1>5. CASE ForgetWritesLedger
  <2>1. LabelOf(target) \in FriendlyNames
    BY <1>5, LabelsAreNames DEF ForgetWritesLedger, ForgetPhase
  <2>2. SFTypeOK' /\ ForgetPhase'
    BY <1>5, <2>1 DEF ForgetWritesLedger, ForgetExits, SFTypeOK, ForgetPhase, Bindings,
                      NoBindings, hupVars, seenVars, Progress
  <2>3. ASSUME NEW n \in FriendlyNames PROVE NamePhase(n)'
    <3>1. /\ freed'[n] = IF n = LabelOf(target) THEN "filed" ELSE freed[n]
          /\ lfile'[n] = IF n = LabelOf(target) THEN None ELSE cl[n]
      BY <1>5, <2>1 DEF ForgetWritesLedger, SFTypeOK, Bindings
    <3> QED
      BY <1>5, <3>1 DEF ForgetWritesLedger, ForgetExits, NamesSound, NamePhase, hupVars
  <2>4. MachinesSound'
    BY <1>5, MachinesUntouched DEF ForgetWritesLedger, ForgetExits, hupVars, seenVars
  <2> QED
    BY <2>2, <2>3, <2>4 DEF NamesSound
<1> QED
  BY <1>1, <1>2, <1>3, <1>4, <1>5 DEF Forget

LEMMA SFInvNext == SFInv /\ [Serving \/ Hup \/ Forget \/ Crash]_sfVars => SFInv'
<1> SUFFICES ASSUME SFInv, [Serving \/ Hup \/ Forget \/ Crash]_sfVars PROVE SFInv'
  OBVIOUS
<1>1. CASE UNCHANGED sfVars
  BY <1>1 DEF sfVars, ledgerVars, seenVars, hupVars, cliVars, SFInv, SFTypeOK, ForgetPhase,
              NamesSound, NamePhase, MachinesSound, MachinePhase
<1> QED
  BY <1>1, ServingKeeps, HupKeeps, ForgetKeeps, CrashKeeps DEF Serving

\* What was forgotten is always out of all that its stage says.
THEOREM SFInvariance == SFSpec => []SFInv
BY SFInvInit, SFInvNext, PTL DEF SFSpec

\* Type correctness of both files, their copies and the processes that use them.
THEOREM SFTypeCorrect == SFSpec => []SFTypeOK
BY SFInvariance, PTL DEF SFInv

\* A friendly name that `-forget` took out of the file, and that a reload or a
\* restart has since read, is free in the running proxy until a machine claims it,
\* whatever it was doing to the file meanwhile (ledger.forget, ledger.reload).
THEOREM ForgottenNamesAreFree == SFSpec => []ForgottenNameIsFree
<1>1. SFInv => ForgottenNameIsFree
  BY DEF SFInv, NamesSound, NamePhase, ForgottenNameIsFree
<1> QED
  BY <1>1, SFInvariance, PTL

\* A machine that `-forget` took out of the file stays out of the listing after
\* the reload, through crashes, half-written files and other forgets, unless the
\* proxy wrote its own list over the file before it reloaded it (sightings.forget,
\* sightings.reload, save).
THEOREM ForgottenMachinesLeave == SFSpec => []ForgottenMachineLeaves
<1>1. SFInv => ForgottenMachineLeaves
  BY DEF SFInv, MachinesSound, MachinePhase, ForgottenMachineLeaves
<1> QED
  BY <1>1, SFInvariance, PTL

-----------------------------------------------------------------------------
(* revoked_keys.                                                                *)

\* The stamps run behind the file, and what reload has read and not applied yet
\* is the file unless the file has moved on since the stamp.
ReloadSound ==
  /\ stamp <= version /\ wstamp <= version
  /\ wpc = "apply" /\ wstamp = version => good /\ wread = entries

RevInv == RevTypeOK /\ ReloadSound /\ StampSound

\* A revocation that was reported while nothing else ran is in the file, and in
\* what every command now under way has read.
NothingLost ==
  \A k \in promised \ raced :
    /\ k \in entries
    /\ \A p \in Admins : cli[p] # NoCommand => k \in cli[p].read

-----------------------------------------------------------------------------
LEMMA RevInvInit == RevInit => RevInv
<1> SUFFICES ASSUME RevInit PROVE RevInv
  OBVIOUS
<1>1. RevTypeOK
  BY RevocationAssumption DEF RevInit, RevTypeOK
<1> QED
  BY <1>1 DEF RevInit, RevInv, ReloadSound, StampSound

LEMMA CommandsKeep ==
  ASSUME RevInv, Commands
  PROVE  RevInv'
<1> USE DEF RevInv, watcher
<1>0. /\ version \in Nat /\ stamp \in Nat /\ wstamp \in Nat /\ MaxWrites \in Nat
      /\ version <= MaxWrites
  BY RevocationAssumption DEF RevTypeOK
<1>1. ASSUME NEW p \in Admins, NEW op \in {"revoke", "unrevoke"}, NEW k \in Keys,
             CliRead(p, op, k)
      PROVE  RevInv'
  <2>1. [op |-> op, key |-> k, read |-> entries] \in Command
    BY DEF RevTypeOK, Command
  <2>2. cli' \in [Admins -> Command \cup {NoCommand}]
    BY <1>1, <2>1 DEF RevTypeOK, CliRead
  <2> QED
    BY <1>1, <2>2 DEF CliRead, RevTypeOK, ReloadSound, StampSound
<1>2. ASSUME NEW p \in Admins, NEW k \in Keys, CliAlready(p, k)
      PROVE  RevInv'
  BY <1>2 DEF CliAlready, Reported, RevTypeOK, ReloadSound, StampSound
<1>3. ASSUME NEW p \in Admins, CliWrite(p)
      PROVE  RevInv'
  <2>1. cli[p] \in Command
    BY <1>3 DEF RevTypeOK, CliWrite
  <2>2. entries' \subseteq Keys /\ promised' \subseteq Keys /\ raced' \subseteq Keys
    BY <1>3, <2>1 DEF RevTypeOK, CliWrite, Reported, Command
  <2>3. cli' \in [Admins -> Command \cup {NoCommand}]
    BY <1>3 DEF RevTypeOK, CliWrite
  <2>4. version' \in 0..MaxWrites /\ version' > version
    BY <1>0, <1>3 DEF CliWrite
  <2>5. RevTypeOK'
    BY <1>3, <2>2, <2>3, <2>4 DEF RevTypeOK, CliWrite
  <2>6. stamp' < version' /\ wstamp' < version'
    BY <1>0, <1>3, <2>4 DEF CliWrite, ReloadSound
  <2> QED
    BY <1>0, <2>4, <2>5, <2>6 DEF ReloadSound, StampSound, RevTypeOK
<1>4. ASSUME NEW p \in Admins, CliFails(p)
      PROVE  RevInv'
  <2>1. cli' \in [Admins -> Command \cup {NoCommand}]
    BY <1>4 DEF RevTypeOK, CliFails
  <2> QED
    BY <1>4, <2>1 DEF CliFails, RevTypeOK, ReloadSound, StampSound
<1>5. CASE HandEdit
  <2>1. version' \in 0..MaxWrites /\ version' > version /\ good' \in BOOLEAN
    BY <1>0, <1>5 DEF HandEdit, RevTypeOK
  <2>2. RevTypeOK'
    BY <1>5, <2>1 DEF RevTypeOK, HandEdit
  <2>3. stamp' < version' /\ wstamp' < version'
    BY <1>0, <1>5, <2>1 DEF HandEdit, ReloadSound
  <2> QED
    BY <1>0, <2>1, <2>2, <2>3 DEF ReloadSound, StampSound, RevTypeOK
<1> QED
  BY <1>1, <1>2, <1>3, <1>4, <1>5 DEF Commands

LEMMA WatchKeeps ==
  ASSUME RevInv, Reloading \/ SweepDone
  PROVE  RevInv'
<1> USE DEF RevInv, fileAndCommands
<1>1. CASE Stat
  BY <1>1 DEF Stat, RevTypeOK, ReloadSound, StampSound
<1>2. CASE Read
  BY <1>2 DEF Read, RevTypeOK, ReloadSound, StampSound
<1>3. CASE ReadFails
  BY <1>3 DEF ReadFails, RevTypeOK, ReloadSound, StampSound
<1>4. CASE Apply
  BY <1>4 DEF Apply, RevTypeOK, ReloadSound, StampSound
<1>5. CASE SweepDone
  BY <1>5 DEF SweepDone, RevTypeOK, ReloadSound, StampSound
<1> QED
  BY <1>1, <1>2, <1>3, <1>4, <1>5 DEF Reloading

LEMMA RevNextKeeps == RevInv /\ [RevNext]_revVars => RevInv'
<1> SUFFICES ASSUME RevInv, [RevNext]_revVars PROVE RevInv'
  OBVIOUS
<1>1. CASE UNCHANGED revVars
  BY <1>1 DEF RevInv, revVars, RevTypeOK, ReloadSound, StampSound
<1> QED
  BY <1>1, CommandsKeep, WatchKeeps DEF RevNext

\* What reload holds is always the file its stamp stands for.
THEOREM RevInvariance == RevSpec => []RevInv
BY RevInvInit, RevNextKeeps, PTL DEF RevSpec

\* Type correctness of the file, the set in memory, the watch loop and the commands.
THEOREM RevTypeCorrect == RevSpec => []RevTypeOK
BY RevInvariance, PTL DEF RevInv

\* revocations.reload may skip reading a file whose size and mtime are those of
\* its stamp: then the set in memory is the file's. The stamp is taken before the
\* read, so whatever commands and editors do around it, it is never too new.
THEOREM StampIsSound == RevSpec => []StampSound
BY RevInvariance, PTL DEF RevInv

-----------------------------------------------------------------------------
(* What was reported while nothing else ran stays.                              *)

LEMMA NothingLostInit == RevInit => NothingLost
BY DEF RevInit, NothingLost

LEMMA NothingLostKeeps == RevInv /\ NothingLost /\ [RevNext]_revVars => NothingLost'
<1> SUFFICES ASSUME RevInv, NothingLost, [RevNext]_revVars
             PROVE  NothingLost'
  OBVIOUS
<1>0. cli \in [Admins -> Command \cup {NoCommand}]
  BY DEF RevInv, RevTypeOK
<1>1. ASSUME NEW p \in Admins, NEW op \in {"revoke", "unrevoke"}, NEW k \in Keys,
             CliRead(p, op, k)
      PROVE  NothingLost'
  BY <1>0, <1>1 DEF CliRead, NothingLost
<1>2. ASSUME NEW p \in Admins, NEW k \in Keys, CliAlready(p, k)
      PROVE  NothingLost'
  <2>1. CASE Others(p)
    BY <1>2, <2>1 DEF CliAlready, Reported, NothingLost
  <2>2. CASE ~Others(p)
    <3>1. \A q \in Admins : cli'[q] = NoCommand
      BY <1>2, <2>2 DEF CliAlready, Others
    <3> QED
      BY <1>2, <2>2, <3>1 DEF CliAlready, Reported, NothingLost
  <2> QED
    BY <2>1, <2>2
<1>3. ASSUME NEW p \in Admins, CliWrite(p)
      PROVE  NothingLost'
  <2>1. /\ cli'[p] = NoCommand
        /\ \A q \in Admins \ {p} : cli'[q] = cli[q]
    BY <1>0, <1>3 DEF CliWrite
  <2>2. CASE cli[p].op = "revoke"
    <3>1. entries' = cli[p].read \cup {cli[p].key} /\ Reported(p, cli[p].key)
      BY <1>3, <2>2 DEF CliWrite
    <3>2. CASE Others(p)
      BY <1>3, <2>1, <3>1, <3>2 DEF CliWrite, Reported, NothingLost
    <3>3. CASE ~Others(p)
      <4>1. \A q \in Admins : cli'[q] = NoCommand
        BY <2>1, <3>3 DEF Others
      <4> QED
        BY <1>3, <3>1, <3>3, <4>1 DEF CliWrite, Reported, NothingLost
    <3> QED
      BY <3>2, <3>3
  <2>3. CASE cli[p].op = "unrevoke"
    BY <1>3, <2>1, <2>3 DEF CliWrite, NothingLost
  <2> QED
    BY <1>3, <2>2, <2>3 DEF CliWrite
<1>4. ASSUME NEW p \in Admins, CliFails(p)
      PROVE  NothingLost'
  BY <1>0, <1>4 DEF CliFails, NothingLost
<1>5. CASE HandEdit
  BY <1>5 DEF HandEdit, NothingLost
<1>6. CASE Reloading \/ SweepDone
  BY <1>6 DEF Reloading, Stat, Read, ReadFails, Apply, SweepDone,
              fileAndCommands, NothingLost
<1>7. CASE UNCHANGED revVars
  BY <1>7 DEF revVars, NothingLost
<1> QED
  BY <1>1, <1>2, <1>3, <1>4, <1>5, <1>6, <1>7 DEF RevNext, Commands

\* A revocation reported while no other command was between its read and its write
\* stays in the file until it is un-revoked, for any number of operators whose
\* commands overlap and fail afterwards, and whatever lines are mangled by hand
\* (manageRevocations rewrites the whole list from what it read, under no lock:
\* such a report is in every list a later command starts from).
THEOREM ReportedRevocationsStick == RevSpec => []RevocationSticks
<1>1. NothingLost => RevocationSticks
  BY DEF NothingLost, RevocationSticks
<1> QED
  BY <1>1, RevInvariance, NothingLostInit, NothingLostKeeps, PTL DEF RevSpec
=============================================================================
