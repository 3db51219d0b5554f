----------------------------- MODULE StateFiles -----------------------------
(* The two advisory files, friendly_labels (ledger) and last_seen (sightings), *)
(* each with the copy the running proxy keeps in memory, and everything that   *)
(* touches them: agents registering, `proxy -forget` run as a process of its   *)
(* own, SIGHUP, a crash. Both files are replaced with os.WriteFile, which      *)
(* truncates first and writes after, and nothing locks them between processes. *)
EXTENDS Integers

CONSTANTS Machines,       \* enrolled machines; each has one canonical name
          FriendlyNames,
          Label,          \* Label[k]: the friendly part of k's canonical name
          None

ASSUME LabelAssumption == Label \in [Machines -> FriendlyNames]
ASSUME AbsentAssumption == None \notin Machines \cup FriendlyNames

Bindings == [FriendlyNames -> Machines \cup {None}]
NoBindings == [n \in FriendlyNames |-> None]

VARIABLES
  lmem, lfile,   \* ledger.m and friendly_labels
  smem, sfile,   \* sightings.m and last_seen, without the times
  saving,        \* each seen() call: nothing, save() due, file truncated
  hpc, hl, hs,   \* the SIGHUP loop: where it is, what its reloads have read
  cpc, target,   \* a -forget command: where it is, what it forgets
  cl, cs,        \* its own copies of ledger and sightings
  freed,         \* history: how far forgetting a friendly name has come
  forgotten      \* history: how far forgetting a machine has come

ledgerVars == <<lmem, lfile, freed>>
seenVars   == <<smem, sfile, saving, forgotten>>
hupVars    == <<hpc, hl, hs>>
cliVars    == <<cpc, target, cl, cs>>
sfVars     == <<ledgerVars, seenVars, hupVars, cliVars>>

Progress == {"no", "filed", "overwritten", "read", "reloaded"}

SFTypeOK ==
  /\ lmem \in Bindings /\ lfile \in Bindings
  /\ smem \subseteq Machines /\ sfile \subseteq Machines
  /\ saving \in [Machines -> {"no", "due", "cut"}]
  /\ hpc \in {"idle", "applyLedger", "readSeen", "applySeen"}
  /\ hl \in Bindings /\ hs \subseteq Machines
  /\ cpc \in {"idle", "seen", "seenCut", "ledger", "ledgerCut"}
  /\ target \in Machines \cup FriendlyNames \cup {None}
  /\ cl \in Bindings /\ cs \subseteq Machines
  /\ freed \in [FriendlyNames -> Progress]
  /\ forgotten \in [Machines -> Progress]

SFInit ==
  /\ lmem = NoBindings /\ lfile = NoBindings
  /\ smem = {} /\ sfile = {}
  /\ saving = [k \in Machines |-> "no"]
  /\ hpc = "idle" /\ hl = NoBindings /\ hs = {}
  /\ cpc = "idle" /\ target = None /\ cl = NoBindings /\ cs = {}
  /\ freed = [n \in FriendlyNames |-> "no"]
  /\ forgotten = [k \in Machines |-> "no"]

\* History: how far forgetting has come, after a step that moves it on for the
\* elements of S.
Advance(f, from, to, S) ==
  [x \in DOMAIN f |-> IF f[x] \in from /\ x \in S THEN to ELSE f[x]]

-----------------------------------------------------------------------------
(* The running proxy.                                                          *)

\* ledger.claim of an unheld name: bound in memory, and one line appended. The
\* append may fail, which is only logged. (A held name changes nothing.)
Claim(k) ==
  LET n == Label[k] IN
  /\ lmem[n] = None
  /\ lmem' = [lmem EXCEPT ![n] = k]
  /\ \/ lfile' = [lfile EXCEPT ![n] = k]
     \/ UNCHANGED lfile
  /\ freed' = [freed EXCEPT ![n] = "no"]
  /\ UNCHANGED <<seenVars, hupVars, cliVars>>

\* sightings.mu is held from the truncation to the end of the write.
SeenUnlocked == \A k \in Machines : saving[k] # "cut"

\* sightings.seen, up to the unlock before it calls save.
Seen(k) ==
  /\ saving[k] = "no"
  /\ SeenUnlocked
  /\ smem' = smem \cup {k}
  /\ saving' = [saving EXCEPT ![k] = "due"]
  /\ forgotten' = [forgotten EXCEPT ![k] = "no"]
  /\ UNCHANGED <<sfile, ledgerVars, hupVars, cliVars>>

\* save: os.WriteFile truncates ...
SaveBegins(k) ==
  /\ saving[k] = "due"
  /\ SeenUnlocked
  /\ sfile' = {}
  /\ saving' = [saving EXCEPT ![k] = "cut"]
  /\ UNCHANGED <<smem, forgotten, ledgerVars, hupVars, cliVars>>

\* ... and writes every sighting there is.
SaveEnds(k) ==
  /\ saving[k] = "cut"
  /\ sfile' = smem
  /\ saving' = [saving EXCEPT ![k] = "no"]
  /\ forgotten' = Advance(forgotten, {"filed", "read"}, "overwritten", smem)
  /\ UNCHANGED <<smem, ledgerVars, hupVars, cliVars>>

\* SIGHUP. ledger.reload opens and reads the file without the lock ...
HupReadsLedger ==
  /\ hpc = "idle"
  /\ hl' = lfile
  /\ hpc' = "applyLedger"
  /\ freed' = Advance(freed, {"filed"}, "read", FriendlyNames)
  /\ UNCHANGED <<lmem, lfile, hs, seenVars, cliVars>>

\* Faulty variant: the reload adds to the map instead of replacing it.
HupMergesLedger ==
  /\ hpc = "applyLedger"
  /\ lmem' = [n \in FriendlyNames |-> IF hl[n] # None THEN hl[n] ELSE lmem[n]]
  /\ hpc' = "readSeen"
  /\ hl' = NoBindings
  /\ freed' = Advance(freed, {"read"}, "reloaded", FriendlyNames)
  /\ UNCHANGED <<lfile, hs, seenVars, cliVars>>

\* ... and then replaces the map under it.
HupAppliesLedger ==
  /\ hpc = "applyLedger"
  /\ lmem' = hl
  /\ hpc' = "readSeen"
  /\ hl' = NoBindings
  /\ freed' = Advance(freed, {"read"}, "reloaded", FriendlyNames)
  /\ UNCHANGED <<lfile, hs, seenVars, cliVars>>

\* A file that cannot be read: the previous bindings stay, and the loop goes on
\* to the sightings all the same.
HupLedgerFails ==
  /\ hpc = "idle"
  /\ hpc' = "readSeen"
  /\ UNCHANGED <<hl, hs, ledgerVars, seenVars, cliVars>>

\* sightings.reload, the same way.
HupReadsSeen ==
  /\ hpc = "readSeen"
  /\ hs' = sfile
  /\ hpc' = "applySeen"
  /\ forgotten' = Advance(forgotten, {"filed"}, "read", Machines)
  /\ UNCHANGED <<smem, sfile, saving, hl, ledgerVars, cliVars>>

\* Faulty variant: likewise for the sightings.
HupMergesSeen ==
  /\ hpc = "applySeen"
  /\ SeenUnlocked
  /\ smem' = smem \cup hs
  /\ hpc' = "idle" /\ hs' = {}
  /\ forgotten' = Advance(forgotten, {"read"}, "reloaded", Machines)
  /\ UNCHANGED <<sfile, saving, hl, ledgerVars, cliVars>>

HupAppliesSeen ==
  /\ hpc = "applySeen"
  /\ SeenUnlocked
  /\ smem' = hs
  /\ hpc' = "idle" /\ hs' = {}
  /\ forgotten' = Advance(forgotten, {"read"}, "reloaded", Machines)
  /\ UNCHANGED <<sfile, saving, hl, ledgerVars, cliVars>>

HupSeenFails ==
  /\ hpc = "readSeen"
  /\ hpc' = "idle"
  /\ UNCHANGED <<hl, hs, ledgerVars, seenVars, cliVars>>

\* The process dies and is started again: openLedger and openSightings take
\* what the files hold at that moment.
Crash ==
  /\ lmem' = lfile
  /\ smem' = sfile
  /\ saving' = [k \in Machines |-> "no"]
  /\ hpc' = "idle" /\ hl' = NoBindings /\ hs' = {}
  /\ freed' = Advance(freed, {"filed", "read"}, "reloaded", FriendlyNames)
  /\ forgotten' = Advance(forgotten, {"filed", "read"}, "reloaded", Machines)
  /\ UNCHANGED <<lfile, sfile, cliVars>>

-----------------------------------------------------------------------------
(* proxy -forget, another process with its own copies of both files.           *)

\* The friendly name a target stands for: itself, or what precedes the dot.
LabelOf(t) == IF t \in Machines THEN Label[t] ELSE t

\* The process exits.
ForgetExits == cpc' = "idle" /\ target' = None /\ cl' = NoBindings /\ cs' = {}

\* Both files are read before anything is changed. A friendly name is forgotten
\* in the ledger; for a canonical one the sightings come first. Each is done
\* only if the copy holds the name.
ForgetOpens(t) ==
  LET known == t \in Machines /\ t \in sfile
      held  == lfile[LabelOf(t)] # None
  IN
  /\ cpc = "idle"
  /\ known \/ held
  /\ cl' = lfile
  /\ cs' = sfile
  /\ target' = t
  /\ cpc' = IF known THEN "seen" ELSE "ledger"
  /\ UNCHANGED <<hupVars, ledgerVars, seenVars>>

\* sightings.forget and its save.
ForgetCutsSeen ==
  /\ cpc = "seen"
  /\ sfile' = {}
  /\ cpc' = "seenCut"
  /\ UNCHANGED <<smem, saving, forgotten, target, cl, cs, ledgerVars, hupVars>>

ForgetWritesSeen ==
  /\ cpc = "seenCut"
  /\ sfile' = cs \ {target}
  /\ forgotten' = [forgotten EXCEPT ![target] = "filed"]
  /\ IF cl[LabelOf(target)] # None
     THEN cpc' = "ledger" /\ UNCHANGED <<target, cl, cs>>
     ELSE ForgetExits
  /\ UNCHANGED <<smem, saving, ledgerVars, hupVars>>

\* ledger.forget and its rewrite.
ForgetCutsLedger ==
  /\ cpc = "ledger"
  /\ lfile' = NoBindings
  /\ cpc' = "ledgerCut"
  /\ UNCHANGED <<lmem, freed, target, cl, cs, seenVars, hupVars>>

ForgetWritesLedger ==
  LET n == LabelOf(target) IN
  /\ cpc = "ledgerCut"
  /\ lfile' = [cl EXCEPT ![n] = None]
  /\ freed' = [freed EXCEPT ![n] = "filed"]
  /\ ForgetExits
  /\ UNCHANGED <<lmem, seenVars, hupVars>>

-----------------------------------------------------------------------------
Serving ==
  \E k \in Machines : Claim(k) \/ Seen(k) \/ SaveBegins(k) \/ SaveEnds(k)

Hup ==
  \/ HupReadsLedger \/ HupAppliesLedger \/ HupLedgerFails
  \/ HupReadsSeen \/ HupAppliesSeen \/ HupSeenFails

Forget ==
  \/ \E t \in Machines \cup FriendlyNames : ForgetOpens(t)
  \/ ForgetCutsSeen \/ ForgetWritesSeen \/ ForgetCutsLedger \/ ForgetWritesLedger

SFSpec == SFInit /\ [][Serving \/ Hup \/ Forget \/ Crash]_sfVars

-----------------------------------------------------------------------------
(* Properties.                                                                 *)

\* A friendly name that was forgotten, and whose file has been reloaded since,
\* is free for the next machine: nothing the running proxy does brings the old
\* owner back. ("Forget it first and the name is free again.")
ForgottenNameIsFree ==
  \A n \in FriendlyNames : freed[n] = "reloaded" => lmem[n] = None

\* A machine that was forgotten, and has not been seen since, is gone from the
\* listing after the reload, provided the running proxy did not save its own
\* list over the file in between.
ForgottenMachineLeaves ==
  \A k \in Machines : forgotten[k] = "reloaded" => k \notin smem
=============================================================================
