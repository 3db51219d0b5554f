----------------------------- MODULE Revocations -----------------------------
(* revoked_keys: the file, the commands that rewrite it (-revoke, -unrevoke),  *)
(* the copy a running proxy keeps in memory, and the watch loop that refreshes *)
(* the copy when the file's size and mtime have changed.                       *)
EXTENDS Integers

CONSTANTS Keys,       \* identity keys, by fingerprint
          Admins,     \* processes running a revocation command
          MaxWrites,  \* bound: how often the file is written
          NoCommand   \* what a process runs that runs none

ASSUME RevocationAssumption ==
  /\ MaxWrites \in Nat
  /\ NoCommand \notin Keys

VARIABLES
  entries,   \* the fingerprints in the file
  good,      \* FALSE: some line of it is malformed
  version,   \* what os.Stat sees of the file: 0 before it exists
  mem,       \* revocations.m
  stamp,     \* revocations.stamp
  wpc,       \* where watch is
  wstamp,    \* reload's local "stamp"
  wread,     \* what readRevocations returned to it
  cli,       \* each command: what it read, what it was asked to do
  promised,  \* history: keys whose last finished command said "revoked"
  raced      \* history: the ones said so while another command was under way

revVars == <<entries, good, version, mem, stamp, wpc, wstamp, wread, cli, promised, raced>>

Command == [op : {"revoke", "unrevoke"}, key : Keys, read : SUBSET Keys]

RevTypeOK ==
  /\ entries \subseteq Keys
  /\ good \in BOOLEAN
  /\ version \in 0..MaxWrites
  /\ mem \subseteq Keys
  /\ stamp \in 0..MaxWrites
  /\ wpc \in {"sleep", "read", "apply", "sweep"}
  /\ wstamp \in 0..MaxWrites
  /\ wread \subseteq Keys
  /\ cli \in [Admins -> Command \cup {NoCommand}]
  /\ promised \subseteq Keys
  /\ raced \subseteq Keys

RevInit ==
  /\ entries = {} /\ good = TRUE /\ version = 0
  /\ mem = {} /\ stamp = 0
  /\ wpc = "sleep" /\ wstamp = 0 /\ wread = {}
  /\ cli = [p \in Admins |-> NoCommand]
  /\ promised = {} /\ raced = {}

-----------------------------------------------------------------------------
(* The commands. Each is a process of its own: nothing locks the file.         *)

watcher == <<mem, stamp, wpc, wstamp, wread>>

\* Another command is between its read and its write.
Others(p) == \E q \in Admins \ {p} : cli[q] # NoCommand

\* What a report that k is revoked makes of the history.
Reported(p, k) ==
  /\ promised' = promised \cup {k}
  /\ raced' = IF Others(p) THEN raced \cup ({k} \ promised) ELSE raced \ {k}

\* manageRevocations reads the file, and gives up on a malformed one, on
\* un-revoking what is not there and on revoking what already is.
CliRead(p, op, k) ==
  /\ cli[p] = NoCommand
  /\ good
  /\ (op = "revoke") <=> (k \notin entries)
  /\ cli' = [cli EXCEPT ![p] = [op |-> op, key |-> k, read |-> entries]]
  /\ UNCHANGED <<entries, good, version, promised, raced, watcher>>

\* "already revoked" is success too, and says so.
CliAlready(p, k) ==
  /\ cli[p] = NoCommand
  /\ good
  /\ k \in entries
  /\ Reported(p, k)
  /\ UNCHANGED <<entries, good, version, cli, watcher>>

\* writeRevocations: the whole list, renamed over the file in one step.
CliWrite(p) ==
  LET r == cli[p] IN
  /\ r # NoCommand
  /\ version < MaxWrites
  /\ entries' = IF r.op = "revoke" THEN r.read \cup {r.key} ELSE r.read \ {r.key}
  /\ good' = TRUE
  /\ version' = version + 1
  /\ \/ r.op = "revoke" /\ Reported(p, r.key)
     \/ r.op = "unrevoke" /\ promised' = promised \ {r.key} /\ raced' = raced \ {r.key}
  /\ cli' = [cli EXCEPT ![p] = NoCommand]
  /\ UNCHANGED watcher

\* Faulty variant: a list written in place. A write that fails leaves it empty.
CliFailsHalfway(p) ==
  /\ cli[p] # NoCommand
  /\ version < MaxWrites
  /\ entries' = {} /\ good' = TRUE /\ version' = version + 1
  /\ cli' = [cli EXCEPT ![p] = NoCommand]
  /\ UNCHANGED <<promised, raced, watcher>>

\* The write fails (a full disk, no permission): the command reports an error
\* and the file is as it was.
CliFails(p) ==
  /\ cli[p] # NoCommand
  /\ cli' = [cli EXCEPT ![p] = NoCommand]
  /\ UNCHANGED <<entries, good, version, promised, raced, watcher>>

\* Someone mangles a line by hand, or puts it right again.
HandEdit ==
  /\ version \in 1..(MaxWrites - 1)
  /\ good' = ~good
  /\ version' = version + 1
  /\ UNCHANGED <<entries, promised, raced, cli, watcher>>

-----------------------------------------------------------------------------
(* watch, every revocationSweep.                                               *)

fileAndCommands == <<entries, good, version, cli, promised, raced>>

\* Faulty variant: a file that is read only once.
StatOnce ==
  /\ wpc = "sleep"
  /\ wstamp' = version
  /\ wpc' = IF stamp # 0 \/ version = 0 THEN "sweep" ELSE "read"
  /\ UNCHANGED <<mem, stamp, wread, fileAndCommands>>

\* reload: stat first. An unchanged file is not read again.
Stat ==
  /\ wpc = "sleep"
  /\ wstamp' = version
  /\ wpc' = IF version = stamp THEN "sweep" ELSE "read"
  /\ UNCHANGED <<mem, stamp, wread, fileAndCommands>>

\* readRevocations.
Read ==
  /\ wpc = "read"
  /\ good
  /\ wread' = entries
  /\ wpc' = "apply"
  /\ UNCHANGED <<mem, stamp, wstamp, fileAndCommands>>

\* A malformed file, or one that cannot be opened: the previous set stays, and
\* watch goes back to its ticker without a sweep. (A stat that fails changes
\* nothing at all.)
ReadFails ==
  /\ wpc = "read"
  /\ wpc' = "sleep"
  /\ UNCHANGED <<mem, stamp, wstamp, wread, fileAndCommands>>

\* Faulty variant: the stamp is taken after the read.
ApplyLateStamp ==
  /\ wpc = "apply"
  /\ mem' = wread
  /\ stamp' = version
  /\ wpc' = "sweep"
  /\ UNCHANGED <<wstamp, wread, fileAndCommands>>

\* Under the lock: the set that was read, with the stamp from before the read.
Apply ==
  /\ wpc = "apply"
  /\ mem' = wread
  /\ stamp' = wstamp
  /\ wpc' = "sweep"
  /\ UNCHANGED <<wstamp, wread, fileAndCommands>>

\* The sweep is over. RevokedAgents says what it does in between.
SweepDone ==
  /\ wpc = "sweep"
  /\ wpc' = "sleep"
  /\ UNCHANGED <<mem, stamp, wstamp, wread, fileAndCommands>>

-----------------------------------------------------------------------------
Commands ==
  \/ \E p \in Admins, op \in {"revoke", "unrevoke"}, k \in Keys : CliRead(p, op, k)
  \/ \E p \in Admins, k \in Keys : CliAlready(p, k)
  \/ \E p \in Admins : CliWrite(p) \/ CliFails(p)
  \/ HandEdit

Reloading == Stat \/ Read \/ ReadFails \/ Apply

RevNext == Commands \/ Reloading \/ SweepDone

RevSpec == RevInit /\ [][RevNext]_revVars

\* watch is a goroutine on a ticker, and a file it may read is not unreadable
\* for ever: among failing reads of a well-formed file one succeeds. An operator
\* owes nobody a command.
RevFairSpec ==
  /\ RevSpec
  /\ WF_revVars(Reloading \/ SweepDone)
  /\ SF_revVars(Read)

-----------------------------------------------------------------------------
(* Properties.                                                                 *)

\* The stamp is a sound reason to skip reading: while it equals the file's, the
\* set in memory is the file's, and the file is well formed. This is what taking
\* the stamp before the read buys, and what refusing a malformed file keeps.
StampSound == stamp = version => good /\ mem = entries

\* A revocation reported while no other command was between its read and its
\* write is in the file until it is un-revoked, whatever commands run, overlap
\* and fail afterwards. The exception is the code's: nothing locks the file, and
\* a command that read the list before another one wrote it puts the old list
\* back, so the reports in raced may be lost.
RevocationSticks == promised \ raced \subseteq entries

\* A key that stays revoked in a file that stays well formed ends up barred in
\* the running proxy, for good.
RevocationReachesProxy ==
  \A k \in Keys : <>[](k \in entries /\ good) => <>[](k \in mem)
=============================================================================
