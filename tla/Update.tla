------------------------------- MODULE Update -------------------------------
(* An installed agent's binary: install.sh's --update from the proxy, --update  *)
(* with a binary the operator pushed, and --rollback, each of which may be cut  *)
(* off between any two of its steps: run over the agent's own tunnel it is a    *)
(* part of the agent's unit, and ends with the agent.                           *)
(* One script runs at a time. A build stands for its binary, its checksum and   *)
(* the version of the proxy that serves it; later builds have higher numbers.   *)
EXTENDS Integers

CONSTANT MaxBuild   \* builds deployed to the proxy

ASSUME UpdateAssumption == MaxBuild \in Nat \ {0}

VARIABLES
  served,    \* the build the proxy serves, in its script and as the binary
  bin,       \* multissh-agent
  prev,      \* multissh-agent.prev; 0 is none
  new,       \* multissh-agent.new
  version,   \* M_VERSION in the manifest; Other is none that a proxy serves
  saved,     \* the version frozen into manage.sh
  running,   \* the build the agent was started from
  script,    \* the script
  cut,       \* history: a rollback or a push was cut off between its binary
             \* and the manifest
  behind     \* history: an update was cut off between the manifest and the
             \* restart, and nothing has restarted the agent since

machine == <<bin, prev, new, version, saved>>
updVars == <<served, machine, running, script, cut, behind>>

Builds == 1..MaxBuild
NoFile == 0
Partial == -1   \* the beginning of a file
Other == -2     \* "rolled-back", or the hash of a pushed binary

Idle == [at |-> "idle"]

UpdTypeOK ==
  /\ served \in Builds /\ bin \in Builds \cup {Partial} /\ running \in Builds
  /\ prev \in Builds \cup {NoFile}
  /\ new \in Builds \cup {NoFile, Partial}
  /\ version \in Builds \cup {Other}
  /\ saved \in Builds \cup {Partial}
  /\ script \in {Idle} \cup
       [at : {"check", "fetch", "fetching", "verify", "keep", "swap", "manifest",
              "save", "restart"},
        mode : {"update", "push", "rollback"}, want : Builds,
        fresh : BOOLEAN]
  /\ cut \in BOOLEAN /\ behind \in BOOLEAN

\* Installed and running.
UpdInit ==
  /\ served = 1 /\ bin = 1 /\ prev = NoFile /\ new = NoFile
  /\ version = 1 /\ saved = 1 /\ running = 1
  /\ script = Idle /\ cut = FALSE /\ behind = FALSE

Deploy ==
  /\ served < MaxBuild
  /\ served' = served + 1
  /\ UNCHANGED <<machine, running, script, cut, behind>>

-----------------------------------------------------------------------------
(* The script.                                                                  *)

Goto(pc) ==
  script' = [at |-> pc, mode |-> script.mode, want |-> script.want,
             fresh |-> script.fresh]
Run(s) == script = Idle /\ script' = s

\* --update by manage.sh hands over to the script the proxy serves now, ...
BeginUpdate ==
  /\ saved # Partial
  /\ Run([at |-> "check", mode |-> "update", want |-> served, fresh |-> TRUE])
  /\ UNCHANGED <<served, machine, running, cut, behind>>

\* ... or, when that cannot be had, goes on as it is.
BeginSaved ==
  /\ saved # Partial
  /\ Run([at |-> "check", mode |-> "update", want |-> saved, fresh |-> FALSE])
  /\ UNCHANGED <<served, machine, running, cut, behind>>

\* The installer run again, from the proxy, updates too, handing over or not.
BeginReinstall ==
  /\ \E fresh \in BOOLEAN :
       Run([at |-> "check", mode |-> "update", want |-> served, fresh |-> fresh])
  /\ UNCHANGED <<served, machine, running, cut, behind>>

\* A pushed binary is copied and taken whatever its version.
BeginPush ==
  /\ \E b \in Builds :
       Run([at |-> "fetching", mode |-> "push", want |-> b, fresh |-> FALSE])
  /\ new' = Partial
  /\ UNCHANGED <<served, bin, prev, version, saved, running, cut, behind>>

\* --rollback, if there is a previous binary.
BeginRollback ==
  /\ prev # NoFile
  /\ Run([at |-> "swap", mode |-> "rollback", want |-> prev, fresh |-> FALSE])
  /\ UNCHANGED <<served, machine, running, cut, behind>>

AlreadyCurrent ==
  /\ script.at = "check"
  /\ version = script.want
  /\ script' = Idle
  /\ UNCHANGED <<served, machine, running, cut, behind>>

NotCurrent ==
  /\ script.at = "check"
  /\ version # script.want
  /\ Goto("fetch")
  /\ UNCHANGED <<served, machine, running, cut, behind>>

\* download_binary: the file is begun ...
FetchBegins ==
  /\ script.at = "fetch"
  /\ new' = Partial
  /\ Goto("fetching")
  /\ UNCHANGED <<served, bin, prev, version, saved, running, cut, behind>>

\* ... and complete: what the proxy serves by now, or the pushed file, ...
FetchEnds ==
  /\ script.at = "fetching"
  /\ new' = IF script.mode = "push" THEN script.want ELSE served
  /\ Goto(IF script.mode = "push" THEN "keep" ELSE "verify")
  /\ UNCHANGED <<served, bin, prev, version, saved, running, cut, behind>>

\* Faulty variant: a download that broke off is taken for one that did not.
FetchFailsUnseen ==
  /\ script.at = "fetching"
  /\ Goto("keep")
  /\ UNCHANGED <<served, machine, running, cut, behind>>

\* ... or the download or the copy fails.
FetchFails ==
  /\ script.at = "fetching"
  /\ new' = NoFile
  /\ script' = Idle
  /\ UNCHANGED <<served, bin, prev, version, saved, running, cut, behind>>

Verified ==
  /\ script.at = "verify"
  /\ new = script.want
  /\ Goto("keep")
  /\ UNCHANGED <<served, machine, running, cut, behind>>

Mismatch ==
  /\ script.at = "verify"
  /\ new # script.want
  /\ new' = NoFile
  /\ script' = Idle
  /\ UNCHANGED <<served, bin, prev, version, saved, running, cut, behind>>

\* The outgoing binary is kept, by a copy and a rename, which may fail without
\* ending the script.
Keep ==
  /\ script.at = "keep"
  /\ prev' \in {bin, prev}
  /\ Goto("swap")
  /\ UNCHANGED <<served, bin, new, version, saved, running, cut, behind>>

\* The rename, of the new file or of a copy of the previous one.
Swap ==
  /\ script.at = "swap"
  /\ IF script.mode = "rollback"
     THEN bin' = prev /\ UNCHANGED new
     ELSE bin' = new /\ new' = NoFile
  /\ Goto("manifest")
  /\ UNCHANGED <<served, prev, version, saved, running, cut, behind>>

\* The manifest is rewritten, by a rename too.
SetManifestVersion ==
  /\ script.at = "manifest"
  /\ version' = IF script.mode = "update" THEN script.want ELSE Other
  /\ Goto(IF script.mode = "update" THEN "save" ELSE "restart")
  /\ UNCHANGED <<served, bin, prev, new, saved, running, cut, behind>>

\* save_manage_copy: the script that was handed over to is copied over manage.sh
\* in one step. Run in place, manage.sh fetches itself anew, without a rename.
SaveManageCopy ==
  /\ script.at = "save"
  /\ saved' \in IF script.fresh THEN {script.want} ELSE {served, saved, Partial}
  /\ Goto("restart")
  /\ UNCHANGED <<served, bin, prev, new, version, running, cut, behind>>

\* Faulty variant: an update that leaves the restart to the next reboot.
SvcRestartSkips ==
  /\ script.at = "restart"
  /\ script' = Idle
  /\ UNCHANGED <<served, machine, running, cut, behind>>

\* svc_restart, after which nothing matters.
SvcRestart ==
  /\ script.at = "restart"
  /\ running' = bin
  /\ behind' = FALSE
  /\ script' = Idle
  /\ UNCHANGED <<served, machine, cut>>

-----------------------------------------------------------------------------
(* What may happen to it.                                                       *)

\* What is left when the script is cut off: the files, as they are.
Killed ==
  /\ script' = Idle
  /\ cut' = (cut \/ (script.at = "manifest" /\ script.mode # "update"))

\* The script is interrupted, or the session it runs in ends.
Interrupt ==
  /\ script # Idle
  /\ Killed
  /\ behind' = (behind \/ (script.at \in {"save", "restart"} /\ script.mode = "update"))
  /\ UNCHANGED <<served, machine, running>>

\* The agent ends, or its machine does, and the unit starts what is installed. A
\* script started over the tunnel goes with the agent, any script with the machine.
AgentRestarts ==
  /\ running' = bin
  /\ behind' = FALSE
  /\ (script # Idle /\ Killed) \/ UNCHANGED <<script, cut>>
  /\ UNCHANGED <<served, machine>>

Begin == BeginUpdate \/ BeginReinstall

Step ==
  \/ AlreadyCurrent \/ NotCurrent \/ FetchBegins \/ Verified \/ Mismatch
  \/ Keep \/ Swap \/ SetManifestVersion \/ SaveManageCopy \/ SvcRestart

UpdNext ==
  \/ Deploy \/ Begin \/ Step \/ FetchEnds \/ FetchFails
  \/ BeginSaved \/ BeginPush \/ BeginRollback
  \/ Interrupt \/ AgentRestarts

UpdSpec == UpdInit /\ [][UpdNext]_updVars

\* The update is tried again and again, and not cut off every time in the same
\* place. Nothing restarts an agent that runs.
UpdFairSpec ==
  /\ UpdSpec
  /\ WF_updVars(Step)
  /\ SF_updVars(Begin) /\ SF_updVars(FetchEnds)
  /\ SF_updVars(NotCurrent) /\ SF_updVars(FetchBegins)
  /\ SF_updVars(Verified)
  /\ SF_updVars(Keep) /\ SF_updVars(Swap) /\ SF_updVars(SetManifestVersion)

-----------------------------------------------------------------------------
(* Properties.                                                                  *)

\* Whenever the agent or its machine restarts, there is a whole binary to start,
\* of a build that was verified or pushed ("There is no window in which the
\* machine is left with neither", download_binary).
AlwaysABinary == bin \in Builds /\ running \in Builds

\* An update that is cut off and run again gets there: the build the proxy serves
\* comes to be installed, and the agent to run it, once the proxy can be asked for
\* its script and deployments, pushes and rollbacks are over, unless one of the
\* latter two was cut off before it could clear the manifest. One cut takes the
\* restart with it: an update that ends between the manifest and svc_restart is
\* "already current" to the next one, and the agent runs its old build until
\* something else restarts it.
UpdateConverges ==
  <>[](script # Idle => script.mode = "update" /\ script.fresh) /\ []~cut
    => <>[](bin = served /\ (running = served \/ behind))
=============================================================================
