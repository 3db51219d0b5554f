------------------------------- MODULE Enroll -------------------------------
(* Enrolment: the enroller's handler with its limiter, its argon slots and its  *)
(* snapshot of the passwords; -add-password and -remove-password as processes   *)
(* of their own, which rewrite the password file; and the reload on SIGHUP.     *)
(* Two passwords never share a secret, and a secret is not used again.          *)
EXTENDS Limiter, FiniteSets

CONSTANTS
  Requests,   \* requests in progress at once
  Operators,  \* password commands run at once
  Labels,     \* names of passwords
  Secrets,
  Keys,       \* identity keys
  Validity,   \* lifetime of the passwords that have one
  Explicit,   \* -enrol-concurrency; 0 is unset
  Avail,      \* MemAvailable at the start, in MiB; 0 where there is no meminfo
  MaxClock

ASSUME EnrollAssumption ==
  /\ IsFiniteSet(Requests)
  /\ Validity \in Nat /\ Explicit \in Nat /\ Avail \in Nat /\ MaxClock \in Nat

VARIABLES
  now,
  file,       \* the password file
  passwords,  \* the enroller's set
  revoked,    \* the revoked identity keys
  limit,      \* the enroller's limiter
  argon,      \* argon slots in use
  req,        \* the requests
  cli,        \* the password commands
  hup,        \* the SIGHUP loop: signal pending, and what it has read
  fresh,      \* secrets not used yet
  withdrawn,  \* for the properties: secrets whose removal has been written,
  gone,       \* and those of them a reload since has read the file without
  admitted    \* when each address's requests passed the limiter

files == <<file, fresh, withdrawn>>
memory == <<passwords, hup, gone>>
enrVars == <<now, files, memory, revoked, limit, argon, req, cli, admitted>>

Password == [name : Labels, secret : Secrets, expires : 0..(MaxClock + Validity)]
Idle == [at |-> "idle"]

\* Verifications at once: as told, or what fits in half the memory, 64 MiB each,
\* at least one and at most argonParallelism.
enrolSlots(explicit, avail) ==
  IF explicit > 0 THEN explicit
  ELSE IF avail = 0 THEN 4
  ELSE LET n == (avail \div 2) \div 64 IN IF n < 1 THEN 1 ELSE IF n > 4 THEN 4 ELSE n

ArgonSlots == enrolSlots(Explicit, Avail)

\* Zero means never.
expired(p) == p.expires # 0 /\ now > p.expires

EnrTypeOK ==
  /\ now \in 0..MaxClock
  /\ file \subseteq Password /\ passwords \subseteq Password
  /\ revoked \subseteq Keys
  /\ IsLimiter(limit)
  /\ argon \in Nat
  /\ req \in [Requests ->
       {Idle} \cup [at : {"slot", "verify", "key", "sign"}, key : Keys,
                    secret : Secrets, set : SUBSET Password, late : SUBSET Secrets]]
  /\ cli \in [Operators ->
       {Idle} \cup [at : {"add"}, read : SUBSET Password, new : Password]
              \cup [at : {"remove"}, read : SUBSET Password, label : Labels]]
  /\ hup \in [pending : BOOLEAN, loaded : BOOLEAN, read : SUBSET Password,
              gone : SUBSET Secrets]
  /\ fresh \subseteq Secrets /\ withdrawn \subseteq Secrets /\ gone \subseteq Secrets
  /\ admitted \in [Addrs -> Seq(Int)]

\* No password has been made yet.
EnrInit ==
  /\ now = 0
  /\ file = {} /\ passwords = {} /\ revoked = {}
  /\ limit = newLimiter
  /\ argon = 0
  /\ req = [r \in Requests |-> Idle]
  /\ cli = [o \in Operators |-> Idle]
  /\ hup = [pending |-> FALSE, loaded |-> FALSE, read |-> {}, gone |-> {}]
  /\ fresh = Secrets /\ withdrawn = {} /\ gone = {}
  /\ admitted = [a \in Addrs |-> <<>>]

-----------------------------------------------------------------------------
(* enroller.handle.                                                             *)

Step(r, pc) == req' = [req EXCEPT ![r].at = pc]

\* A request passes the limiter, and its body can be decoded or not.
Admit(r) ==
  /\ req[r] = Idle
  /\ \E a \in Addrs :
       LET verdict == allow(limit, a, now) IN
       /\ verdict.ok
       /\ limit' = verdict.lim
       /\ admitted' = [admitted EXCEPT ![a] = Append(@, now)]
  /\ \/ \E k \in Keys, s \in Secrets :
          req' = [req EXCEPT ![r] = [at |-> "slot", key |-> k, secret |-> s,
                                     set |-> {}, late |-> {}]]
     \/ UNCHANGED req
  /\ UNCHANGED <<now, files, memory, revoked, argon, cli>>

\* Too many attempts.
Refuse(r) ==
  /\ req[r] = Idle
  /\ \E a \in Addrs :
       LET verdict == allow(limit, a, now) IN
       ~verdict.ok /\ limit' = verdict.lim
  /\ UNCHANGED <<now, files, memory, revoked, argon, req, cli, admitted>>

\* A slot is free; the set in force is loaded, ...
TakeArgon(r) ==
  /\ req[r].at = "slot"
  /\ argon < ArgonSlots
  /\ argon' = argon + 1
  /\ req' = [req EXCEPT ![r].at = "verify", ![r].set = passwords, ![r].late = gone]
  /\ UNCHANGED <<now, files, memory, revoked, limit, cli, admitted>>

\* ... or none is, and the request is shed.
Busy(r) ==
  /\ req[r].at = "slot"
  /\ argon >= ArgonSlots
  /\ req' = [req EXCEPT ![r] = Idle]
  /\ UNCHANGED <<now, files, memory, revoked, limit, argon, cli, admitted>>

\* Faulty variant: the release is not deferred.
AnswerLeaks(r) ==
  /\ req' = [req EXCEPT ![r] = Idle]
  /\ argon' = argon

\* The handler returns with a slot, and the deferred release gives it back.
Answer(r) ==
  /\ req' = [req EXCEPT ![r] = Idle]
  /\ argon' = argon - 1

Matches(r) == \E p \in req[r].set : p.secret = req[r].secret /\ ~expired(p)

\* Every password of the set has been tried: one matched, ...
Verified(r) ==
  /\ req[r].at = "verify"
  /\ Matches(r)
  /\ Step(r, "key")
  /\ UNCHANGED <<now, files, memory, revoked, limit, argon, cli, admitted>>

\* ... or none did.
Unauthorized(r) ==
  /\ req[r].at = "verify"
  /\ ~Matches(r)
  /\ Answer(r)
  /\ UNCHANGED <<now, files, memory, revoked, limit, cli, admitted>>

\* The identity key can be parsed and is not revoked, ...
KeyOK(r) ==
  /\ req[r].at = "key"
  /\ req[r].key \notin revoked
  /\ Step(r, "sign")
  /\ UNCHANGED <<now, files, memory, revoked, limit, argon, cli, admitted>>

\* ... or one of that is not so.
KeyRefused(r) ==
  /\ req[r].at = "key"
  /\ Answer(r)
  /\ UNCHANGED <<now, files, memory, revoked, limit, cli, admitted>>

\* The certificate is signed and sent, or the name is no good, signing fails, or
\* there are no authorized keys to send with it.
Sign(r) ==
  /\ req[r].at = "sign"
  /\ Answer(r)
  /\ UNCHANGED <<now, files, memory, revoked, limit, cli, admitted>>

-----------------------------------------------------------------------------
(* managePasswords, by an operator.                                             *)

\* -add-password reads the file, unless the label is taken, and prompts.
AddReads(o) ==
  /\ cli[o] = Idle
  /\ \E s \in fresh, n \in Labels, life \in {0, Validity} :
       /\ \A p \in file : p.name # n
       /\ fresh' = fresh \ {s}
       /\ cli' = [cli EXCEPT ![o] =
            [at |-> "add", read |-> file,
             new |-> [name |-> n, secret |-> s,
                      expires |-> IF life = 0 THEN 0 ELSE now + life]]]
  /\ UNCHANGED <<now, file, withdrawn, memory, revoked, limit, argon, req, admitted>>

\* The password was typed: what was read is written, with the new one.
AddWrites(o) ==
  /\ cli[o].at = "add"
  /\ file' = cli[o].read \cup {cli[o].new}
  /\ cli' = [cli EXCEPT ![o] = Idle]
  /\ UNCHANGED <<now, fresh, withdrawn, memory, revoked, limit, argon, req, admitted>>

\* -remove-password reads the file, unless the label is not there, ...
RemoveReads(o) ==
  /\ cli[o] = Idle
  /\ \E p \in file :
       cli' = [cli EXCEPT ![o] = [at |-> "remove", read |-> file, label |-> p.name]]
  /\ UNCHANGED <<now, files, memory, revoked, limit, argon, req, admitted>>

\* ... and writes what is left.
RemoveWrites(o) ==
  /\ cli[o].at = "remove"
  /\ LET cut == {p \in cli[o].read : p.name = cli[o].label} IN
       /\ file' = cli[o].read \ cut
       /\ withdrawn' = withdrawn \cup {p.secret : p \in cut}
  /\ cli' = [cli EXCEPT ![o] = Idle]
  /\ UNCHANGED <<now, fresh, memory, revoked, limit, argon, req, admitted>>

\* The command is broken off at the prompt, the entries differ or are too short,
\* or the file cannot be written: WriteFileAtomic leaves the old one.
CliFails(o) ==
  /\ cli[o] # Idle
  /\ cli' = [cli EXCEPT ![o] = Idle]
  /\ UNCHANGED <<now, files, memory, revoked, limit, argon, req, admitted>>

-----------------------------------------------------------------------------
(* SIGHUP, and the world.                                                       *)

\* The channel holds one signal.
Signal ==
  /\ ~hup.pending
  /\ hup' = [hup EXCEPT !.pending = TRUE]
  /\ UNCHANGED <<now, files, passwords, gone, revoked, limit, argon, req, cli, admitted>>

HupReads ==
  /\ hup.pending /\ ~hup.loaded
  /\ hup' = [pending |-> FALSE, loaded |-> TRUE, read |-> file, gone |-> withdrawn]
  /\ UNCHANGED <<now, files, passwords, gone, revoked, limit, argon, req, cli, admitted>>

\* A file that cannot be read or parsed leaves the set in place.
HupFails ==
  /\ hup.pending /\ ~hup.loaded
  /\ hup' = [hup EXCEPT !.pending = FALSE]
  /\ UNCHANGED <<now, files, passwords, gone, revoked, limit, argon, req, cli, admitted>>

\* Faulty variant: passwords are only ever added.
HupMerges ==
  /\ hup.loaded
  /\ passwords' = passwords \cup hup.read
  /\ gone' = hup.gone
  /\ hup' = [hup EXCEPT !.loaded = FALSE, !.read = {}, !.gone = {}]
  /\ UNCHANGED <<now, files, revoked, limit, argon, req, cli, admitted>>

HupApplies ==
  /\ hup.loaded
  /\ passwords' = hup.read
  /\ gone' = hup.gone
  /\ hup' = [hup EXCEPT !.loaded = FALSE, !.read = {}, !.gone = {}]
  /\ UNCHANGED <<now, files, revoked, limit, argon, req, cli, admitted>>

\* The revocation watch has loaded another set.
Revoke ==
  /\ revoked' \in SUBSET Keys
  /\ UNCHANGED <<now, files, memory, limit, argon, req, cli, admitted>>

Tick ==
  /\ now < MaxClock
  /\ now' = now + 1
  /\ admitted' = [a \in Addrs |-> Recent(admitted[a], now')]
  /\ UNCHANGED <<files, memory, revoked, limit, argon, req, cli>>

Handle(r) ==
  \/ TakeArgon(r) \/ Busy(r) \/ Verified(r) \/ Unauthorized(r)
  \/ KeyOK(r) \/ KeyRefused(r) \/ Sign(r)

ManagePasswords(o) ==
  AddReads(o) \/ AddWrites(o) \/ RemoveReads(o) \/ RemoveWrites(o) \/ CliFails(o)

EnrNext ==
  \/ \E r \in Requests : Admit(r) \/ Refuse(r) \/ Handle(r)
  \/ \E o \in Operators : ManagePasswords(o)
  \/ Signal \/ HupReads \/ HupFails \/ HupApplies
  \/ Revoke \/ Tick

EnrSpec == EnrInit /\ [][EnrNext]_enrVars

-----------------------------------------------------------------------------
(* Properties.                                                                  *)

\* The argon slots in use are exactly the requests between taking one and their
\* answer, whichever answer it is, and never more than there are; left to itself,
\* enrolment takes no more than half the memory that was there at the start, or
\* what one verification needs (enrolSlots).
ArgonConserved ==
  /\ argon = Cardinality({r \in Requests : req[r].at \in {"verify", "key", "sign"}})
  /\ argon <= ArgonSlots
  /\ Explicit = 0 /\ Avail # 0 => argon <= 1 \/ argon * 64 <= Avail \div 2

\* No more than Burst requests of an address reach the password check in one
\* window, whatever their timing to its edge and to the sweeps.
AttemptsBounded == \A a \in Addrs : Len(Recent(admitted[a], now)) <= Burst

\* A password whose removal was on disk when a reload read the file buys no
\* certificate for a request that comes to its check after that reload, among
\* reloads that fail, signals that coincide and a set loaded once per request.
WithdrawnStopsWorking ==
  \A r \in Requests : req[r].at \in {"key", "sign"} => req[r].secret \notin req[r].late
=============================================================================
