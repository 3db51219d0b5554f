---------------------------- MODULE EnrollProofs ----------------------------
(* Proofs about enrolment: the argon slots, for any number of requests and any  *)
(* memory, and what becomes of a password that was removed, for any number of   *)
(* passwords, reloads and requests; and the limiter in front of it, for any     *)
(* burst, any window and any number of addresses.                               *)
EXTENDS Enroll, LimiterProofs, FiniteSetTheorems, TLAPS

Request == [at : {"slot", "verify", "key", "sign"}, key : Keys,
            secret : Secrets, set : SUBSET Password, late : SUBSET Secrets]

Adding == [at : {"add"}, read : SUBSET Password, new : Password]

Removing == [at : {"remove"}, read : SUBSET Password, label : Labels]

Hup == [pending : BOOLEAN, loaded : BOOLEAN, read : SUBSET Password,
        gone : SUBSET Secrets]

\* EnrTypeOK without the limiter's times.
EnrTypes ==
  /\ now \in 0..MaxClock
  /\ file \subseteq Password /\ passwords \subseteq Password
  /\ argon \in Int
  /\ req \in [Requests -> {Idle} \cup Request]
  /\ cli \in [Operators -> {Idle} \cup Adding \cup Removing]
  /\ hup \in Hup
  /\ fresh \subseteq Secrets /\ withdrawn \subseteq Secrets /\ gone \subseteq Secrets

Hashing == {r \in Requests : req[r].at \in {"verify", "key", "sign"}}

Slots == argon = Cardinality(Hashing) /\ argon <= ArgonSlots

EnrInv == EnrTypes /\ Slots

-----------------------------------------------------------------------------
(* enrolSlots.                                                                  *)

LEMMA Halving ==
  ASSUME NEW avail \in Nat
  PROVE  /\ (avail \div 2) \in Nat
         /\ (avail \div 2) \div 64 \in Nat
         /\ ((avail \div 2) \div 64) * 64 <= avail \div 2
OBVIOUS

\* There is always at least one slot; left to itself, the proxy takes no more
\* than fit in half the memory, unless not even one does.
LEMMA EnrolSlotsFit ==
  /\ ArgonSlots \in Nat \ {0}
  /\ Explicit = 0 /\ Avail # 0 => ArgonSlots = 1 \/ ArgonSlots * 64 <= Avail \div 2
<1> DEFINE n == (Avail \div 2) \div 64
<1>1. /\ (Avail \div 2) \in Nat /\ n \in Nat /\ n * 64 <= Avail \div 2
      /\ Explicit \in Nat /\ Avail \in Nat
  BY Halving, EnrollAssumption
<1>2. ArgonSlots = IF Explicit > 0 THEN Explicit
                   ELSE IF Avail = 0 THEN 4
                   ELSE IF n < 1 THEN 1 ELSE IF n > 4 THEN 4 ELSE n
  BY DEF ArgonSlots, enrolSlots
<1> HIDE DEF n
<1> QED
  BY <1>1, <1>2

-----------------------------------------------------------------------------
(* The requests.                                                                *)

LEMMA HashingFinite == IsFiniteSet(Hashing) /\ Cardinality(Hashing) \in Nat
<1>1. Hashing \in SUBSET Requests
  BY DEF Hashing
<1>2. IsFiniteSet(Hashing)
  BY <1>1, EnrollAssumption, FS_Subset
<1> QED
  BY <1>2, FS_CardinalityType

LEMMA RequestFields ==
  ASSUME EnrTypes, NEW r \in Requests, req[r].at # "idle"
  PROVE  req[r] \in Request
BY DEF EnrTypes, Idle

LEMMA EnrInvInit == EnrInit => EnrInv
<1> SUFFICES ASSUME EnrInit PROVE EnrInv
  OBVIOUS
<1>1. EnrTypes
  BY EnrollAssumption DEF EnrInit, EnrTypes, Hup
<1>2. Hashing = {}
  BY DEF EnrInit, Hashing, Idle
<1>3. Cardinality(Hashing) = 0
  BY <1>2, FS_EmptySet
<1>4. Slots
  BY <1>3, EnrolSlotsFit DEF EnrInit, Slots
<1> QED
  BY <1>1, <1>4 DEF EnrInv

\* A request's own step that leaves the slots alone: it had none, or keeps its.
LEMMA SameSlots ==
  ASSUME EnrInv, NEW r \in Requests, NEW x \in {Idle} \cup Request,
         req' = [req EXCEPT ![r] = x], UNCHANGED argon,
         req[r].at \in {"verify", "key", "sign"} <=> x.at \in {"verify", "key", "sign"}
  PROVE  Slots'
<1>1. Hashing' = Hashing
  BY DEF EnrInv, EnrTypes, Hashing
<1> QED
  BY <1>1 DEF EnrInv, Slots

LEMMA AnswerGivesBack ==
  ASSUME EnrInv, NEW r \in Requests, req[r].at \in {"verify", "key", "sign"}, Answer(r)
  PROVE  Slots' /\ argon' \in Int /\ req' \in [Requests -> {Idle} \cup Request]
<1> USE DEF EnrInv
<1>1. Hashing' = Hashing \ {r}
  BY DEF EnrTypes, Hashing, Answer, Idle
<1>2. r \in Hashing
  BY DEF Hashing
<1>3. Cardinality(Hashing \ {r}) = Cardinality(Hashing) - 1
  BY <1>2, HashingFinite, FS_RemoveElement
<1>4. argon' = Cardinality(Hashing') /\ argon' <= ArgonSlots /\ argon' \in Int
  BY <1>1, <1>3, HashingFinite, EnrolSlotsFit DEF Answer, Slots, EnrTypes
<1> QED
  BY <1>4 DEF Slots, Answer, EnrTypes

LEMMA TakeArgonTakes ==
  ASSUME EnrInv, NEW r \in Requests, TakeArgon(r)
  PROVE  EnrInv'
<1> USE DEF EnrInv
<1>1. req[r] \in Request
  BY RequestFields DEF TakeArgon
<1> DEFINE x == [req[r] EXCEPT !.at = "verify", !.set = passwords, !.late = gone]
<1>2. x \in Request /\ x.at = "verify"
  BY <1>1 DEF Request, EnrTypes
<1>3. req' = [req EXCEPT ![r] = x]
  BY DEF TakeArgon, EnrTypes
<1> HIDE DEF x
<1>4. EnrTypes'
  <2>1. UNCHANGED <<now, files, memory, cli>> /\ argon' = argon + 1
    BY DEF TakeArgon
  <2> QED
    BY <1>2, <1>3, <2>1 DEF EnrTypes, files, memory
<1>5. Hashing' = Hashing \cup {r} /\ r \notin Hashing
  <2>1. req'[r] = x /\ \A q \in Requests : q # r => req'[q] = req[q]
    BY <1>3 DEF EnrTypes
  <2>2. req[r].at = "slot"
    BY DEF TakeArgon
  <2> QED
    BY <1>2, <2>1, <2>2 DEF Hashing
<1>6. Cardinality(Hashing \cup {r}) = Cardinality(Hashing) + 1
  BY <1>5, HashingFinite, FS_AddElement
<1>7. Slots'
  BY <1>5, <1>6, HashingFinite, EnrolSlotsFit DEF TakeArgon, Slots, EnrTypes
<1> QED
  BY <1>4, <1>7

\* A request moves on from one check to the next.
LEMMA StepKeeps ==
  ASSUME EnrInv, NEW r \in Requests, NEW s \in {"key", "sign"},
         req[r].at \in {"verify", "key"}, Step(r, s),
         UNCHANGED <<now, files, memory, argon, cli>>
  PROVE  EnrInv'
<1> USE DEF EnrInv
<1>1. req[r] \in Request
  BY RequestFields
<1> DEFINE x == [req[r] EXCEPT !.at = s]
<1>2. x \in Request /\ x.at = s
  BY <1>1 DEF Request
<1>3. req' = [req EXCEPT ![r] = x]
  BY DEF Step, EnrTypes
<1> HIDE DEF x
<1>4. EnrTypes'
  BY <1>2, <1>3 DEF EnrTypes, files, memory
<1>5. Slots'
  BY <1>2, <1>3, SameSlots
<1> QED
  BY <1>4, <1>5

LEMMA HandleKeeps ==
  ASSUME EnrInv, NEW r \in Requests, Admit(r) \/ Refuse(r) \/ Handle(r)
  PROVE  EnrInv'
<1> USE DEF EnrInv
<1>1. CASE Admit(r)
  <2>1. ASSUME NEW k \in Keys, NEW s \in Secrets,
               req' = [req EXCEPT ![r] = [at |-> "slot", key |-> k, secret |-> s,
                                          set |-> {}, late |-> {}]]
        PROVE  EnrInv'
    <3> DEFINE x == [at |-> "slot", key |-> k, secret |-> s, set |-> {}, late |-> {}]
    <3>1. x \in Request /\ x.at = "slot" /\ req[r].at = "idle"
      BY <1>1 DEF Request, Admit, Idle
    <3>2. req' = [req EXCEPT ![r] = x]
      BY <2>1
    <3> HIDE DEF x
    <3>3. EnrTypes'
      BY <1>1, <3>1, <3>2 DEF Admit, EnrTypes, files, memory
    <3>4. Slots'
      BY <1>1, <3>1, <3>2, SameSlots DEF Admit
    <3> QED
      BY <3>3, <3>4
  <2>2. CASE UNCHANGED req
    BY <1>1, <2>2 DEF Admit, EnrTypes, Slots, Hashing, files, memory
  <2> QED
    BY <1>1, <2>1, <2>2 DEF Admit
<1>2. CASE Refuse(r)
  BY <1>2 DEF Refuse, EnrTypes, Slots, Hashing, files, memory
<1>3. CASE TakeArgon(r)
  BY <1>3, TakeArgonTakes
<1>4. CASE Busy(r)
  <2>1. EnrTypes'
    BY <1>4 DEF Busy, EnrTypes, files, memory
  <2>2. Slots'
    BY <1>4, SameSlots DEF Busy, Idle
  <2> QED
    BY <2>1, <2>2
<1>5. CASE Verified(r) \/ KeyOK(r)
  BY <1>5, StepKeeps DEF Verified, KeyOK
<1>6. CASE Unauthorized(r) \/ KeyRefused(r) \/ Sign(r)
  <2>1. /\ req[r].at \in {"verify", "key", "sign"} /\ Answer(r)
        /\ UNCHANGED <<now, files, memory, cli>>
    BY <1>6 DEF Unauthorized, KeyRefused, Sign
  <2>2. Slots' /\ argon' \in Int /\ req' \in [Requests -> {Idle} \cup Request]
    BY <2>1, AnswerGivesBack
  <2> QED
    BY <2>1, <2>2 DEF EnrTypes, files, memory
<1> QED
  BY <1>1, <1>2, <1>3, <1>4, <1>5, <1>6 DEF Handle

LEMMA CommandsKeep ==
  ASSUME EnrInv, NEW o \in Operators, ManagePasswords(o)
  PROVE  EnrInv'
<1> USE DEF EnrInv
<1>0. ASSUME UNCHANGED <<argon, req>> PROVE Slots'
  BY <1>0 DEF Slots, Hashing
<1>1. CASE AddReads(o)
  <2>1. PICK s \in fresh, n \in Labels, life \in {0, Validity} :
          /\ fresh' = fresh \ {s}
          /\ cli' = [cli EXCEPT ![o] =
               [at |-> "add", read |-> file,
                new |-> [name |-> n, secret |-> s,
                         expires |-> IF life = 0 THEN 0 ELSE now + life]]]
    BY <1>1 DEF AddReads
  <2> DEFINE e == IF life = 0 THEN 0 ELSE now + life
  <2> DEFINE p == [name |-> n, secret |-> s, expires |-> e]
  <2>2. e \in 0..(MaxClock + Validity)
    BY EnrollAssumption DEF EnrTypes
  <2>3. p \in Password
    BY <2>1, <2>2 DEF Password, EnrTypes
  <2>4. [at |-> "add", read |-> file, new |-> p] \in Adding
    BY <2>3 DEF Adding, EnrTypes
  <2>5. EnrTypes'
    BY <1>1, <2>1, <2>4 DEF AddReads, EnrTypes, memory
  <2> QED
    BY <1>0, <1>1, <2>5 DEF AddReads
<1>2. CASE AddWrites(o)
  <2>1. cli[o] \in Adding
    BY <1>2 DEF AddWrites, EnrTypes, Idle, Removing
  <2>2. file' \subseteq Password
    BY <1>2, <2>1 DEF AddWrites, Adding
  <2>3. EnrTypes'
    BY <1>2, <2>2 DEF AddWrites, EnrTypes, memory
  <2> QED
    BY <1>0, <1>2, <2>3 DEF AddWrites
<1>3. CASE RemoveReads(o)
  <2>1. PICK p \in file :
          cli' = [cli EXCEPT ![o] = [at |-> "remove", read |-> file, label |-> p.name]]
    BY <1>3 DEF RemoveReads
  <2>2. [at |-> "remove", read |-> file, label |-> p.name] \in Removing
    BY DEF Removing, EnrTypes, Password
  <2>3. EnrTypes'
    BY <1>3, <2>1, <2>2 DEF RemoveReads, EnrTypes, files, memory
  <2> QED
    BY <1>0, <1>3, <2>3 DEF RemoveReads
<1>4. CASE RemoveWrites(o)
  <2>1. cli[o] \in Removing
    BY <1>4 DEF RemoveWrites, EnrTypes, Idle, Adding
  <2>2. file' \subseteq Password /\ withdrawn' \subseteq Secrets
    BY <1>4, <2>1 DEF RemoveWrites, Removing, Password, EnrTypes
  <2>3. EnrTypes'
    BY <1>4, <2>2 DEF RemoveWrites, EnrTypes, memory
  <2> QED
    BY <1>0, <1>4, <2>3 DEF RemoveWrites
<1>5. CASE CliFails(o)
  BY <1>0, <1>5 DEF CliFails, EnrTypes, files, memory
<1> QED
  BY <1>1, <1>2, <1>3, <1>4, <1>5 DEF ManagePasswords

LEMMA EnrInvNext == EnrInv /\ [EnrNext]_enrVars => EnrInv'
<1> SUFFICES ASSUME EnrInv, [EnrNext]_enrVars PROVE EnrInv'
  OBVIOUS
<1> USE DEF EnrInv
<1>0. ASSUME UNCHANGED <<argon, req>> PROVE Slots'
  BY <1>0 DEF Slots, Hashing
<1>1. ASSUME NEW r \in Requests, Admit(r) \/ Refuse(r) \/ Handle(r)
      PROVE  EnrInv'
  BY <1>1, HandleKeeps
<1>2. ASSUME NEW o \in Operators, ManagePasswords(o)
      PROVE  EnrInv'
  BY <1>2, CommandsKeep
<1>3. CASE Signal \/ HupReads \/ HupFails \/ HupApplies
  <2>1. hup' \in Hup /\ passwords' \subseteq Password /\ gone' \subseteq Secrets
    <3>1. CASE Signal \/ HupFails
      BY <1>3, <3>1 DEF Signal, HupFails, EnrTypes, Hup
    <3>2. CASE HupReads
      BY <1>3, <3>2 DEF HupReads, EnrTypes, Hup
    <3>3. CASE HupApplies
      BY <1>3, <3>3 DEF HupApplies, EnrTypes, Hup
    <3> QED
      BY <1>3, <3>1, <3>2, <3>3
  <2>2. UNCHANGED <<now, files, argon, req, cli>>
    BY <1>3 DEF Signal, HupReads, HupFails, HupApplies
  <2> QED
    BY <1>0, <2>1, <2>2 DEF EnrTypes, files
<1>4. CASE Revoke
  BY <1>0, <1>4 DEF Revoke, EnrTypes, files, memory
<1>5. CASE Tick
  BY <1>0, <1>5, EnrollAssumption DEF Tick, EnrTypes, files, memory
<1>6. CASE UNCHANGED enrVars
  BY <1>0, <1>6 DEF enrVars, EnrTypes, files, memory
<1> QED
  BY <1>1, <1>2, <1>3, <1>4, <1>5, <1>6 DEF EnrNext

\* handle always leaves argon slots and the requests that hold one in step.
THEOREM EnrInvariance == EnrSpec => []EnrInv
BY EnrInvInit, EnrInvNext, PTL DEF EnrSpec

\* However a verification is answered, its argon slot is given back exactly once,
\* and enrolment left to itself never takes more than half of the memory there
\* was, or one verification's (enroller.handle, enrolSlots).
THEOREM ArgonIsConserved == EnrSpec => []ArgonConserved
<1>1. EnrInv => ArgonConserved
  <2> SUFFICES ASSUME EnrInv PROVE ArgonConserved
    OBVIOUS
  <2>1. argon \in Int /\ argon = Cardinality(Hashing) /\ argon <= ArgonSlots
    BY DEF EnrInv, EnrTypes, Slots
  <2>2. Explicit = 0 /\ Avail # 0 => argon <= 1 \/ argon * 64 <= Avail \div 2
    BY <2>1, EnrolSlotsFit, Halving, EnrollAssumption
  <2> QED
    BY <2>1, <2>2 DEF ArgonConserved, Hashing
<1> QED
  BY <1>1, EnrInvariance, PTL

-----------------------------------------------------------------------------
(* A removed password, when operators run one command after the other.          *)

Apart(S, W) == \A p \in S : p.secret \notin W

\* A secret is in one place: still to be used, being added, in the file, or
\* withdrawn.
FileSound ==
  /\ Apart(file, withdrawn) /\ Apart(file, fresh)
  /\ withdrawn \cap fresh = {}
  /\ \A p, q \in file : p.secret = q.secret => p = q

\* The one command there is has read the file as it is.
CommandSound ==
  \A o \in Operators :
    /\ cli[o] # Idle => cli[o].read = file
    /\ cli[o].at = "add" => /\ cli[o].new.secret \notin fresh \cup withdrawn
                            /\ \A p \in file : p.secret # cli[o].new.secret

\* Every copy of the file lacks what had been withdrawn when it was made.
CopiesSound == Apart(passwords, gone) /\ Apart(hup.read, hup.gone)

RequestSound(x) ==
  x # Idle => /\ Apart(x.set, x.late)
              /\ x.at \in {"key", "sign"} => x.secret \notin x.late

RequestsSound == \A r \in Requests : RequestSound(req[r])

WithdrawalInv == FileSound /\ CommandSound /\ CopiesSound /\ RequestsSound

LEMMA WithdrawalInit == EnrInit => WithdrawalInv
BY DEF EnrInit, WithdrawalInv, FileSound, CommandSound, CopiesSound, RequestsSound,
       RequestSound, Apart, Idle

LEMMA OneRequest ==
  ASSUME EnrInv, RequestsSound, NEW r \in Requests, NEW x, RequestSound(x),
         req' = [req EXCEPT ![r] = x]
  PROVE  RequestsSound'
BY DEF EnrInv, EnrTypes, RequestsSound

LEMMA RequestStepsSound ==
  ASSUME EnrInv, WithdrawalInv, NEW r \in Requests, Admit(r) \/ Refuse(r) \/ Handle(r)
  PROVE  RequestsSound'
<1> USE DEF EnrInv, WithdrawalInv
<1>0. RequestSound(req[r]) /\ RequestSound(Idle)
  BY DEF RequestsSound, RequestSound
<1>1. CASE Admit(r)
  <2>1. ASSUME NEW k \in Keys, NEW s \in Secrets,
               req' = [req EXCEPT ![r] = [at |-> "slot", key |-> k, secret |-> s,
                                          set |-> {}, late |-> {}]]
        PROVE  RequestsSound'
    <3>1. RequestSound([at |-> "slot", key |-> k, secret |-> s, set |-> {}, late |-> {}])
      BY DEF RequestSound, Apart
    <3> QED
      BY <2>1, <3>1, OneRequest
  <2>2. CASE UNCHANGED req
    BY <2>2 DEF RequestsSound
  <2> QED
    BY <1>1, <2>1, <2>2 DEF Admit
<1>2. CASE Refuse(r)
  BY <1>2 DEF Refuse, RequestsSound
<1>3. CASE TakeArgon(r)
  <2>1. req[r] \in Request
    BY <1>3, RequestFields DEF TakeArgon
  <2> DEFINE x == [req[r] EXCEPT !.at = "verify", !.set = passwords, !.late = gone]
  <2>2. x.at = "verify" /\ x.set = passwords /\ x.late = gone
    BY <2>1 DEF Request
  <2>3. req' = [req EXCEPT ![r] = x]
    BY <1>3 DEF TakeArgon, EnrTypes
  <2> HIDE DEF x
  <2>4. RequestSound(x)
    BY <2>2 DEF RequestSound, CopiesSound
  <2> QED
    BY <2>3, <2>4, OneRequest
<1>4. CASE Busy(r) \/ Unauthorized(r) \/ KeyRefused(r) \/ Sign(r)
  <2>1. req' = [req EXCEPT ![r] = Idle]
    BY <1>4 DEF Busy, Unauthorized, KeyRefused, Sign, Answer
  <2> QED
    BY <1>0, <2>1, OneRequest
<1>5. ASSUME NEW s \in {"key", "sign"}, Step(r, s), req[r].at # "idle",
             req[r].secret \notin req[r].late
      PROVE  RequestsSound'
  <2>1. req[r] \in Request
    BY <1>5, RequestFields
  <2> DEFINE x == [req[r] EXCEPT !.at = s]
  <2>2. /\ x.at = s /\ x.set = req[r].set /\ x.late = req[r].late
        /\ x.secret = req[r].secret
    BY <2>1 DEF Request
  <2>3. req' = [req EXCEPT ![r] = x]
    BY <1>5 DEF Step, EnrTypes
  <2> HIDE DEF x
  <2>4. Apart(req[r].set, req[r].late)
    BY <1>0, <1>5 DEF RequestSound, Idle
  <2>5. RequestSound(x)
    BY <1>5, <2>2, <2>4 DEF RequestSound
  <2> QED
    BY <2>3, <2>5, OneRequest
<1>6. CASE Verified(r)
  <2>1. req[r].secret \notin req[r].late
    BY <1>0, <1>6 DEF Verified, Matches, RequestSound, Apart, Idle
  <2> QED
    BY <1>5, <1>6, <2>1 DEF Verified
<1>7. CASE KeyOK(r)
  <2>1. req[r].secret \notin req[r].late
    BY <1>0, <1>7 DEF KeyOK, RequestSound, Idle
  <2> QED
    BY <1>5, <1>7, <2>1 DEF KeyOK
<1> QED
  BY <1>1, <1>2, <1>3, <1>4, <1>6, <1>7 DEF Handle

LEMMA CommandStepsSound ==
  ASSUME \A o, q \in Operators : o = q,
         EnrInv, WithdrawalInv, NEW o \in Operators, ManagePasswords(o)
  PROVE  FileSound' /\ CommandSound'
<1> USE DEF EnrInv, WithdrawalInv
<1>0. /\ cli \in [Operators -> {Idle} \cup Adding \cup Removing]
      /\ \A q \in Operators : q = o
  BY DEF EnrTypes
<1>1. CASE AddReads(o)
  <2>1. PICK s \in fresh, n \in Labels, life \in {0, Validity} :
          /\ fresh' = fresh \ {s}
          /\ cli' = [cli EXCEPT ![o] =
               [at |-> "add", read |-> file,
                new |-> [name |-> n, secret |-> s,
                         expires |-> IF life = 0 THEN 0 ELSE now + life]]]
    BY <1>1 DEF AddReads
  <2>2. UNCHANGED <<file, withdrawn>>
    BY <1>1 DEF AddReads
  <2>3. FileSound'
    BY <2>1, <2>2 DEF FileSound, Apart
  <2>4. cli'[o].read = file /\ cli'[o].new.secret = s
    BY <1>0, <2>1
  <2>5. s \notin fresh' \cup withdrawn /\ \A p \in file : p.secret # s
    BY <2>1 DEF FileSound, Apart
  <2> QED
    BY <1>0, <2>2, <2>3, <2>4, <2>5 DEF CommandSound
<1>2. CASE AddWrites(o)
  <2>1. /\ cli[o].read = file /\ cli[o].new.secret \notin fresh \cup withdrawn
        /\ \A p \in file : p.secret # cli[o].new.secret
    BY <1>2 DEF AddWrites, CommandSound, Idle
  <2>2. file' = file \cup {cli[o].new} /\ UNCHANGED <<fresh, withdrawn>>
    BY <1>2, <2>1 DEF AddWrites
  <2>3. FileSound'
    BY <2>1, <2>2 DEF FileSound, Apart
  <2>4. \A q \in Operators : cli'[q] = Idle
    BY <1>0, <1>2 DEF AddWrites
  <2> QED
    BY <2>3, <2>4 DEF CommandSound, Idle
<1>3. CASE RemoveReads(o)
  <2>1. cli'[o].read = file /\ cli'[o].at = "remove" /\ UNCHANGED <<file, fresh, withdrawn>>
    BY <1>0, <1>3 DEF RemoveReads, files
  <2> QED
    BY <1>0, <2>1 DEF FileSound, CommandSound
<1>4. CASE RemoveWrites(o)
  <2> DEFINE cut == {p \in file : p.name = cli[o].label}
  <2>1. cli[o].read = file
    BY <1>4 DEF RemoveWrites, CommandSound, Idle
  <2>2. /\ file' = file \ cut
        /\ withdrawn' = withdrawn \cup {p.secret : p \in cut}
        /\ UNCHANGED fresh
    BY <1>4, <2>1 DEF RemoveWrites
  <2>3. FileSound'
    BY <2>2 DEF FileSound, Apart
  <2>4. \A q \in Operators : cli'[q] = Idle
    BY <1>0, <1>4 DEF RemoveWrites
  <2> QED
    BY <2>3, <2>4 DEF CommandSound, Idle
<1>5. CASE CliFails(o)
  <2>1. \A q \in Operators : cli'[q] = Idle
    BY <1>0, <1>5 DEF CliFails
  <2> QED
    BY <1>5, <2>1 DEF CliFails, files, FileSound, CommandSound, Idle
<1> QED
  BY <1>1, <1>2, <1>3, <1>4, <1>5 DEF ManagePasswords

LEMMA ReloadSound ==
  ASSUME EnrInv, WithdrawalInv, Signal \/ HupReads \/ HupFails \/ HupApplies
  PROVE  CopiesSound'
<1> USE DEF EnrInv, WithdrawalInv, EnrTypes
<1>1. CASE Signal \/ HupFails
  <2>1. hup'.read = hup.read /\ hup'.gone = hup.gone /\ UNCHANGED <<passwords, gone>>
    BY <1>1 DEF Signal, HupFails, Hup
  <2> QED
    BY <2>1 DEF CopiesSound, Apart
<1>2. CASE HupReads
  BY <1>2 DEF HupReads, CopiesSound, FileSound, Apart
<1>3. CASE HupApplies
  <2>1. passwords' = hup.read /\ gone' = hup.gone /\ hup'.read = {}
    BY <1>3 DEF HupApplies, Hup
  <2> QED
    BY <2>1 DEF CopiesSound, Apart
<1> QED
  BY <1>1, <1>2, <1>3

LEMMA WithdrawalNext ==
  ASSUME \A o, q \in Operators : o = q
  PROVE  EnrInv /\ WithdrawalInv /\ [EnrNext]_enrVars => WithdrawalInv'
<1> SUFFICES ASSUME EnrInv, WithdrawalInv, [EnrNext]_enrVars PROVE WithdrawalInv'
  OBVIOUS
<1>1. ASSUME UNCHANGED <<files, cli>> PROVE FileSound' /\ CommandSound'
  BY <1>1 DEF files, WithdrawalInv, FileSound, CommandSound
<1>2. ASSUME UNCHANGED memory PROVE CopiesSound'
  BY <1>2 DEF memory, WithdrawalInv, CopiesSound
<1>3. ASSUME UNCHANGED req PROVE RequestsSound'
  BY <1>3 DEF WithdrawalInv, RequestsSound
<1>4. ASSUME NEW r \in Requests, Admit(r) \/ Refuse(r) \/ Handle(r)
      PROVE  WithdrawalInv'
  <2>1. UNCHANGED <<files, memory, cli>>
    BY <1>4 DEF Admit, Refuse, Handle, TakeArgon, Busy, Verified, Unauthorized, KeyOK,
                KeyRefused, Sign
  <2>2. RequestsSound'
    BY <1>4, RequestStepsSound
  <2> QED
    BY <1>1, <1>2, <2>1, <2>2 DEF WithdrawalInv
<1>5. ASSUME NEW o \in Operators, ManagePasswords(o)
      PROVE  WithdrawalInv'
  <2>1. UNCHANGED <<memory, req>>
    BY <1>5 DEF ManagePasswords, AddReads, AddWrites, RemoveReads, RemoveWrites, CliFails
  <2>2. FileSound' /\ CommandSound'
    BY <1>5, CommandStepsSound
  <2> QED
    BY <1>2, <1>3, <2>1, <2>2 DEF WithdrawalInv
<1>6. CASE Signal \/ HupReads \/ HupFails \/ HupApplies
  <2>1. UNCHANGED <<files, cli, req>>
    BY <1>6 DEF Signal, HupReads, HupFails, HupApplies
  <2>2. CopiesSound'
    BY <1>6, ReloadSound
  <2> QED
    BY <1>1, <1>3, <2>1, <2>2 DEF WithdrawalInv
<1>7. CASE Revoke \/ Tick \/ UNCHANGED enrVars
  <2>1. UNCHANGED <<files, memory, cli, req>>
    BY <1>7 DEF Revoke, Tick, enrVars
  <2> QED
    BY <1>1, <1>2, <1>3, <2>1 DEF WithdrawalInv
<1> QED
  BY <1>4, <1>5, <1>6, <1>7 DEF EnrNext

\* While operators run one command after the other, a password that was gone from
\* the file when a reload read it buys no certificate for any request that comes
\* to its check after that reload, among any number of failed reloads, signals
\* that coincide, and requests in flight (e.passwords is loaded once per request).
THEOREM WithdrawnBuysNothing ==
  ASSUME \A o, q \in Operators : o = q
  PROVE  EnrSpec => []WithdrawnStopsWorking
<1>1. EnrInv /\ WithdrawalInv => WithdrawnStopsWorking
  BY DEF WithdrawalInv, RequestsSound, RequestSound, WithdrawnStopsWorking, Idle
<1> QED
  BY <1>1, EnrInvariance, WithdrawalInit, WithdrawalNext, PTL DEF EnrSpec

-----------------------------------------------------------------------------
(* The limiter.                                                                 *)

\* Whatever was swept or pruned of an address's events, what is recent of them,
\* now or at any later time, is what is recent of the requests it let through,
\* and the burst bounds it.
CountedExactly(a) ==
  /\ \A t \in Int : now <= t => Recent(limit.seen[a], t) = Recent(admitted[a], t)
  /\ Len(Recent(limit.seen[a], now)) <= Burst

LimitTypes ==
  /\ now \in Int
  /\ IsLimiter(limit)
  /\ admitted \in [Addrs -> Seq(Int)]

LimitInv == LimitTypes /\ \A a \in Addrs : CountedExactly(a)

LEMMA LimitInit == EnrInit => LimitInv
<1> SUFFICES ASSUME EnrInit PROVE LimitInv
  OBVIOUS
<1>1. /\ now = 0 /\ limit = newLimiter /\ admitted = [a \in Addrs |-> <<>>]
  BY DEF EnrInit
<1>2. <<>> \in Seq(Int) /\ Len(<<>>) = 0
  BY EmptySeq, Zenon
<1>3. LimitTypes
  BY <1>1, <1>2, NewLimiter DEF LimitTypes
<1>4. ASSUME NEW a \in Addrs PROVE CountedExactly(a)
  <2>1. limit.seen[a] = <<>> /\ admitted[a] = <<>>
    BY <1>1, NewLimiter
  <2> QED
    BY <1>1, <1>2, <2>1, RecentEmpty, LimiterAssumption DEF CountedExactly
<1> QED
  BY <1>3, <1>4 DEF LimitInv

\* A request let through is one event more in both; ...
LEMMA AdmitCounts ==
  ASSUME LimitInv, NEW a \in Addrs, now' = now,
         allow(limit, a, now).ok, limit' = allow(limit, a, now).lim,
         admitted' = [admitted EXCEPT ![a] = Append(@, now)]
  PROVE  LimitInv'
<1>0. LimitTypes
  BY DEF LimitInv
<1>1. /\ IsLimiter(limit')
      /\ count(limit, a, now) < Burst
      /\ \A b \in Addrs, t \in Int : now <= t =>
           Recent(limit'.seen[b], t) =
             IF b = a /\ now > t - Window THEN Append(Recent(limit.seen[b], t), now)
             ELSE Recent(limit.seen[b], t)
  <2>1. IsLimiter(limit) /\ now \in Int
    BY <1>0 DEF LimitTypes
  <2>2. allow(limit, a, now).ok = (count(limit, a, now) < Burst)
    BY <2>1, AllowVerdict
  <2>3. count(limit, a, now) < Burst
    BY <2>2
  <2> QED
    BY <2>1, <2>3, AllowCountsExactly
<1>2. /\ admitted'[a] = Append(admitted[a], now)
      /\ \A b \in Addrs : b # a => admitted'[b] = admitted[b]
      /\ \A b \in Addrs : admitted[b] \in Seq(Int) /\ limit.seen[b] \in Seq(Int)
  BY <1>0 DEF LimitTypes, IsLimiter
<1>3. Append(admitted[a], now) \in Seq(Int)
  BY <1>0, <1>2, AppendProperties DEF LimitTypes
<1>4. LimitTypes'
  BY <1>0, <1>1, <1>3 DEF LimitTypes
<1>5. ASSUME NEW b \in Addrs PROVE CountedExactly(b)'
  <2>0. CountedExactly(b)
    BY DEF LimitInv
  <2>1. ASSUME NEW t \in Int, now' <= t
        PROVE  Recent(limit'.seen[b], t) = Recent(admitted'[b], t)
    <3>1. Recent(limit.seen[b], t) = Recent(admitted[b], t)
      BY <2>0, <2>1 DEF CountedExactly
    <3>2. CASE b = a
      <4>1. Recent(admitted'[b], t) =
              IF now > t - Window THEN Append(Recent(admitted[b], t), now)
              ELSE Recent(admitted[b], t)
        BY <3>2, <1>0, <1>2, RecentAppend DEF LimitTypes
      <4> QED
        BY <2>1, <3>1, <3>2, <4>1, <1>1
    <3>3. CASE b # a
      BY <2>1, <3>1, <3>3, <1>1, <1>2
    <3> QED
      BY <3>2, <3>3
  <2>2. Len(Recent(limit'.seen[b], now')) <= Burst
    <3>1. now \in Int /\ now <= now /\ now > now - Window
      BY <1>0, LimiterAssumption DEF LimitTypes
    <3>2. Recent(limit'.seen[b], now) = IF b = a THEN Append(Recent(limit.seen[b], now), now)
                                        ELSE Recent(limit.seen[b], now)
      BY <1>1, <3>1
    <3>3. /\ Len(Recent(limit.seen[b], now)) \in Nat
          /\ Len(Append(Recent(limit.seen[b], now), now)) = Len(Recent(limit.seen[b], now)) + 1
      BY <1>2, <3>1, RecentType, AppendProperties
    <3>4. b = a => Len(Recent(limit.seen[b], now)) < Burst
      BY <1>1 DEF count
    <3>5. Len(Recent(limit.seen[b], now)) <= Burst
      BY <2>0 DEF CountedExactly
    <3> QED
      BY <3>2, <3>3, <3>4, <3>5, LimiterAssumption
  <2> QED
    BY <2>1, <2>2 DEF CountedExactly
<1> QED
  BY <1>4, <1>5 DEF LimitInv

\* ... one that is refused leaves what is recent as it was; ...
LEMMA RefuseCounts ==
  ASSUME LimitInv, NEW a \in Addrs, UNCHANGED <<now, admitted>>,
         ~allow(limit, a, now).ok, limit' = allow(limit, a, now).lim
  PROVE  LimitInv'
<1>0. LimitTypes
  BY DEF LimitInv
<1>1. /\ IsLimiter(limit')
      /\ \A b \in Addrs, t \in Int : now <= t =>
           Recent(limit'.seen[b], t) = Recent(limit.seen[b], t)
  <2>1. IsLimiter(limit) /\ now \in Int
    BY <1>0 DEF LimitTypes
  <2>2. allow(limit, a, now).ok = (count(limit, a, now) < Burst)
    BY <2>1, AllowVerdict
  <2>3. ~(count(limit, a, now) < Burst)
    BY <2>2
  <2> QED
    BY <2>1, <2>3, AllowCountsExactly
<1>2. now \in Int /\ now <= now
  BY <1>0 DEF LimitTypes
<1> QED
  BY <1>0, <1>1, <1>2 DEF LimitInv, LimitTypes, CountedExactly

\* ... and as time passes, counts only fall.
LEMMA TickCounts ==
  ASSUME LimitInv, Tick
  PROVE  LimitInv'
<1>0. LimitTypes
  BY DEF LimitInv
<1>1. /\ now' = now + 1 /\ limit' = limit /\ now' \in Int /\ now <= now'
      /\ admitted' = [a \in Addrs |-> Recent(admitted[a], now')]
  BY <1>0 DEF Tick, LimitTypes
<1>2. \A b \in Addrs : admitted[b] \in Seq(Int) /\ limit.seen[b] \in Seq(Int)
  BY <1>0 DEF LimitTypes, IsLimiter
<1>3. \A b \in Addrs : Recent(admitted[b], now') \in Seq(Int)
  BY <1>1, <1>2, RecentType
<1>4. LimitTypes'
  BY <1>0, <1>1, <1>3 DEF LimitTypes
<1>5. ASSUME NEW b \in Addrs PROVE CountedExactly(b)'
  <2>0. CountedExactly(b)
    BY DEF LimitInv
  <2>1. ASSUME NEW t \in Int, now' <= t
        PROVE  Recent(limit'.seen[b], t) = Recent(admitted'[b], t)
    <3>1. Recent(limit.seen[b], t) = Recent(admitted[b], t)
      BY <2>0, <2>1, <1>0, <1>1 DEF CountedExactly, LimitTypes
    <3>2. Recent(Recent(admitted[b], now'), t) = Recent(admitted[b], t)
      BY <2>1, <1>1, <1>2, RecentOfRecent
    <3> QED
      BY <3>1, <3>2, <1>1
  <2>2. Len(Recent(limit'.seen[b], now')) <= Burst
    <3>1. Len(Recent(limit.seen[b], now')) <= Len(Recent(limit.seen[b], now))
      BY <1>0, <1>1, <1>2, RecentShrinks DEF LimitTypes
    <3>2. Len(Recent(limit.seen[b], now')) \in Nat /\ Len(Recent(limit.seen[b], now)) \in Nat
      BY <1>0, <1>1, <1>2, RecentType DEF LimitTypes
    <3>3. Len(Recent(limit.seen[b], now)) <= Burst
      BY <2>0 DEF CountedExactly
    <3> QED
      BY <3>1, <3>2, <3>3, <1>1, LimiterAssumption
  <2> QED
    BY <2>1, <2>2 DEF CountedExactly
<1> QED
  BY <1>4, <1>5 DEF LimitInv

LEMMA LimitNext == LimitInv /\ [EnrNext]_enrVars => LimitInv'
<1> SUFFICES ASSUME LimitInv, [EnrNext]_enrVars PROVE LimitInv'
  OBVIOUS
<1>0. ASSUME UNCHANGED <<now, limit, admitted>> PROVE LimitInv'
  BY <1>0 DEF LimitInv, LimitTypes, CountedExactly
<1>1. ASSUME NEW r \in Requests, Admit(r) PROVE LimitInv'
  BY <1>1, AdmitCounts DEF Admit
<1>2. ASSUME NEW r \in Requests, Refuse(r) PROVE LimitInv'
  BY <1>2, RefuseCounts DEF Refuse
<1>3. ASSUME NEW r \in Requests, Handle(r) PROVE LimitInv'
  BY <1>0, <1>3 DEF Handle, TakeArgon, Busy, Verified, Unauthorized, KeyOK, KeyRefused, Sign
<1>4. ASSUME NEW o \in Operators, ManagePasswords(o) PROVE LimitInv'
  BY <1>0, <1>4 DEF ManagePasswords, AddReads, AddWrites, RemoveReads, RemoveWrites, CliFails
<1>5. CASE Signal \/ HupReads \/ HupFails \/ HupApplies \/ Revoke
  BY <1>0, <1>5 DEF Signal, HupReads, HupFails, HupApplies, Revoke
<1>6. CASE Tick
  BY <1>6, TickCounts
<1>7. CASE UNCHANGED enrVars
  BY <1>0, <1>7 DEF enrVars
<1> QED
  BY <1>1, <1>2, <1>3, <1>4, <1>5, <1>6, <1>7 DEF EnrNext

\* No more than Burst requests of one address reach the password check in any
\* window, however they fall to its edge, to the sweeps and to the requests that
\* were refused (limiter.allow in front of enroller.handle).
THEOREM AttemptsAreBounded == EnrSpec => []AttemptsBounded
<1>1. LimitInv => AttemptsBounded
  <2> SUFFICES ASSUME LimitInv, NEW a \in Addrs
               PROVE  Len(Recent(admitted[a], now)) <= Burst
    BY DEF AttemptsBounded
  <2>1. now \in Int /\ now <= now
    BY DEF LimitInv, LimitTypes
  <2> QED
    BY <2>1 DEF LimitInv, CountedExactly
<1> QED
  BY <1>1, LimitInit, LimitNext, PTL DEF EnrSpec

-----------------------------------------------------------------------------
(* Types.                                                                       *)

RevokedTypes == revoked \subseteq Keys

LEMMA RevokedNext == RevokedTypes /\ [EnrNext]_enrVars => RevokedTypes'
<1> SUFFICES ASSUME revoked \subseteq Keys, [EnrNext]_enrVars PROVE revoked' \subseteq Keys
  BY DEF RevokedTypes
<1>1. ASSUME NEW r \in Requests, Admit(r) \/ Refuse(r) \/ Handle(r) PROVE revoked' = revoked
  BY <1>1 DEF Admit, Refuse, Handle, TakeArgon, Busy, Verified, Unauthorized, KeyOK,
              KeyRefused, Sign
<1>2. ASSUME NEW o \in Operators, ManagePasswords(o) PROVE revoked' = revoked
  BY <1>2 DEF ManagePasswords, AddReads, AddWrites, RemoveReads, RemoveWrites, CliFails
<1>3. CASE Signal \/ HupReads \/ HupFails \/ HupApplies \/ Tick \/ UNCHANGED enrVars
  BY <1>3 DEF Signal, HupReads, HupFails, HupApplies, Tick, enrVars
<1>4. CASE Revoke
  BY <1>4 DEF Revoke
<1> QED
  BY <1>1, <1>2, <1>3, <1>4 DEF EnrNext

\* Every variable keeps to its type: in particular the argon slots in use are never
\* negative, and a set of passwords holds whole entries only.
THEOREM EnrollTypes == EnrSpec => []EnrTypeOK
<1>1. EnrInit => RevokedTypes
  BY DEF EnrInit, RevokedTypes
<1>2. EnrInv /\ LimitInv /\ RevokedTypes => EnrTypeOK
  <2> SUFFICES ASSUME EnrInv, LimitInv, RevokedTypes PROVE EnrTypeOK
    OBVIOUS
  <2>1. argon \in Nat
    <3>1. Hashing \subseteq Requests
      BY DEF Hashing
    <3>2. Cardinality(Hashing) \in Nat
      BY <3>1, EnrollAssumption, FS_Subset, FS_CardinalityType
    <3> QED
      BY <3>2 DEF EnrInv, Slots
  <2> QED
    BY <2>1 DEF EnrTypeOK, EnrInv, EnrTypes, LimitInv, LimitTypes, RevokedTypes,
               Hup, Request, Adding, Removing
<1> QED
  BY <1>1, <1>2, RevokedNext, EnrInvariance, LimitInit, LimitNext, PTL DEF EnrSpec
=============================================================================
