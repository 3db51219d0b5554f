---------------------------- MODULE AgentProofs ----------------------------
(* The agent: its types, its delays, its name and the keepalives it leaves      *)
(* behind, for all bounds and keys that AgentAssumption admits; and the updates *)
(* of the machine it runs on.                                                   *)
EXTENDS Agent, Update, SequenceTheorems, WellFoundedInduction, TLAPS

AgentInv == AgentTypeOK /\ DelayBounded /\ NameSurvives

\* The jitter adds less than half the delay.
LEMMA JitterSmall ==
  ASSUME NEW b \in Nat, b >= 2, NEW jitter \in 0..(b \div 2 - 1)
  PROVE  b + jitter \in Nat /\ 2 * (b + jitter) < 3 * b
<1>1. b \div 2 \in Int /\ 2 * (b \div 2) <= b
  OBVIOUS
<1>2. QED
  BY <1>1

\* Half as much again as something below 2m is below 3m.
LEMMA SleepBelow ==
  ASSUME NEW w \in Nat, NEW b \in Nat, NEW m \in Nat, 2 * w < 3 * b, b < 2 * m
  PROVE  w < 3 * m
OBVIOUS

\* The delay never falls below MinBackoff, so rand.Int63n has something to draw from.
DelayPositive == backoff >= MinBackoff

\* Going to sleep keeps the bounds: the delay is the one before or the shortest.
LEMMA DisconnectedInv ==
  ASSUME AgentInv, DelayPositive, pc # "off", Disconnected
  PROVE  AgentInv' /\ DelayPositive'
<1> USE AgentAssumption
<1> DEFINE b == IF age >= HealthySession THEN MinBackoff ELSE backoff
<1>1. b \in Nat /\ b >= MinBackoff /\ b >= 2 /\ b < 2 * MaxBackoff
  BY DEF AgentInv, AgentTypeOK, DelayBounded, DelayPositive
<1>2. PICK jitter \in 0..(b \div 2 - 1) : wait' = b + jitter
  BY DEF Disconnected
<1>3. backoff' = b
  BY DEF Disconnected
<1> HIDE DEF b
<1>4. wait' \in Nat /\ 2 * wait' < 3 * b
  BY <1>1, <1>2, JitterSmall
<1>5. wait' < 3 * MaxBackoff
  BY <1>1, <1>4, SleepBelow
<1>6. leftover' \in Seq(0..Keepalive) /\ keeper' = NoKeeper
  <2>1. leftover \in Seq(0..Keepalive)
    BY DEF AgentInv, AgentTypeOK
  <2>2. keeper >= 0 => keeper \in 0..Keepalive
    BY DEF AgentInv, AgentTypeOK, NoKeeper, Asking
  <2>3. keeper >= 0 => Append(leftover, keeper) \in Seq(0..Keepalive)
    BY <2>1, <2>2, AppendProperties
  <2>4. QED
    BY <2>1, <2>3 DEF Disconnected
<1>7. /\ pc' = "sleep" /\ dead' = FALSE
      /\ UNCHANGED <<age, disk, unused, lost, hostKey, canonical, reachable>>
  BY DEF Disconnected, identity
<1>8. AgentTypeOK'
  BY <1>1, <1>3, <1>4, <1>6, <1>7 DEF AgentInv, AgentTypeOK
<1>9. DelayBounded' /\ DelayPositive'
  BY <1>1, <1>3, <1>5 DEF DelayBounded, DelayPositive
<1>10. NameSurvives'
  BY <1>7 DEF AgentInv, NameSurvives
<1>11. QED
  BY <1>8, <1>9, <1>10 DEF AgentInv

\* Time takes every timer that runs one unit on.
LEMMA TickInv ==
  ASSUME AgentInv, DelayPositive, Tick
  PROVE  AgentInv' /\ DelayPositive'
<1> USE AgentAssumption
<1>0. AgentTypeOK
  BY DEF AgentInv
<1>1. leftover' \in Seq(0..Keepalive)
  <2>1. /\ Len(leftover) \in Nat /\ DOMAIN leftover = 1..Len(leftover)
        /\ \A i \in 1..Len(leftover) : leftover[i] \in 0..Keepalive
    BY <1>0 DEF AgentTypeOK
  <2>2. leftover' = [i \in 1..Len(leftover) |-> leftover[i] - 1]
    BY <2>1 DEF Tick
  <2>3. ASSUME NEW i \in 1..Len(leftover) PROVE leftover[i] - 1 \in 0..Keepalive
    <3>1. leftover[i] \in 0..Keepalive /\ leftover[i] > 0
      BY <2>1 DEF Tick
    <3>2. QED
      BY <3>1
  <2>4. QED
    BY <2>1, <2>2, <2>3, IsASeq
<1>2. wait' \in Nat /\ wait' <= wait /\ age' \in 0..HealthySession
  BY <1>0 DEF AgentTypeOK, Tick
<1>3. keeper' \in {NoKeeper, Asking} \cup 0..Keepalive
  BY <1>0 DEF AgentTypeOK, Tick, NoKeeper, Asking
<1>4. UNCHANGED <<disk, unused, lost, hostKey, canonical, pc, backoff, dead, reachable>>
  BY DEF Tick, identity
<1>5. DelayBounded' /\ DelayPositive'
  BY <1>0, <1>2, <1>4 DEF AgentInv, AgentTypeOK, DelayBounded, DelayPositive
<1>6. NameSurvives'
  BY <1>4 DEF AgentInv, NameSurvives
<1>7. AgentTypeOK'
  BY <1>0, <1>1, <1>2, <1>3, <1>4 DEF AgentTypeOK
<1>8. QED
  BY <1>5, <1>6, <1>7 DEF AgentInv

\* The initial states satisfy the invariant.
LEMMA AgentInitInv == AgentInit => AgentInv /\ DelayPositive
<1> SUFFICES ASSUME AgentInit PROVE AgentInv /\ DelayPositive
  OBVIOUS
<1>1. dead \in BOOLEAN /\ reachable \in BOOLEAN /\ leftover = <<>>
  BY Zenon DEF AgentInit
<1>2. leftover \in Seq(0..Keepalive)
  BY <1>1, EmptySeq, Zenon
<1>3. /\ backoff \in Nat /\ wait \in Nat /\ age \in 0..HealthySession
      /\ DelayBounded /\ DelayPositive
  BY AgentAssumption DEF AgentInit, DelayBounded, DelayPositive
<1>4. /\ disk \in [host : Keys \cup {None}, cert : Keys \cup {None}]
      /\ unused \subseteq Keys /\ lost \subseteq Keys /\ hostKey = None /\ canonical = None /\ pc = "off"
      /\ keeper = NoKeeper
  BY DEF AgentInit
<1>5. QED
  BY <1>1, <1>2, <1>3, <1>4, Zenon DEF AgentInv, AgentTypeOK, NameSurvives

\* The files: what a process finds there and makes.
LEMMA FilesInv ==
  ASSUME AgentInv, DelayPositive, Start \/ StartEnds \/ Enrol \/ LoseHostKey
  PROVE  AgentInv' /\ DelayPositive'
<1>0. AgentTypeOK /\ NameSurvives
  BY DEF AgentInv
<1>1. CASE Start
  <2>1. PICK k \in Keys : LoadOrCreateHostKey(k) /\ hostKey' = k /\ disk.cert = k
    BY <1>1 DEF Start
  <2>2. /\ disk' \in [host : Keys \cup {None}, cert : Keys \cup {None}]
        /\ disk'.host = k /\ disk'.cert = k
    BY <1>0, <2>1 DEF AgentTypeOK, LoadOrCreateHostKey
  <2>3. unused' \subseteq Keys
    BY <1>0, <2>1 DEF AgentTypeOK, LoadOrCreateHostKey
  <2>4. hostKey' = k /\ canonical' = k
    BY <1>1, <2>1 DEF Start
  <2>5. NameSurvives'
    BY <2>2, <2>4, AgentAssumption DEF NameSurvives
  <2>6. /\ pc' = "dial" /\ backoff' = MinBackoff /\ age' = 0
        /\ UNCHANGED <<lost, wait, dead, keeper, leftover, reachable>>
    BY <1>1 DEF Start
  <2>7. AgentTypeOK'
    BY <1>0, <2>2, <2>3, <2>4, <2>6, AgentAssumption DEF AgentTypeOK
  <2>8. DelayBounded' /\ DelayPositive'
    BY <2>6, AgentAssumption DEF AgentInv, DelayBounded, DelayPositive
  <2>9. QED
    BY <2>5, <2>7, <2>8 DEF AgentInv
<1>2. CASE StartEnds
  <2>1. PICK k \in Keys : LoadOrCreateHostKey(k)
    BY <1>2 DEF StartEnds
  <2>2. /\ disk' \in [host : Keys \cup {None}, cert : Keys \cup {None}]
        /\ disk.host # None => disk' = disk
        /\ unused' \subseteq Keys
    BY <1>0, <2>1 DEF AgentTypeOK, LoadOrCreateHostKey
  <2>3. UNCHANGED <<lost, hostKey, canonical, pc, backoff, wait, age, dead, keeper,
                    leftover, reachable>>
    BY <1>2 DEF StartEnds, session
  <2>4. disk.cert = disk'.cert
    BY <1>0, <2>1 DEF AgentTypeOK, LoadOrCreateHostKey
  <2>5. NameSurvives'
    BY <1>0, <2>2, <2>3, <2>4 DEF NameSurvives
  <2>6. AgentTypeOK'
    BY <1>0, <2>2, <2>3 DEF AgentTypeOK
  <2>7. QED
    BY <2>3, <2>5, <2>6 DEF AgentInv, DelayBounded, DelayPositive
<1>3. CASE Enrol
  <2>1. PICK k \in Keys, c \in Keys \cup {None} :
          /\ IF disk.host = None THEN k \in unused ELSE k = disk.host
          /\ c \in {k, None}
          /\ disk' = [host |-> k, cert |-> c]
          /\ unused' = unused \ {k}
    BY <1>3 DEF Enrol
  <2>2. /\ disk' \in [host : Keys \cup {None}, cert : Keys \cup {None}]
        /\ disk'.host = k /\ disk'.cert \in {k, None}
        /\ unused' \subseteq Keys
    BY <1>0, <2>1 DEF AgentTypeOK
  <2>3. UNCHANGED <<lost, hostKey, canonical, pc, backoff, wait, age, dead, keeper,
                    leftover, reachable>>
    BY <1>3 DEF Enrol, session
  <2>4. NameSurvives'
    BY <1>0, <2>1, <2>2, <2>3 DEF NameSurvives
  <2>5. AgentTypeOK'
    BY <1>0, <2>2, <2>3 DEF AgentTypeOK
  <2>6. QED
    BY <2>3, <2>4, <2>5 DEF AgentInv, DelayBounded, DelayPositive
<1>4. CASE LoseHostKey
  <2>1. /\ disk' \in [host : Keys \cup {None}, cert : Keys \cup {None}]
        /\ lost' = lost \cup {disk.host} /\ lost' \subseteq Keys
    BY <1>0, <1>4 DEF LoseHostKey, AgentTypeOK
  <2>2. UNCHANGED <<unused, hostKey, canonical, pc, backoff, wait, age, dead, keeper,
                    leftover, reachable>>
    BY <1>4 DEF LoseHostKey, session
  <2>3. NameSurvives'
    BY <1>0, <2>1, <2>2 DEF NameSurvives
  <2>4. AgentTypeOK'
    BY <1>0, <2>1, <2>2 DEF AgentTypeOK
  <2>5. QED
    BY <2>2, <2>3, <2>4 DEF AgentInv, DelayBounded, DelayPositive
<1>5. QED
  BY <1>1, <1>2, <1>3, <1>4

\* Every step keeps it.
LEMMA AgentNextInv ==
  AgentInv /\ DelayPositive /\ [AgentNext]_agentVars => AgentInv' /\ DelayPositive'
<1> SUFFICES ASSUME AgentInv, DelayPositive, [AgentNext]_agentVars
             PROVE  AgentInv' /\ DelayPositive'
  OBVIOUS
<1> USE AgentAssumption
    DEF AgentInv, AgentTypeOK, DelayBounded, NameSurvives, DelayPositive,
        identity, session
<1>1. CASE Start \/ StartEnds \/ Enrol \/ LoseHostKey
  BY <1>1, FilesInv
<1>5. CASE Stop
  <2>1. leftover' = <<>> /\ dead' = FALSE /\ keeper' = NoKeeper
    BY <1>5, Zenon DEF Stop
  <2>2. leftover' \in Seq(0..Keepalive)
    BY <2>1, EmptySeq, Zenon
  <2>3. dead' \in BOOLEAN
    BY <2>1, Zenon
  <2>4. backoff' = MinBackoff /\ wait' = 0 /\ age' = 0 /\ pc' = "off"
    BY <1>5 DEF Stop
  <2>5. hostKey' = None /\ canonical' = None /\ UNCHANGED <<disk, unused, lost, reachable>>
    BY <1>5 DEF Stop
  <2>6. QED
    BY <2>1, <2>2, <2>3, <2>4, <2>5
<1>6. CASE DialErr \/ HandshakeErr \/ ConnLost
  BY <1>6, DisconnectedInv DEF DialErr, HandshakeErr, ConnLost
<1>7. CASE DialOK
  BY <1>7 DEF DialOK
<1>8. CASE Registered
  BY <1>8 DEF Registered
<1>9. CASE Wake
  BY <1>9 DEF Wake
<1>10. CASE KeeperAsks
  BY <1>10 DEF KeeperAsks, NoKeeper, Asking
<1>11. CASE KeeperReturns
  BY <1>11 DEF KeeperReturns
<1>12. CASE GoSilent
  BY <1>12 DEF GoSilent
<1>13. CASE ReachableChanges
  BY <1>13 DEF ReachableChanges
<1>14. CASE Tick
  BY <1>14, TickInv
<1>15. CASE UNCHANGED agentVars
  BY <1>15 DEF agentVars
<1>16. QED
  BY <1>1, <1>5, <1>6, <1>7, <1>8, <1>9, <1>10, <1>11, <1>12, <1>13, <1>14, <1>15
  DEF AgentNext, Maintain

\* Type correctness of the agent, for all its bounds.
THEOREM AgentTypeCorrect == AgentSpec => []AgentTypeOK
<1>1. AgentInv => AgentTypeOK
  BY DEF AgentInv
<1>2. QED
  BY <1>1, AgentInitInv, AgentNextInv, PTL DEF AgentSpec

\* maintain's delay stays below twice maxBackoff and its sleep below three times,
\* whatever the bounds, the outages and the restarts.
THEOREM DelaysStayBounded == AgentSpec => []DelayBounded
<1>1. AgentInv => DelayBounded
  BY DEF AgentInv
<1>2. QED
  BY <1>1, AgentInitInv, AgentNextInv, PTL DEF AgentSpec

\* A machine keeps its name: the host key an agent serves with is the one its name
\* was derived from, and it stays on disk under installers and -show-keys run
\* beside it, unless the file is lost (main's VerifyCanonicalName,
\* LoadOrCreateHostKey, the installer's test for the file).
THEOREM NamesSurvive == AgentSpec => []NameSurvives
<1>1. AgentInv => NameSurvives
  BY DEF AgentInv
<1>2. QED
  BY <1>1, AgentInitInv, AgentNextInv, PTL DEF AgentSpec

-----------------------------------------------------------------------------
(* The keepalives of sessions that have ended. Each one that is left behind     *)
(* comes after the last by at least the delay slept in between, and these       *)
(* delays double; so one that is left behind by the k-th session in a row has   *)
(* all of their sum to go when the first is due, and none has more to go than a *)
(* tick.                                                                        *)

\* Induction over the natural numbers, for a set of them.
LEMMA InductNat ==
  ASSUME NEW T, 0 \in T, \A n \in Nat : n \in T => n + 1 \in T
  PROVE  \A n \in Nat : n \in T
<1> SUFFICES ASSUME Nat \ T # {} PROVE FALSE
  OBVIOUS
<1> DEFINE R == OpToRel(<, Nat)
<1>1. IsWellFoundedOn(R, Nat)
  BY NatLessThanWellFounded
<1>2. \A x, y \in Nat : x < y => <<x, y>> \in R
  BY DEF OpToRel
<1> HIDE DEF R
<1>3. PICK x \in Nat \ T : \A y \in Nat \ T : ~(<<y, x>> \in R)
  BY <1>1, WFMin
<1>4. x # 0 /\ x - 1 \in Nat /\ x - 1 < x /\ (x - 1) + 1 = x
  BY <1>3
<1>5. x - 1 \in T
  BY <1>2, <1>3, <1>4
<1> QED
  BY <1>4, <1>5

\* d holds the first k doublings.
Doublings(k, d) == d = [i \in 0..k |-> IF i = 0 THEN MinBackoff ELSE 2 * d[i - 1]]

LEMMA DoublingsExist == ASSUME NEW k \in Nat PROVE \E d : Doublings(k, d)
<1> DEFINE U == {n \in Nat : \E d : Doublings(n, d)}
<1>1. 0 \in U
  <2> DEFINE d == [i \in 0..0 |-> MinBackoff]
  <2>1. d = [i \in 0..0 |-> IF i = 0 THEN MinBackoff ELSE 2 * d[i - 1]]
    OBVIOUS
  <2> QED
    BY <2>1 DEF Doublings
<1>2. ASSUME NEW n \in Nat, n \in U PROVE n + 1 \in U
  <2>1. PICK d : Doublings(n, d)
    BY <1>2
  <2> DEFINE e == [i \in 0..(n + 1) |-> IF i = n + 1 THEN 2 * d[n] ELSE d[i]]
  <2>2. \A i \in 0..n : d[i] = IF i = 0 THEN MinBackoff ELSE 2 * d[i - 1]
    BY <2>1 DEF Doublings
  <2>3. \A i \in 0..(n + 1) : i # 0 => i - 1 \in 0..(n + 1) /\ e[i - 1] = d[i - 1]
    OBVIOUS
  <2>4. \A i \in 0..(n + 1) : e[i] = IF i = 0 THEN MinBackoff ELSE 2 * e[i - 1]
    BY <2>2, <2>3
  <2>5. e = [i \in 0..(n + 1) |-> IF i = 0 THEN MinBackoff ELSE 2 * e[i - 1]]
    BY <2>4, Zenon
  <2>6. Doublings(n + 1, e)
    BY <2>5 DEF Doublings
  <2>7. \E f : Doublings(n + 1, f)
    <3> HIDE DEF e
    <3> QED
      BY <2>6
  <2> QED
    BY <2>7
<1> HIDE DEF U
<1>3. \A n \in Nat : n \in U
  BY <1>1, <1>2, InductNat
<1> QED
  BY <1>3 DEF U

LEMMA DoubledIs ==
  ASSUME NEW k \in Nat
  PROVE  \E d : Doublings(k, d) /\ Doubled(k) = d[k]
<1> DEFINE d == CHOOSE d : Doublings(k, d)
<1>1. Doublings(k, d)
  BY DoublingsExist, Zenon
<1>2. Doubled(k) = d[k]
  BY DEF Doubled, Doublings
<1> QED
  BY <1>1, <1>2

\* What Doubled computes.
LEMMA DoubledFacts ==
  /\ Doubled(0) = MinBackoff
  /\ \A k \in Nat : Doubled(k + 1) = 2 * Doubled(k)
  /\ \A k \in Nat : Doubled(k) \in Nat /\ Doubled(k) >= MinBackoff
<1>1. Doubled(0) = MinBackoff
  <2>1. PICK d : Doublings(0, d) /\ Doubled(0) = d[0]
    BY DoubledIs
  <2> QED
    BY <2>1 DEF Doublings
<1>2. ASSUME NEW k \in Nat PROVE Doubled(k + 1) = 2 * Doubled(k)
  <2>1. PICK d : Doublings(k, d) /\ Doubled(k) = d[k]
    BY DoubledIs
  <2>2. PICK e : Doublings(k + 1, e) /\ Doubled(k + 1) = e[k + 1]
    BY DoubledIs
  <2>3. /\ \A i \in 0..k : d[i] = IF i = 0 THEN MinBackoff ELSE 2 * d[i - 1]
        /\ \A i \in 0..(k + 1) : e[i] = IF i = 0 THEN MinBackoff ELSE 2 * e[i - 1]
    BY <2>1, <2>2 DEF Doublings
  <2> DEFINE U == {n \in Nat : n <= k => d[n] = e[n]}
  <2>4. 0 \in U
    BY <2>3
  <2>5. ASSUME NEW n \in Nat, n \in U PROVE n + 1 \in U
    <3> SUFFICES ASSUME n + 1 <= k PROVE d[n + 1] = e[n + 1]
      OBVIOUS
    <3>1. d[n] = e[n] /\ n + 1 # 0 /\ (n + 1) - 1 = n
      BY <2>5
    <3>2. n + 1 \in 0..k /\ n + 1 \in 0..(k + 1)
      OBVIOUS
    <3>3. d[n + 1] = 2 * d[n] /\ e[n + 1] = 2 * e[n]
      BY <2>3, <3>1, <3>2
    <3> QED
      BY <3>1, <3>3
  <2> HIDE DEF U
  <2>6. \A n \in Nat : n \in U
    BY <2>4, <2>5, InductNat
  <2>7. d[k] = e[k]
    BY <2>6 DEF U
  <2>8. k + 1 \in 0..(k + 1) /\ k + 1 # 0 /\ (k + 1) - 1 = k
    OBVIOUS
  <2>9. e[k + 1] = 2 * e[k]
    BY <2>3, <2>8
  <2> QED
    BY <2>1, <2>2, <2>7, <2>9
<1>3. \A k \in Nat : Doubled(k) \in Nat /\ Doubled(k) >= MinBackoff
  <2> DEFINE U == {n \in Nat : Doubled(n) \in Nat /\ Doubled(n) >= MinBackoff}
  <2>1. 0 \in U
    BY <1>1, AgentAssumption
  <2>2. ASSUME NEW n \in Nat, n \in U PROVE n + 1 \in U
    <3>1. Doubled(n) \in Nat /\ Doubled(n) >= MinBackoff /\ Doubled(n + 1) = 2 * Doubled(n)
      BY <1>2, <2>2
    <3>2. Doubled(n + 1) \in Nat /\ Doubled(n + 1) >= MinBackoff
      BY <3>1, AgentAssumption
    <3> QED
      BY <3>2
  <2> HIDE DEF U
  <2>3. \A n \in Nat : n \in U
    BY <2>1, <2>2, InductNat
  <2> QED
    BY <2>3 DEF U
<1> QED
  BY <1>1, <1>2, <1>3

\* A tick is shorter than a session that resets the delay, and than the longest
\* delay: 25 seconds against 60 for each (main.go's constants).
ShortTick == Keepalive < HealthySession /\ Keepalive < MaxBackoff

Left == Len(leftover)

\* Between any two of them in a row lies the delay of as many failures.
Gaps == \A i \in 1..(Left - 1) : leftover[i] + Doubled(i - 1) <= leftover[i + 1]

\* The delay is the one of so many failures, or at its longest.
DelayedBy(k) == backoff >= Doubled(k) \/ backoff >= MaxBackoff

\* While maintain sleeps, the last one has been left for as long as it has slept.
Sleeping ==
  pc = "sleep" /\ Left > 0 =>
    leftover[Left] + backoff <= Keepalive + wait /\ DelayedBy(Left - 1)

\* In a session it has been left for the delay before it and the session's age.
InSession ==
  pc \in {"dial", "handshake", "up"} =>
    /\ DelayedBy(Left)
    /\ Left > 0 => leftover[Left] + Doubled(Left - 1) + age <= Keepalive

\* The session's own keepalive is behind it by that delay.
KeeperBehind ==
  keeper >= 0 /\ Left > 0 => leftover[Left] + Doubled(Left - 1) <= keeper

SpacedInv ==
  /\ Gaps /\ Sleeping /\ InSession /\ KeeperBehind
  /\ pc = "off" => Left = 0
  /\ pc # "up" => keeper = NoKeeper

LEMMA LeftoverFacts ==
  ASSUME AgentInv
  PROVE  /\ Left \in Nat
         /\ \A i \in 1..Left : leftover[i] \in 0..Keepalive
         /\ Left > 0 => Left \in 1..Left /\ Left - 1 \in Nat /\ leftover[Left] \in Nat
         /\ Left > 0 => Doubled(Left) = 2 * Doubled(Left - 1)
         /\ Left > 0 => Doubled(Left - 1) \in Nat /\ Doubled(Left - 1) >= MinBackoff
         /\ Doubled(Left) \in Nat /\ Doubled(Left) >= MinBackoff
<1>1. leftover \in Seq(0..Keepalive)
  BY DEF AgentInv, AgentTypeOK
<1>2. Left \in Nat /\ \A i \in 1..Left : leftover[i] \in 0..Keepalive
  BY <1>1, LenProperties, ElementOfSeq DEF Left
<1>3. Left > 0 => Left \in 1..Left /\ Left - 1 \in Nat /\ (Left - 1) + 1 = Left
  BY <1>2
<1>4. Left > 0 => leftover[Left] \in Nat
  BY <1>2, <1>3, AgentAssumption
<1>5. Left > 0 => Doubled(Left) = 2 * Doubled(Left - 1)
  <2> SUFFICES ASSUME Left > 0 PROVE Doubled(Left) = 2 * Doubled(Left - 1)
    OBVIOUS
  <2>1. Doubled((Left - 1) + 1) = 2 * Doubled(Left - 1)
    BY <1>3, DoubledFacts
  <2> QED
    BY <2>1, <1>3
<1> QED
  BY <1>2, <1>3, <1>4, <1>5, DoubledFacts

\* A step that leaves them all as they are.
LEMMA SameLeftover ==
  ASSUME AgentInv, SpacedInv, UNCHANGED leftover,
         Sleeping', InSession', KeeperBehind',
         pc' = "off" => Left = 0, pc' # "up" => keeper' = NoKeeper
  PROVE  SpacedInv'
BY DEF SpacedInv, Gaps, Left

\* Sums keep the order.
LEMMA SumsBounded ==
  ASSUME NEW k \in Int, NEW K \in Int, NEW x \in Int, NEW y \in Int, k <= K, x <= y
  PROVE  k + x <= K + y
OBVIOUS

\* maintain sleeps; a keepalive that is not waiting for an answer is left behind.
LEMMA DisconnectedSpaced ==
  ASSUME ShortTick, AgentInv, DelayPositive, SpacedInv,
         pc \in {"dial", "handshake", "up"}, Disconnected
  PROVE  SpacedInv'
<1> USE AgentAssumption
<1> DEFINE b == IF age >= HealthySession THEN MinBackoff ELSE backoff
<1>1. /\ backoff \in Nat /\ MinBackoff <= backoff /\ age \in Nat
      /\ leftover \in Seq(0..Keepalive)
  BY DEF AgentInv, AgentTypeOK, DelayPositive
<1>2. b \in Nat
  BY <1>1
<1>3. PICK jitter \in 0..(b \div 2 - 1) : wait' = b + jitter
  BY DEF Disconnected
<1>4. backoff' = b /\ wait' >= b /\ wait' \in Nat
  <2>1. backoff' = b
    BY DEF Disconnected
  <2> HIDE DEF b
  <2>2. b \div 2 \in Int
    BY <1>2
  <2> QED
    BY <2>1, <2>2, <1>2, <1>3
<1>5. pc' = "sleep" /\ keeper' = NoKeeper
  BY DEF Disconnected
<1>6. /\ DelayedBy(Left)
      /\ Left > 0 => leftover[Left] + Doubled(Left - 1) + age <= Keepalive
  BY DEF SpacedInv, InSession
<1>7. Left = 0 \/ b = backoff
  <2> SUFFICES ASSUME Left > 0 PROVE ~(age >= HealthySession)
    BY LeftoverFacts
  <2>1. leftover[Left] \in Nat /\ Doubled(Left - 1) \in Nat
    BY LeftoverFacts
  <2> QED
    BY <1>1, <1>6, <2>1 DEF ShortTick
<1>8. b >= Doubled(Left) \/ b >= MaxBackoff
  <2>1. CASE Left = 0
    BY <2>1, <1>1, DoubledFacts
  <2>2. CASE b = backoff
    BY <2>2, <1>6 DEF DelayedBy
  <2> QED
    BY <1>7, <2>1, <2>2
<1> HIDE DEF b
<1>9. CASE keeper >= 0
  <2>0. leftover' = Append(leftover, keeper)
    BY <1>9 DEF Disconnected
  <2>1. keeper \in 0..Keepalive
    BY <1>9 DEF AgentInv, AgentTypeOK, NoKeeper, Asking
  <2>2. /\ Left' = Left + 1 /\ Left' - 1 = Left /\ leftover'[Left'] = keeper
        /\ \A i \in 1..Left : leftover'[i] = leftover[i]
    BY <2>0, <2>1, <1>1, AppendProperties, LenProperties DEF Left
  <2>3. ASSUME NEW i \in 1..(Left' - 1) PROVE leftover'[i] + Doubled(i - 1) <= leftover'[i + 1]
    <3>1. Left \in Nat /\ i \in 1..Left
      BY <2>2, LeftoverFacts
    <3>2. CASE i = Left
      <4>1. Left > 0 /\ leftover[Left] + Doubled(Left - 1) <= keeper
        BY <3>1, <3>2, <1>9 DEF SpacedInv, KeeperBehind
      <4> QED
        BY <4>1, <3>1, <3>2, <2>2
    <3>3. CASE i # Left
      <4>1. i \in 1..(Left - 1) /\ i + 1 \in 1..Left
        BY <3>1, <3>3
      <4>2. leftover[i] + Doubled(i - 1) <= leftover[i + 1]
        BY <4>1 DEF SpacedInv, Gaps
      <4> QED
        BY <4>1, <4>2, <3>1, <2>2
    <3> QED
      BY <3>2, <3>3
  <2>4. Gaps'
    BY <2>3 DEF Gaps
  <2>5. Sleeping'
    <3>1. keeper \in Int /\ Keepalive \in Int /\ keeper <= Keepalive
      BY <2>1
    <3>2. b \in Int /\ wait' \in Int /\ b <= wait'
      BY <1>2, <1>4
    <3>3. keeper + b <= Keepalive + wait'
      BY <3>1, <3>2, SumsBounded, Zenon
    <3> QED
      BY <3>3, <2>2, <1>4, <1>8 DEF Sleeping, DelayedBy
  <2> QED
    BY <2>4, <2>5, <1>5 DEF SpacedInv, InSession, KeeperBehind, NoKeeper
<1>10. CASE ~(keeper >= 0)
  <2>1. leftover' = leftover
    BY <1>10 DEF Disconnected
  <2>2. Sleeping'
    <3> SUFFICES ASSUME Left > 0
                 PROVE  /\ leftover[Left] + backoff' <= Keepalive + wait'
                        /\ backoff' >= Doubled(Left - 1) \/ backoff' >= MaxBackoff
      BY <2>1 DEF Sleeping, DelayedBy, Left
    <3>1. /\ leftover[Left] \in 0..Keepalive /\ Doubled(Left - 1) \in Nat
          /\ Doubled(Left) = 2 * Doubled(Left - 1)
      BY LeftoverFacts
    <3>2. leftover[Left] + b <= Keepalive + wait'
      BY <3>1, <1>2, <1>4
    <3>3. b >= Doubled(Left - 1) \/ b >= MaxBackoff
      BY <3>1, <1>2, <1>8
    <3> QED
      BY <3>2, <3>3, <1>4
  <2>3. InSession' /\ KeeperBehind'
    BY <1>5 DEF InSession, KeeperBehind, NoKeeper
  <2> QED
    BY <2>1, <2>2, <2>3, <1>5, SameLeftover
<1> QED
  BY <1>9, <1>10

\* The delay is over, and doubled: none is left that is not behind by all of it.
LEMMA WakeSpaced ==
  ASSUME ShortTick, AgentInv, DelayPositive, SpacedInv, Wake
  PROVE  SpacedInv'
<1> USE AgentAssumption
<1>1. /\ backoff \in Nat /\ MinBackoff <= backoff /\ pc = "sleep" /\ wait = 0
      /\ backoff' = (IF backoff < MaxBackoff THEN 2 * backoff ELSE backoff)
      /\ pc' = "dial" /\ age' = 0 /\ UNCHANGED <<leftover, keeper>>
  BY DEF AgentInv, AgentTypeOK, DelayPositive, Wake
<1>2. keeper' = NoKeeper
  BY <1>1 DEF SpacedInv
<1>3. CASE Left = 0
  <2>1. backoff' >= Doubled(0)
    BY <1>1, DoubledFacts
  <2>2. InSession'
    BY <1>1, <1>3, <2>1 DEF InSession, DelayedBy, Left
  <2>3. Sleeping' /\ KeeperBehind'
    BY <1>1, <1>2 DEF Sleeping, KeeperBehind, NoKeeper
  <2> QED
    BY <1>1, <1>2, <2>2, <2>3, SameLeftover
<1>4. CASE Left > 0
  <2> DEFINE d == Doubled(Left - 1)
             l == leftover[Left]
  <2>1. d \in Nat /\ l \in Nat /\ Doubled(Left) = 2 * d
    BY <1>4, LeftoverFacts
  <2>2. l + backoff <= Keepalive /\ (backoff >= d \/ backoff >= MaxBackoff)
    BY <1>1, <1>4 DEF SpacedInv, Sleeping, DelayedBy
  <2> HIDE DEF d, l
  <2>3. backoff < MaxBackoff /\ backoff >= d
    BY <2>1, <2>2, <1>1 DEF ShortTick
  <2>4. backoff' >= 2 * d /\ l + d + 0 <= Keepalive
    BY <2>1, <2>2, <2>3, <1>1
  <2>5. InSession'
    BY <2>1, <2>4, <1>1 DEF InSession, DelayedBy, Left, d, l
  <2>6. Sleeping' /\ KeeperBehind'
    BY <1>1, <1>2 DEF Sleeping, KeeperBehind, NoKeeper
  <2> QED
    BY <1>1, <1>2, <2>5, <2>6, SameLeftover
<1> QED
  BY <1>3, <1>4, LeftoverFacts

\* Time takes them all on by one, and the sleep, the session and its own keepalive.
LEMMA TickSpaced ==
  ASSUME ShortTick, AgentInv, DelayPositive, SpacedInv, Tick
  PROVE  SpacedInv'
<1> USE AgentAssumption
<1>1. /\ pc' = pc /\ backoff' = backoff /\ pc # "off"
      /\ wait \in Nat /\ wait' = (IF pc = "sleep" THEN wait - 1 ELSE wait)
      /\ age \in Nat
      /\ age' = (IF pc # "sleep" /\ age < HealthySession THEN age + 1 ELSE age)
      /\ keeper' = (IF keeper > 0 THEN keeper - 1 ELSE keeper)
      /\ backoff \in Nat /\ keeper \in Int /\ keeper # 0
  BY DEF AgentInv, AgentTypeOK, Tick, NoKeeper, Asking
<1>2. /\ Left \in Nat /\ Left' = Left
      /\ \A i \in 1..Left : leftover[i] \in Nat /\ leftover'[i] = leftover[i] - 1
  <2>1. leftover \in Seq(0..Keepalive) /\ leftover' \in Seq(0..Keepalive)
    BY TickInv DEF AgentInv, AgentTypeOK
  <2>2. DOMAIN leftover = 1..Left /\ Left \in Nat
    BY <2>1, LenProperties DEF Left
  <2>3. leftover' = [i \in 1..Left |-> leftover[i] - 1]
    BY <2>2 DEF Tick
  <2>4. DOMAIN leftover' = 1..Left
    BY <2>3
  <2>5. Len(leftover') = Left
    BY <2>1, <2>2, <2>4, LenProperties
  <2>6. \A i \in 1..Left : leftover[i] \in Nat
    BY LeftoverFacts
  <2> QED
    BY <2>2, <2>3, <2>5, <2>6 DEF Left
<1>3. Gaps'
  <2> SUFFICES ASSUME NEW i \in 1..(Left' - 1)
               PROVE  leftover'[i] + Doubled(i - 1) <= leftover'[i + 1]
    BY DEF Gaps
  <2>1. i \in 1..(Left - 1) /\ i \in 1..Left /\ i + 1 \in 1..Left /\ i - 1 \in Nat
    BY <1>2
  <2>2. leftover[i] + Doubled(i - 1) <= leftover[i + 1]
    BY <2>1 DEF SpacedInv, Gaps
  <2>3. Doubled(i - 1) \in Nat
    BY <2>1, DoubledFacts
  <2> QED
    BY <2>1, <2>2, <2>3, <1>2
<1>4. CASE Left = 0
  <2>1. Sleeping' /\ KeeperBehind'
    BY <1>2, <1>4 DEF Sleeping, KeeperBehind
  <2>2. InSession'
    BY <1>1, <1>2, <1>4 DEF SpacedInv, InSession, DelayedBy
  <2> QED
    BY <2>1, <2>2, <1>1, <1>2, <1>3, <1>4 DEF SpacedInv, NoKeeper
<1>5. CASE Left > 0
  <2> DEFINE l == leftover[Left]
             d == Doubled(Left - 1)
             D == Doubled(Left)
  <2>1. l \in Nat /\ d \in Nat /\ D \in Nat
    BY <1>5, LeftoverFacts
  <2>2. leftover'[Left'] = l - 1 /\ Left' = Left
    <3>1. Left \in 1..Left
      BY <1>5, LeftoverFacts
    <3> QED
      BY <3>1, <1>2
  <2>3. /\ pc = "sleep" => l + backoff <= Keepalive + wait /\ (backoff >= d \/ backoff >= MaxBackoff)
        /\ pc \in {"dial", "handshake", "up"} =>
             (backoff >= D \/ backoff >= MaxBackoff) /\ l + d + age <= Keepalive
        /\ keeper >= 0 => l + d <= keeper
        /\ pc # "up" => keeper = NoKeeper
    BY <1>5 DEF SpacedInv, Sleeping, InSession, KeeperBehind, DelayedBy
  <2>4. Sleeping' <=> (pc' = "sleep" =>
          leftover'[Left'] + backoff' <= Keepalive + wait' /\ (backoff' >= d \/ backoff' >= MaxBackoff))
    BY <1>5, <2>2 DEF Sleeping, DelayedBy
  <2>5. InSession' <=> (pc' \in {"dial", "handshake", "up"} =>
          (backoff' >= D \/ backoff' >= MaxBackoff) /\ leftover'[Left'] + d + age' <= Keepalive)
    BY <1>5, <2>2 DEF InSession, DelayedBy
  <2>6. KeeperBehind' <=> (keeper' >= 0 => leftover'[Left'] + d <= keeper')
    BY <1>5, <2>2 DEF KeeperBehind
  <2>7. (pc' = "off" => Left' = 0) /\ (pc' # "up" => keeper' = NoKeeper)
    BY <1>1, <2>3 DEF NoKeeper
  <2> HIDE DEF l, d, D
  <2>8. Sleeping'
    BY <1>1, <2>1, <2>2, <2>3, <2>4
  <2>9. InSession'
    BY <1>1, <2>1, <2>2, <2>3, <2>5 DEF ShortTick
  <2>10. KeeperBehind'
    BY <1>1, <2>1, <2>2, <2>3, <2>6
  <2> QED
    BY <1>3, <2>7, <2>8, <2>9, <2>10 DEF SpacedInv
<1> QED
  BY <1>4, <1>5, <1>2

\* The first of them returns: the others move up, and their gaps are wider than
\* their new places ask for.
LEMMA KeeperReturnsSpaced ==
  ASSUME AgentInv, SpacedInv, KeeperReturns
  PROVE  SpacedInv'
<1> USE AgentAssumption
<1>1. UNCHANGED <<pc, backoff, wait, age, keeper>>
  BY DEF KeeperReturns
<1>2. /\ Left \in Nat /\ Left > 0 /\ Left' = Left - 1
      /\ \A i \in 1..(Left - 1) : leftover'[i] = leftover[i + 1]
  <2>1. leftover \in Seq(0..Keepalive) /\ leftover # <<>> /\ leftover' = Tail(leftover)
    BY DEF AgentInv, AgentTypeOK, KeeperReturns
  <2> QED
    BY <2>1, HeadTailProperties, LenProperties, EmptySeq DEF Left
<1>3. /\ backoff \in Nat /\ wait \in Nat /\ age \in Nat
      /\ \A i \in 1..Left : leftover[i] \in Nat
  BY LeftoverFacts DEF AgentInv, AgentTypeOK
<1>4. Gaps'
  <2> SUFFICES ASSUME NEW i \in 1..(Left' - 1)
               PROVE  leftover'[i] + Doubled(i - 1) <= leftover'[i + 1]
    BY DEF Gaps
  <2>1. /\ i \in 1..(Left - 1) /\ i + 1 \in 1..(Left - 1) /\ i + 1 \in 1..Left
        /\ (i + 1) + 1 \in 1..Left /\ i - 1 \in Nat /\ (i + 1) - 1 = i /\ (i - 1) + 1 = i
    BY <1>2
  <2>2. leftover[i + 1] + Doubled((i + 1) - 1) <= leftover[(i + 1) + 1]
    BY <2>1 DEF SpacedInv, Gaps
  <2>3. Doubled((i - 1) + 1) = 2 * Doubled(i - 1) /\ Doubled(i - 1) \in Nat
    BY <2>1, DoubledFacts
  <2>4. Doubled(i) = 2 * Doubled(i - 1) /\ leftover[i + 1] + Doubled(i) <= leftover[(i + 1) + 1]
    BY <2>1, <2>2, <2>3
  <2>5. leftover'[i] = leftover[i + 1] /\ leftover'[i + 1] = leftover[(i + 1) + 1]
    BY <2>1, <1>2
  <2>6. leftover[i + 1] \in Nat /\ leftover[(i + 1) + 1] \in Nat
    BY <2>1, <1>3
  <2> QED
    BY <2>3, <2>4, <2>5, <2>6
<1>5. Doubled(Left) = 2 * Doubled(Left - 1) /\ Doubled(Left - 1) \in Nat
  BY <1>2, LeftoverFacts
<1>6. DelayedBy(Left) => DelayedBy(Left - 1)
  BY <1>3, <1>5 DEF DelayedBy
<1>7. \A k : DelayedBy(k)' <=> DelayedBy(k)
  BY <1>1 DEF DelayedBy
<1>8. pc' = "off" => Left' = 0
  BY <1>1, <1>2 DEF SpacedInv
<1>9. CASE Left = 1
  <2>1. Left' = 0 /\ Left - 1 = 0
    BY <1>2, <1>9
  <2>2. InSession'
    <3>1. pc \in {"dial", "handshake", "up"} => backoff >= Doubled(0) \/ backoff >= MaxBackoff
      BY <1>6, <2>1 DEF SpacedInv, InSession, DelayedBy
    <3> QED
      BY <3>1, <1>1, <2>1 DEF InSession, DelayedBy
  <2> QED
    BY <1>1, <1>4, <1>8, <2>1, <2>2 DEF SpacedInv, Sleeping, KeeperBehind
<1>10. CASE Left > 1
  <2> DEFINE l == leftover[Left]
             d == Doubled(Left - 1)
             c == Doubled(Left' - 1)
  <2>1. leftover'[Left'] = l /\ Left' > 0 /\ Left' - 1 \in Nat /\ (Left' - 1) + 1 = Left - 1
    <3>1. Left - 1 \in 1..(Left - 1) /\ (Left - 1) + 1 = Left
      BY <1>2, <1>10
    <3>2. leftover'[Left - 1] = leftover[(Left - 1) + 1]
      BY <3>1, <1>2
    <3> QED
      BY <3>1, <3>2, <1>2, <1>10
  <2>2. d = 2 * c /\ c \in Nat /\ d \in Nat /\ l \in Nat
    <3>1. Left \in 1..Left
      BY <1>2
    <3>2. Doubled((Left' - 1) + 1) = 2 * c /\ c \in Nat
      BY <2>1, DoubledFacts
    <3> QED
      BY <3>1, <3>2, <2>1, <1>3
  <2>3. /\ pc = "sleep" => l + backoff <= Keepalive + wait /\ (backoff >= d \/ backoff >= MaxBackoff)
        /\ pc \in {"dial", "handshake", "up"} =>
             (backoff >= Doubled(Left) \/ backoff >= MaxBackoff) /\ l + d + age <= Keepalive
        /\ keeper >= 0 => l + d <= keeper
        /\ pc # "up" => keeper = NoKeeper
    BY <1>10, <1>2 DEF SpacedInv, Sleeping, InSession, KeeperBehind, DelayedBy
  <2>4. Sleeping' <=> (pc = "sleep" =>
          l + backoff <= Keepalive + wait /\ (backoff >= c \/ backoff >= MaxBackoff))
    BY <1>1, <2>1 DEF Sleeping, DelayedBy
  <2>5. InSession' <=> (pc \in {"dial", "handshake", "up"} =>
          (backoff >= d \/ backoff >= MaxBackoff) /\ l + c + age <= Keepalive)
    BY <1>1, <1>2, <2>1 DEF InSession, DelayedBy
  <2>6. KeeperBehind' <=> (keeper >= 0 => l + c <= keeper)
    BY <1>1, <2>1 DEF KeeperBehind
  <2>7. Doubled(Left) = 2 * d
    BY <1>5
  <2>8. keeper \in Int
    BY DEF AgentInv, AgentTypeOK, NoKeeper, Asking
  <2> HIDE DEF l, d, c
  <2>9. Sleeping'
    BY <1>3, <2>2, <2>3, <2>4
  <2>10. InSession'
    BY <1>3, <2>2, <2>3, <2>5, <2>7
  <2>11. KeeperBehind'
    BY <2>2, <2>3, <2>6, <2>8
  <2> QED
    BY <1>1, <1>4, <1>8, <2>3, <2>9, <2>10, <2>11 DEF SpacedInv
<1> QED
  BY <1>2, <1>9, <1>10

\* At the start there are none.
LEMMA SpacedInit == AgentInit => SpacedInv
<1> SUFFICES ASSUME AgentInit PROVE SpacedInv
  OBVIOUS
<1>1. leftover = <<>> /\ pc = "off" /\ keeper = NoKeeper
  BY Zenon DEF AgentInit
<1>2. Left = 0
  BY <1>1, EmptySeq DEF Left
<1> QED
  BY <1>1, <1>2 DEF SpacedInv, Gaps, Sleeping, InSession, KeeperBehind

\* The session's own keepalive is not due before those left behind have returned.
LEMMA DueAlone ==
  ASSUME AgentInv, SpacedInv, keeper = 0
  PROVE  Left = 0
<1> SUFFICES ASSUME Left > 0 PROVE FALSE
  BY LeftoverFacts
<1>1. leftover[Left] + Doubled(Left - 1) <= 0
  BY DEF SpacedInv, KeeperBehind
<1>2. leftover[Left] \in Nat /\ Doubled(Left - 1) \in Nat /\ Doubled(Left - 1) >= MinBackoff
  BY LeftoverFacts
<1> QED
  BY <1>1, <1>2, AgentAssumption

\* Every step keeps them spaced.
LEMMA SpacedNext ==
  ASSUME ShortTick, AgentInv, DelayPositive, SpacedInv, [AgentNext]_agentVars
  PROVE  SpacedInv'
<1> USE AgentAssumption
<1>1. CASE Start
  <2>1. /\ Left = 0 /\ keeper = NoKeeper /\ UNCHANGED <<keeper, leftover>>
        /\ pc' = "dial" /\ backoff' = MinBackoff
    BY <1>1 DEF Start, SpacedInv
  <2>2. Left' = 0 /\ backoff' >= Doubled(0)
    BY <2>1, DoubledFacts DEF Left
  <2>3. InSession'
    BY <2>1, <2>2 DEF InSession, DelayedBy
  <2> QED
    BY <2>1, <2>2, <2>3, SameLeftover DEF Sleeping, KeeperBehind
<1>2. CASE StartEnds \/ Enrol \/ LoseHostKey \/ ReachableChanges \/ UNCHANGED agentVars
  <2>1. UNCHANGED <<pc, backoff, wait, age, keeper, leftover>>
    BY <1>2 DEF StartEnds, Enrol, LoseHostKey, ReachableChanges, agentVars, session
  <2> QED
    BY <2>1 DEF SpacedInv, Gaps, Sleeping, InSession, KeeperBehind, DelayedBy, Left
<1>3. CASE Stop
  <2>1. leftover' = <<>> /\ pc' = "off" /\ keeper' = NoKeeper
    BY <1>3, Zenon DEF Stop
  <2>2. Left' = 0
    BY <2>1, EmptySeq DEF Left
  <2> QED
    BY <2>1, <2>2 DEF SpacedInv, Gaps, Sleeping, InSession, KeeperBehind
<1>4. CASE DialErr \/ HandshakeErr \/ ConnLost
  BY <1>4, DisconnectedSpaced DEF DialErr, HandshakeErr, ConnLost
<1>5. CASE DialOK \/ GoSilent
  <2>1. /\ UNCHANGED <<backoff, wait, age, keeper, leftover>>
        /\ pc \in {"dial", "handshake", "up"} /\ pc' \in {"handshake", "up"}
        /\ pc' = "up" => pc = "up"
        /\ pc = "up" => pc' = "up"
    BY <1>5 DEF DialOK, GoSilent
  <2> QED
    BY <2>1 DEF SpacedInv, Gaps, Sleeping, InSession, KeeperBehind, DelayedBy, Left
<1>6. CASE Registered
  <2>1. /\ UNCHANGED <<backoff, wait, age, leftover>>
        /\ pc = "handshake" /\ pc' = "up" /\ keeper' = Keepalive
    BY <1>6 DEF Registered
  <2>2. Sleeping' /\ InSession'
    BY <2>1 DEF SpacedInv, Sleeping, InSession, DelayedBy, Left
  <2>3. KeeperBehind'
    <3> SUFFICES ASSUME Left > 0 PROVE leftover[Left] + Doubled(Left - 1) <= Keepalive
      BY <2>1 DEF KeeperBehind, Left
    <3>1. leftover[Left] + Doubled(Left - 1) + age <= Keepalive
      BY <2>1 DEF SpacedInv, InSession
    <3>2. leftover[Left] \in Nat /\ Doubled(Left - 1) \in Nat /\ age \in Nat
      BY LeftoverFacts DEF AgentInv, AgentTypeOK
    <3> QED
      BY <3>1, <3>2
  <2> QED
    BY <2>1, <2>2, <2>3, SameLeftover
<1>7. CASE Wake
  BY <1>7, WakeSpaced
<1>8. CASE KeeperAsks
  <2>1. /\ UNCHANGED <<pc, backoff, wait, age, leftover>> /\ keeper = 0 /\ pc = "up"
    BY <1>8 DEF KeeperAsks, SpacedInv, NoKeeper
  <2>2. Left = 0 /\ Left' = 0
    BY <2>1, DueAlone DEF Left
  <2>3. InSession'
    BY <2>1, <2>2 DEF SpacedInv, InSession, DelayedBy
  <2> QED
    BY <2>1, <2>2, <2>3, SameLeftover DEF Sleeping, KeeperBehind
<1>9. CASE KeeperReturns
  BY <1>9, KeeperReturnsSpaced
<1>10. CASE Tick
  BY <1>10, TickSpaced
<1> QED
  BY <1>1, <1>2, <1>3, <1>4, <1>5, <1>6, <1>7, <1>8, <1>9, <1>10 DEF AgentNext, Maintain

\* Spaced like this, the k-th has all the delays before it to go.
LEMMA SpacedBounded ==
  ASSUME AgentInv, SpacedInv
  PROVE  KeepalivesBounded
<1> USE AgentAssumption
<1> DEFINE U == {n \in Nat : n < Left => Doubled(n) - MinBackoff <= leftover[n + 1]}
<1>1. Left \in Nat /\ \A i \in 1..Left : leftover[i] \in 0..Keepalive
  BY LeftoverFacts
<1>2. 0 \in U
  <2> SUFFICES ASSUME 0 < Left PROVE Doubled(0) - MinBackoff <= leftover[0 + 1]
    OBVIOUS
  <2>1. leftover[1] \in 0..Keepalive
    BY <1>1
  <2> QED
    BY <2>1, DoubledFacts
<1>3. ASSUME NEW n \in Nat, n \in U PROVE n + 1 \in U
  <2> SUFFICES ASSUME n + 1 < Left PROVE Doubled(n + 1) - MinBackoff <= leftover[(n + 1) + 1]
    OBVIOUS
  <2>1. /\ n + 1 \in 1..(Left - 1) /\ (n + 1) - 1 = n /\ n < Left
        /\ n + 1 \in 1..Left /\ (n + 1) + 1 \in 1..Left
    BY <1>1
  <2>2. Doubled(n) - MinBackoff <= leftover[n + 1]
    BY <1>3, <2>1
  <2>3. leftover[n + 1] + Doubled((n + 1) - 1) <= leftover[(n + 1) + 1]
    BY <2>1 DEF SpacedInv, Gaps
  <2>4. leftover[n + 1] + Doubled(n) <= leftover[(n + 1) + 1]
    BY <2>1, <2>3
  <2>5. /\ leftover[n + 1] \in Int /\ leftover[(n + 1) + 1] \in Int
        /\ Doubled(n) \in Nat /\ Doubled(n + 1) = 2 * Doubled(n)
    BY <1>1, <2>1, DoubledFacts
  <2> QED
    BY <2>2, <2>4, <2>5
<1> HIDE DEF U
<1>4. \A n \in Nat : n \in U
  BY <1>2, <1>3, InductNat
<1> SUFFICES ASSUME NEW k \in 1..Left PROVE Doubled(k - 1) - MinBackoff <= Keepalive
  BY DEF KeepalivesBounded, Left
<1>5. k - 1 \in Nat /\ k - 1 < Left /\ (k - 1) + 1 = k
  BY <1>1
<1>6. Doubled(k - 1) - MinBackoff <= leftover[(k - 1) + 1]
  BY <1>4, <1>5 DEF U
<1>7. leftover[k] \in 0..Keepalive /\ Doubled(k - 1) \in Nat
  BY <1>1, <1>5, DoubledFacts
<1> QED
  BY <1>5, <1>6, <1>7

\* However sessions fail, whenever the proxy comes and goes and however long its
\* outages are, the keepalives that session leaves behind stay as few as the
\* doubled delays allow: one more takes twice the delay.
THEOREM KeepalivesAreBounded ==
  ASSUME Keepalive < HealthySession, Keepalive < MaxBackoff
  PROVE  AgentSpec => []KeepalivesBounded
<1> DEFINE Inv == AgentInv /\ DelayPositive /\ SpacedInv
<1>1. AgentInit => Inv
  BY AgentInitInv, SpacedInit
<1>2. Inv /\ [AgentNext]_agentVars => Inv'
  <2>1. ShortTick
    BY DEF ShortTick
  <2> QED
    BY <2>1, AgentNextInv, SpacedNext
<1>3. Inv => KeepalivesBounded
  BY SpacedBounded
<1> QED
  BY <1>1, <1>2, <1>3, PTL DEF AgentSpec

-----------------------------------------------------------------------------
(* The updates of the machine an agent runs on: that there is always a whole    *)
(* binary, for any number of builds. What is about to be swapped in must be     *)
(* known to be whole: a file that was verified or copied, or the previous       *)
(* binary of a rollback.                                                        *)

\* What the rename is about to put in place is a whole build; a rollback keeps
\* and downloads nothing.
SwapsWhole ==
  /\ script.at \in {"check", "fetch", "fetching", "verify", "keep"} =>
       script.mode # "rollback"
  /\ script.at \in {"keep", "swap"} /\ script.mode # "rollback" => new \in Builds
  /\ script.at = "swap" /\ script.mode = "rollback" => prev \in Builds

UpdInv == UpdTypeOK /\ AlwaysABinary /\ SwapsWhole

\* The script's record, or none.
LEMMA ScriptFields ==
  ASSUME UpdTypeOK, script.at # "idle"
  PROVE  /\ script # Idle
         /\ script = [at |-> script.at, mode |-> script.mode, want |-> script.want,
                      fresh |-> script.fresh]
         /\ script.want \in Builds
         /\ script.mode \in {"update", "push", "rollback"}
BY DEF UpdTypeOK, Idle

\* A build is a number, and no marker is one.
LEMMA BuildsAreNumbers == /\ Builds \subseteq Nat
                          /\ NoFile \notin Builds /\ Partial \notin Builds
                          /\ Other \notin Builds /\ 1 \in Builds
BY UpdateAssumption DEF Builds, NoFile, Partial, Other

\* The initial state satisfies the invariant.
LEMMA UpdInitInv == UpdInit => UpdInv
<1> SUFFICES ASSUME UpdInit PROVE UpdInv
  OBVIOUS
<1>1. cut \in BOOLEAN /\ behind \in BOOLEAN /\ script = Idle
  BY Zenon DEF UpdInit
<1>2. SwapsWhole
  BY <1>1 DEF SwapsWhole, Idle
<1>3. /\ served \in Builds /\ bin \in Builds /\ running \in Builds
      /\ version \in Builds /\ saved \in Builds /\ prev = NoFile /\ new = NoFile
  BY BuildsAreNumbers, Zenon DEF UpdInit
<1>4. QED
  BY <1>1, <1>2, <1>3, Zenon DEF UpdInv, UpdTypeOK, AlwaysABinary

\* Starting a script touches no binary, but for the pushed file's beginning.
LEMMA BeginInv ==
  ASSUME UpdInv,
         BeginUpdate \/ BeginSaved \/ BeginReinstall \/ BeginPush \/ BeginRollback
  PROVE  UpdInv'
<1> USE BuildsAreNumbers DEF UpdInv, UpdTypeOK, AlwaysABinary, SwapsWhole, Run, machine
<1>1. CASE BeginUpdate
  BY <1>1 DEF BeginUpdate
<1>2. CASE BeginSaved
  BY <1>2 DEF BeginSaved
<1>3. CASE BeginReinstall
  BY <1>3 DEF BeginReinstall
<1>4. CASE BeginPush
  BY <1>4 DEF BeginPush
<1>5. CASE BeginRollback
  BY <1>5 DEF BeginRollback
<1>6. QED
  BY <1>1, <1>2, <1>3, <1>4, <1>5

\* The steps of the script keep what is in place whole.
LEMMA ScriptInv ==
  ASSUME UpdInv, Step \/ FetchEnds \/ FetchFails
  PROVE  UpdInv'
<1> USE ScriptFields, BuildsAreNumbers
    DEF UpdInv, UpdTypeOK, AlwaysABinary, SwapsWhole, machine, Goto
<1>1. CASE AlreadyCurrent
  BY <1>1 DEF AlreadyCurrent, Idle
<1>2. CASE NotCurrent
  BY <1>2 DEF NotCurrent
<1>3. CASE FetchBegins
  BY <1>3 DEF FetchBegins
<1>4. CASE FetchEnds
  BY <1>4 DEF FetchEnds
<1>5. CASE FetchFails
  BY <1>5 DEF FetchFails, Idle
<1>6. CASE Verified
  BY <1>6 DEF Verified
<1>7. CASE Mismatch
  BY <1>7 DEF Mismatch, Idle
<1>8. CASE Keep
  <2>1. script.at = "keep" /\ prev' \in {bin, prev} /\ Goto("swap")
        /\ UNCHANGED <<served, bin, new, version, saved, running, cut, behind>>
    BY <1>8 DEF Keep
  <2>2. script.mode # "rollback" /\ new \in Builds /\ prev' \in Builds \cup {NoFile}
    BY <2>1
  <2>3. /\ script'.at = "swap" /\ script'.mode = script.mode
        /\ script' \in [at : {"swap"}, mode : {"update", "push", "rollback"},
                        want : Builds, fresh : BOOLEAN]
    BY <2>1
  <2>4. QED
    BY <2>1, <2>2, <2>3
<1>9. CASE Swap
  BY <1>9 DEF Swap
<1>10. CASE SetManifestVersion
  BY <1>10 DEF SetManifestVersion
<1>11. CASE SaveManageCopy
  BY <1>11 DEF SaveManageCopy
<1>12. CASE SvcRestart
  BY <1>12 DEF SvcRestart, Idle
<1>13. QED
  BY <1>1, <1>2, <1>3, <1>4, <1>5, <1>6, <1>7, <1>8, <1>9, <1>10, <1>11, <1>12
  DEF Step

\* Every step keeps the invariant, interruptions included.
LEMMA UpdNextInv == UpdInv /\ [UpdNext]_updVars => UpdInv'
<1> SUFFICES ASSUME UpdInv, [UpdNext]_updVars PROVE UpdInv'
  OBVIOUS
<1>1. CASE Deploy
  <2>1. served' \in Builds
    BY <1>1, UpdateAssumption DEF Deploy, UpdInv, UpdTypeOK, Builds
  <2>2. UNCHANGED <<bin, prev, new, version, saved, running, script, cut, behind>>
    BY <1>1 DEF Deploy, machine
  <2>3. QED
    BY <2>1, <2>2 DEF UpdInv, UpdTypeOK, AlwaysABinary, SwapsWhole
<1>2. CASE BeginUpdate \/ BeginSaved \/ BeginReinstall \/ BeginPush \/ BeginRollback
  BY <1>2, BeginInv
<1>3. CASE Step \/ FetchEnds \/ FetchFails
  BY <1>3, ScriptInv
<1>4. CASE Interrupt
  BY <1>4 DEF Interrupt, Killed, UpdInv, UpdTypeOK, AlwaysABinary, SwapsWhole,
              machine, Idle
<1>5. CASE AgentRestarts
  <2>1. /\ running' = bin /\ behind' = FALSE
        /\ UNCHANGED <<served, bin, prev, new, version, saved>>
    BY <1>5 DEF AgentRestarts, machine
  <2>2. CASE UNCHANGED <<script, cut>>
    <3>1. behind' \in BOOLEAN /\ cut' \in BOOLEAN
      BY <2>1, <2>2, Zenon DEF UpdInv, UpdTypeOK
    <3>2. QED
      BY <2>1, <2>2, <3>1 DEF UpdInv, UpdTypeOK, AlwaysABinary, SwapsWhole
  <2>3. CASE Killed
    <3>1. behind' \in BOOLEAN /\ cut' \in BOOLEAN
      BY <2>1, <2>3, Zenon DEF Killed
    <3>2. QED
      BY <2>1, <2>3, <3>1 DEF Killed, UpdInv, UpdTypeOK, AlwaysABinary, SwapsWhole, Idle
  <2>4. QED
    BY <1>5, <2>2, <2>3 DEF AgentRestarts
<1>6. CASE UNCHANGED updVars
  BY <1>6 DEF updVars, machine, UpdInv, UpdTypeOK, AlwaysABinary, SwapsWhole
<1>7. QED
  BY <1>1, <1>2, <1>3, <1>4, <1>5, <1>6 DEF UpdNext, Begin

\* Type correctness of the update script's model, for any number of builds.
THEOREM UpdTypeCorrect == UpdSpec => []UpdTypeOK
<1>1. UpdInv => UpdTypeOK
  BY DEF UpdInv
<1>2. QED
  BY <1>1, UpdInitInv, UpdNextInv, PTL DEF UpdSpec

\* However often updates, pushes and rollbacks are cut off, and wherever, there is
\* a whole binary installed, and the agent runs one (download_binary).
THEOREM BinaryStaysWhole == UpdSpec => []AlwaysABinary
<1>1. UpdInv => AlwaysABinary
  BY DEF UpdInv
<1>2. QED
  BY <1>1, UpdInitInv, UpdNextInv, PTL DEF UpdSpec
=============================================================================
