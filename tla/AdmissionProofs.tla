--------------------------- MODULE AdmissionProofs ---------------------------
(* Proofs about takeConn: the slots of the listeners, for any number of sockets *)
(* and any limits; the address a connection is counted under, for every header; *)
(* and the failures that are counted, for any window, any burst and any number  *)
(* of handshakes in flight.                                                     *)
EXTENDS Admission, LimiterProofs, FiniteSetTheorems, TLAPS

Holders(k) == {c \in Conns : HoldsSlot(c) /\ conn[c].kind = k}

\* What the slots need of the types: the limiter's part is not in it.
SlotTypes ==
  /\ conn \in [Conns -> Conn \cup {Idle}]
  /\ used \in [Kinds -> Int]

\* A connection is counted under the address it really comes from.
Attributed == \A c \in Conns : conn[c] # Idle => conn[c].peer = conn[c].client

SlotInv == SlotTypes /\ SlotsConserved /\ Attributed

-----------------------------------------------------------------------------
\* From a trusted peer the rightmost entry of the header, which that peer wrote
\* itself, from anyone else the peer: whatever a client forges, its connection is
\* attributed to it and to nobody else (realClientHost).
THEOREM ForgedHeadersChangeNothing ==
  ASSUME NEW k \in Kinds, NEW a \in Clients
  PROVE  Attributions(k, a) = {a}
<1>1. ASSUME NEW f \in Forged
      PROVE  realClientHost(Front, Append(f, a)) = a /\ realClientHost(a, f) = a
  <2>1. f \in Seq(Clients)
    <3>1. CASE f = <<>>
      BY <3>1, EmptySeq, Zenon
    <3>2. CASE \E b \in Clients : f = <<b>>
      BY <3>2
    <3> QED
      BY <3>1, <3>2 DEF Forged
  <2>2. /\ Append(f, a) \in Seq(Clients)
        /\ Len(Append(f, a)) = Len(f) + 1
        /\ Append(f, a)[Len(f) + 1] = a
        /\ Append(f, a) # <<>>
    BY <2>1, AppendProperties
  <2>3. a # Front
    BY DEF Clients
  <2> QED
    BY <2>2, <2>3 DEF realClientHost
<1>2. <<>> \in Forged
  BY DEF Forged
<1>3. UNION {{realClientHost(Front, Append(f, a)), realClientHost(a, f)} : f \in Forged} = {a}
  BY <1>1, <1>2, Zenon
<1> QED
  BY <1>3 DEF Attributions

LEMMA LimitsAreNumbers == \A k \in Kinds : MaxSlots[k] \in Nat
BY AdmissionAssumption

LEMMA HoldersFinite ==
  ASSUME NEW k
  PROVE  IsFiniteSet(Holders(k)) /\ Cardinality(Holders(k)) \in Nat
<1>1. Holders(k) \in SUBSET Conns
  BY DEF Holders
<1>2. IsFiniteSet(Holders(k))
  BY <1>1, AdmissionAssumption, FS_Subset
<1> QED
  BY <1>2, FS_CardinalityType

LEMMA HoldsUnlessIdle ==
  ASSUME SlotTypes, NEW c \in Conns
  PROVE  /\ HoldsSlot(c) <=> conn[c] # Idle
         /\ HoldsSlot(c) <=> conn[c] \in Conn
         /\ HoldsSlot(c) => conn[c].kind \in Kinds /\ conn[c].client \in Clients
BY DEF SlotTypes, HoldsSlot, Conn, Idle

-----------------------------------------------------------------------------
LEMMA SlotInvInit == AdmInit => SlotInv
<1> SUFFICES ASSUME AdmInit PROVE SlotInv
  OBVIOUS
<1>1. SlotTypes
  BY DEF AdmInit, SlotTypes
<1>2. \A k : Holders(k) = {}
  BY DEF AdmInit, Holders, HoldsSlot, Idle
<1>3. Cardinality({}) = 0
  BY FS_EmptySet
<1>4. SlotsConserved
  <2>1. \A k \in Kinds : used[k] = Cardinality(Holders(k))
    BY <1>2, <1>3 DEF AdmInit
  <2>2. \A k \in Kinds : used[k] <= MaxSlots[k]
    BY LimitsAreNumbers DEF AdmInit
  <2> QED
    BY <2>1, <2>2 DEF SlotsConserved, Holders
<1> QED
  BY <1>1, <1>4 DEF SlotInv, AdmInit, Attributed

\* take: one holder more, and there was room for it.
LEMMA TakeSlotKeeps ==
  ASSUME SlotInv, NEW c \in Conns, TakeSlot(c)
  PROVE  SlotInv'
<1> USE DEF SlotInv
<1>1. PICK k \in Kinds, a \in Clients :
        /\ take(k)
        /\ \E peer \in Attributions(k, a) :
             conn' = [conn EXCEPT ![c] =
               [at |-> "check", kind |-> k, peer |-> peer, client |-> a]]
  BY DEF TakeSlot
<1> DEFINE x == [at |-> "check", kind |-> k, peer |-> a, client |-> a]
<1>2. conn' = [conn EXCEPT ![c] = x]
  BY <1>1, ForgedHeadersChangeNothing
<1>3. x \in Conn /\ x # Idle
  BY DEF Conn, Clients, Idle
<1>4. conn'[c] = x /\ \A d \in Conns : d # c => conn'[d] = conn[d]
  BY <1>2 DEF SlotTypes
<1>5. SlotTypes'
  BY <1>1, <1>2, <1>3, AdmissionAssumption DEF SlotTypes, take
<1>6. Attributed'
  BY <1>3, <1>4 DEF Attributed
<1>7. ~HoldsSlot(c) /\ HoldsSlot(c)'
  BY <1>4 DEF TakeSlot, HoldsSlot, Idle
<1>8. ASSUME NEW l \in Kinds
      PROVE  Holders(l)' = IF l = k THEN Holders(l) \cup {c} ELSE Holders(l)
  BY <1>4, <1>7 DEF Holders, HoldsSlot
<1>9. SlotsConserved'
  <2> SUFFICES ASSUME NEW l \in Kinds, MaxSlots[l] # 0
               PROVE  /\ used'[l] = Cardinality(Holders(l)')
                      /\ used'[l] <= MaxSlots[l]
    BY DEF SlotsConserved, Holders
  <2>0. used[l] = Cardinality(Holders(l)) /\ used[l] <= MaxSlots[l]
    BY DEF SlotsConserved, Holders
  <2>1. CASE l = k
    <3>1. c \notin Holders(l)
      BY <1>7 DEF Holders
    <3>2. Cardinality(Holders(l) \cup {c}) = Cardinality(Holders(l)) + 1
      BY <3>1, HoldersFinite, FS_AddElement
    <3>3. used'[l] = used[l] + 1 /\ used[l] < MaxSlots[l]
      BY <2>1, <1>1, LimitsAreNumbers DEF take, Full, SlotTypes
    <3>4. Cardinality(Holders(l)') = Cardinality(Holders(l)) + 1
      BY <2>1, <3>2, <1>8
    <3>5. used'[l] <= MaxSlots[l]
      BY <3>3, LimitsAreNumbers DEF SlotTypes
    <3> QED
      BY <2>0, <3>3, <3>4, <3>5
  <2>2. CASE l # k
    BY <2>0, <2>2, <1>1, <1>8 DEF take, SlotTypes
  <2> QED
    BY <2>1, <2>2
<1> QED
  BY <1>5, <1>6, <1>9

\* give, deferred: one holder less, on whichever way out.
LEMMA ReturnKeeps ==
  ASSUME SlotInv, NEW c \in Conns, HoldsSlot(c), Return(c)
  PROVE  SlotInv'
<1> USE DEF SlotInv
<1> DEFINE k == conn[c].kind
<1>1. k \in Kinds
  BY HoldsUnlessIdle
<1>2. conn'[c] = Idle /\ \A d \in Conns : d # c => conn'[d] = conn[d]
  BY DEF Return, SlotTypes
<1>3. SlotTypes'
  BY <1>1 DEF Return, give, SlotTypes
<1>4. Attributed'
  BY <1>2 DEF Attributed
<1>5. ~HoldsSlot(c)'
  BY <1>2 DEF HoldsSlot, Idle
<1>6. ASSUME NEW l \in Kinds
      PROVE  Holders(l)' = IF l = k THEN Holders(l) \ {c} ELSE Holders(l)
  BY <1>2, <1>5 DEF Holders, HoldsSlot
<1>7. SlotsConserved'
  <2> SUFFICES ASSUME NEW l \in Kinds, MaxSlots[l] # 0
               PROVE  /\ used'[l] = Cardinality(Holders(l)')
                      /\ used'[l] <= MaxSlots[l]
    BY DEF SlotsConserved, Holders
  <2>0. used[l] = Cardinality(Holders(l)) /\ used[l] <= MaxSlots[l]
    BY DEF SlotsConserved, Holders
  <2>1. CASE l = k
    <3>1. c \in Holders(l)
      BY <2>1 DEF Holders
    <3>2. Cardinality(Holders(l) \ {c}) = Cardinality(Holders(l)) - 1
      BY <3>1, HoldersFinite, FS_RemoveElement
    <3>3. used'[l] = used[l] - 1
      BY <2>1, <1>1 DEF Return, give, SlotTypes
    <3>4. Cardinality(Holders(l)') = Cardinality(Holders(l)) - 1
      BY <2>1, <3>2, <1>6
    <3>5. used'[l] <= MaxSlots[l]
      BY <2>0, <3>3, LimitsAreNumbers DEF SlotTypes
    <3> QED
      BY <2>0, <3>3, <3>4, <3>5
  <2>2. CASE l # k
    BY <2>0, <2>2, <1>1, <1>6 DEF Return, give, SlotTypes
  <2> QED
    BY <2>1, <2>2
<1> QED
  BY <1>3, <1>4, <1>7

\* A connection moves on with the slot it has.
LEMMA GotoKeeps ==
  ASSUME SlotInv, NEW c \in Conns, HoldsSlot(c), NEW s \in {"handshake", "serving"},
         Goto(c, s), UNCHANGED used
  PROVE  SlotInv'
<1> USE DEF SlotInv
<1>1. conn[c] \in Conn
  BY HoldsUnlessIdle
<1> DEFINE x == [conn[c] EXCEPT !.at = s]
<1>2. x \in Conn /\ x # Idle
  BY <1>1 DEF Conn, Idle
<1>3. conn' = [conn EXCEPT ![c] = x]
  BY DEF Goto, SlotTypes
<1>4. conn'[c] = x /\ \A d \in Conns : d # c => conn'[d] = conn[d]
  BY <1>3 DEF SlotTypes
<1>5. /\ x.at = s /\ x.kind = conn[c].kind
      /\ x.peer = conn[c].peer /\ x.client = conn[c].client
  BY <1>1 DEF Conn
<1>6. SlotTypes' /\ Attributed'
  BY <1>2, <1>3, <1>4, <1>5, HoldsUnlessIdle DEF SlotTypes, Attributed
<1>7. \A k : Holders(k)' = Holders(k)
  BY <1>4, <1>5 DEF Holders, HoldsSlot
<1>8. SlotsConserved'
  BY <1>7 DEF SlotsConserved, Holders
<1> QED
  BY <1>6, <1>8

LEMMA SlotInvNext == SlotInv /\ [AdmNext]_admVars => SlotInv'
<1> SUFFICES ASSUME SlotInv, [AdmNext]_admVars PROVE SlotInv'
  OBVIOUS
<1>0. ASSUME UNCHANGED <<conn, used>> PROVE SlotInv'
  BY <1>0 DEF SlotInv, SlotTypes, SlotsConserved, HoldsSlot, Attributed
<1>1. ASSUME NEW c \in Conns, TakeSlot(c)
      PROVE  SlotInv'
  BY <1>1, TakeSlotKeeps
<1>2. ASSUME NEW c \in Conns,
             RefuseBlocked(c) \/ HandshakeErr(c) \/ Deadline(c) \/ HandlerReturns(c)
      PROVE  SlotInv'
  BY <1>2, ReturnKeeps DEF RefuseBlocked, HandshakeErr, Deadline, HandlerReturns, Fails, HoldsSlot
<1>3. ASSUME NEW c \in Conns, StartHandshake(c) \/ HandshakeOK(c)
      PROVE  SlotInv'
  BY <1>3, GotoKeeps DEF StartHandshake, HandshakeOK, HoldsSlot
<1>4. CASE Tick \/ \E c \in Conns : RefuseSlot(c)
  BY <1>0, <1>4 DEF Tick, RefuseSlot, admVars
<1>5. CASE UNCHANGED admVars
  BY <1>0, <1>5 DEF admVars
<1> QED
  BY <1>1, <1>2, <1>3, <1>4, <1>5 DEF AdmNext, CheckFailures

\* takeConn always leaves slots, deferred gives and holders in step.
THEOREM SlotInvariance == AdmSpec => []SlotInv
BY SlotInvInit, SlotInvNext, PTL DEF AdmSpec

\* However connections are refused, fail, time out or end, the slots in use are
\* exactly the connections that hold one, on each listener, and never more than
\* it has (takeConn's take and its deferred give).
THEOREM SlotsAreConserved == AdmSpec => []SlotsConserved
BY SlotInvariance, PTL DEF SlotInv

-----------------------------------------------------------------------------
(* The failures of an address, and what the limiter knows of them.              *)

\* Handshakes of a in progress: the check is behind them, the count before them.
Pending(a) == {c \in Conns : conn[c].at = "handshake" /\ conn[c].client = a}

\* Those that may yet fail without being recorded: while the count is below the
\* burst, the next failure is recorded, whoever's it is.
Unrecorded(a) ==
  IF count(authFailures, a, now) < Burst THEN 0 ELSE Cardinality(Pending(a))

Seen(a, t) == Len(Recent(authFailures.seen[a], t))
Failed(a, t) == Len(Recent(failures[a], t))

\* The times of a's failures lie in the window that ends now.
InWindow(a) ==
  /\ Recent(failures[a], now) = failures[a]
  /\ \A t \in Int : now + Window <= t => Recent(failures[a], t) = <<>>

\* Now and at every later time, what the limiter has recorded did happen, ...
OnlyFailures(a) == \A t \in Int : now <= t => Seen(a, t) <= Failed(a, t)

\* ... and what it has not recorded was in flight with a failure that it has, or
\* with the last one before the window.
FewUnrecorded(a) ==
  \A t \in Int : now <= t =>
    Failed(a, t) + Unrecorded(a) <= Cardinality(Conns) * Seen(a, t) + Cardinality(Conns) - 1

Counted(a) ==
  InWindow(a) /\ OnlyFailures(a) /\ FewUnrecorded(a) /\ Seen(a, now) <= Burst

FailTypes ==
  /\ now \in Int
  /\ IsLimiter(authFailures)
  /\ failures \in [Clients -> Seq(Int)]

FailInv == FailTypes /\ WellSwept(authFailures, now) /\ \A a \in Clients : Counted(a)

LEMMA FailTypesOf ==
  ASSUME FailTypes, NEW a \in Clients, NEW t \in Int
  PROVE  /\ a \in Addrs
         /\ authFailures.seen[a] \in Seq(Int) /\ failures[a] \in Seq(Int)
         /\ Seen(a, t) \in Nat /\ Failed(a, t) \in Nat
<1>1. a \in Addrs
  BY DEF Clients
<1>2. authFailures.seen[a] \in Seq(Int) /\ failures[a] \in Seq(Int)
  BY <1>1 DEF FailTypes, IsLimiter
<1> QED
  BY <1>1, <1>2, RecentType DEF Seen, Failed

LEMMA SomeConns ==
  ASSUME NEW S, S \subseteq Conns
  PROVE  IsFiniteSet(S) /\ Cardinality(S) \in Nat
<1>1. IsFiniteSet(S)
  BY AdmissionAssumption, FS_Subset
<1> QED
  BY <1>1, FS_CardinalityType

LEMMA PendingFinite ==
  ASSUME NEW a
  PROVE  /\ Pending(a) \subseteq Conns /\ Pending(a)' \subseteq Conns
         /\ IsFiniteSet(Pending(a)) /\ Cardinality(Pending(a)) \in Nat
         /\ IsFiniteSet(Pending(a)') /\ Cardinality(Pending(a)') \in Nat
<1>1. Pending(a) \subseteq Conns /\ Pending(a)' \subseteq Conns
  BY DEF Pending
<1> QED
  BY <1>1, SomeConns

LEMMA UnrecordedType ==
  ASSUME NEW a
  PROVE  Unrecorded(a) \in Nat /\ Unrecorded(a)' \in Nat
BY PendingFinite DEF Unrecorded

LEMMA ConnsCount ==
  Cardinality(Conns) \in Nat /\ Cardinality(Conns) >= 1
<1>1. Cardinality(Conns) \in Nat
  BY AdmissionAssumption, FS_CardinalityType
<1>2. Cardinality(Conns) = 0 <=> Conns = {}
  BY AdmissionAssumption, FS_EmptySet
<1> QED
  BY <1>1, <1>2, AdmissionAssumption

LEMMA FailInit == AdmInit => FailInv
<1> SUFFICES ASSUME AdmInit PROVE FailInv
  OBVIOUS
<1>1. now = 0 /\ authFailures = newLimiter /\ failures = [a \in Clients |-> <<>>]
  BY DEF AdmInit
<1>2. <<>> \in Seq(Int) /\ Len(<<>>) = 0
  BY EmptySeq, Zenon
<1>3. FailTypes /\ WellSwept(authFailures, now)
  BY <1>1, <1>2, NewLimiter DEF FailTypes
<1>4. ASSUME NEW a \in Clients PROVE Counted(a)
  <2>1. authFailures.seen[a] = <<>> /\ failures[a] = <<>>
    BY <1>1, NewLimiter DEF Clients
  <2>2. \A t \in Int : Seen(a, t) = 0 /\ Failed(a, t) = 0
    BY <1>2, <2>1, RecentEmpty DEF Seen, Failed
  <2>3. Unrecorded(a) = 0
    BY <1>1, <1>2, <2>1, RecentEmpty, LimiterAssumption DEF Unrecorded, count
  <2>4. Seen(a, now) = 0
    BY <1>1, <2>2
  <2>5. InWindow(a)
    BY <1>1, <2>1, RecentEmpty DEF InWindow
  <2>6. OnlyFailures(a)
    BY <2>2 DEF OnlyFailures
  <2>7. FewUnrecorded(a)
    BY <2>2, <2>3, ConnsCount DEF FewUnrecorded
  <2> QED
    BY <2>4, <2>5, <2>6, <2>7, LimiterAssumption DEF Counted
<1> QED
  BY <1>3, <1>4 DEF FailInv

\* A step of a connection that is no failure: it puts no handshake in flight for
\* an address whose count is at the burst.
LEMMA ConnKeeps ==
  ASSUME FailInv, UNCHANGED <<now, authFailures, failures>>,
         \A a \in Clients : \/ count(authFailures, a, now) < Burst
                            \/ Pending(a)' \subseteq Pending(a)
  PROVE  FailInv'
<1>1. FailTypes' /\ WellSwept(authFailures, now)'
  BY DEF FailInv, FailTypes
<1>2. ASSUME NEW a \in Clients PROVE Counted(a)'
  <2>0. Counted(a) /\ FailTypes
    BY DEF FailInv
  <2>1. \A t \in Int : Seen(a, t)' = Seen(a, t) /\ Failed(a, t)' = Failed(a, t)
    BY DEF Seen, Failed
  <2>2. count(authFailures, a, now)' = count(authFailures, a, now)
    BY DEF count
  <2>3. Unrecorded(a)' <= Unrecorded(a)
    <3>1. CASE count(authFailures, a, now) < Burst
      BY <2>2, <3>1 DEF Unrecorded
    <3>2. CASE ~(count(authFailures, a, now) < Burst)
      <4>1. Pending(a)' \subseteq Pending(a)
        BY <3>2
      <4>2. Cardinality(Pending(a)') <= Cardinality(Pending(a))
        BY <4>1, PendingFinite, FS_Subset
      <4> QED
        BY <2>2, <3>2, <4>2 DEF Unrecorded
    <3> QED
      BY <3>1, <3>2
  <2>4. InWindow(a)'
    BY <2>0 DEF Counted, InWindow
  <2>5. OnlyFailures(a)'
    BY <2>0, <2>1 DEF Counted, OnlyFailures
  <2>6. Unrecorded(a)' \in Nat /\ Unrecorded(a) \in Nat
    BY UnrecordedType
  <2>7. FewUnrecorded(a)'
    <3> SUFFICES ASSUME NEW t \in Int, now <= t
                 PROVE  Failed(a, t) + Unrecorded(a)'
                          <= Cardinality(Conns) * Seen(a, t) + Cardinality(Conns) - 1
      BY <2>1 DEF FewUnrecorded
    <3>1. Failed(a, t) + Unrecorded(a)
            <= Cardinality(Conns) * Seen(a, t) + Cardinality(Conns) - 1
      BY <2>0 DEF Counted, FewUnrecorded
    <3>2. Failed(a, t) \in Nat /\ Seen(a, t) \in Nat
      BY <2>0, FailTypesOf
    <3> DEFINE bound == Cardinality(Conns) * Seen(a, t) + Cardinality(Conns) - 1
    <3>3. bound \in Int
      BY <3>2, ConnsCount
    <3> HIDE DEF bound
    <3>4. Failed(a, t) + Unrecorded(a) <= bound
      BY <3>1 DEF bound
    <3>5. Failed(a, t) + Unrecorded(a)' <= bound
      BY <3>2, <3>3, <3>4, <2>3, <2>6
    <3> QED
      BY <3>5 DEF bound
  <2>8. Seen(a, now)' <= Burst
    BY <2>0 DEF Counted, Seen
  <2> QED
    BY <2>4, <2>5, <2>7, <2>8 DEF Counted
<1> QED
  BY <1>1, <1>2 DEF FailInv

\* The arithmetic of a recorded failure: it pays for all that were in flight.
LEMMA RecordedPays ==
  ASSUME NEW n \in Nat, NEW s \in Nat, NEW f \in Nat, NEW u \in Nat,
         f <= n * s + n - 1, u <= n - 1
  PROVE  (f + 1) + u <= n * (s + 1) + n - 1
<1> DEFINE p == n * s
<1>1. n * (s + 1) = p + n /\ p \in Nat
  OBVIOUS
<1> HIDE DEF p
<1>2. f <= p + n - 1
  BY DEF p
<1> QED
  BY <1>1, <1>2

\* What a failure of c changes: one handshake less in flight for its client, one
\* failure more, and if the count is below the burst, one more on record.
LEMMA FailsFields ==
  ASSUME SlotInv, FailInv, NEW c \in Conns, conn[c].at = "handshake", Fails(c),
         NEW a \in Clients, a = conn[c].client
  PROVE  /\ now' = now
         /\ FailTypes' /\ WellSwept(authFailures, now)'
         /\ c \in Pending(a) /\ Pending(a)' = Pending(a) \ {c}
         /\ \A b \in Clients : b # a => Pending(b)' = Pending(b) /\ failures'[b] = failures[b]
         /\ failures'[a] = Append(failures[a], now)
         /\ \A b \in Clients, t \in Int : now <= t =>
              Recent(authFailures'.seen[b], t) =
                IF b = a /\ count(authFailures, a, now) < Burst /\ now > t - Window
                THEN Append(Recent(authFailures.seen[b], t), now)
                ELSE Recent(authFailures.seen[b], t)
<1>0. FailTypes /\ WellSwept(authFailures, now)
  BY DEF FailInv
<1>1. a \in Addrs /\ conn[c].peer = a
  BY HoldsUnlessIdle DEF SlotInv, HoldsSlot, Attributed, Idle, Clients
<1>2. /\ now' = now
      /\ authFailures' = allow(authFailures, a, now).lim
      /\ failures' = [failures EXCEPT ![a] = Append(@, now)]
      /\ conn' = [conn EXCEPT ![c] = Idle]
  BY <1>1 DEF Fails, Return
<1>3. conn'[c] = Idle /\ \A d \in Conns : d # c => conn'[d] = conn[d]
  BY <1>2 DEF SlotInv, SlotTypes
<1>4. /\ c \in Pending(a) /\ Pending(a)' = Pending(a) \ {c}
      /\ \A b \in Clients : b # a => Pending(b)' = Pending(b)
  BY <1>3 DEF Pending, Idle
<1>5. /\ failures'[a] = Append(failures[a], now)
      /\ \A b \in Clients : b # a => failures'[b] = failures[b]
  BY <1>0, <1>1, <1>2 DEF FailTypes
<1>6. Append(failures[a], now) \in Seq(Int)
  BY <1>0, <1>1, AppendProperties DEF FailTypes
<1>7. IsLimiter(authFailures) /\ now \in Int
  BY <1>0 DEF FailTypes
<1>8. /\ IsLimiter(authFailures')
      /\ \A b \in Addrs, t \in Int : now <= t =>
           Recent(authFailures'.seen[b], t) =
             IF b = a /\ count(authFailures, a, now) < Burst /\ now > t - Window
             THEN Append(Recent(authFailures.seen[b], t), now)
             ELSE Recent(authFailures.seen[b], t)
  BY <1>1, <1>2, <1>7, AllowCountsExactly
<1>9. WellSwept(authFailures', now')
  BY <1>0, <1>1, <1>2, <1>7, AllowSweeps
<1>10. FailTypes'
  BY <1>0, <1>1, <1>2, <1>6, <1>8 DEF FailTypes
<1> QED
  BY <1>1, <1>2, <1>4, <1>5, <1>8, <1>9, <1>10 DEF Clients

LEMMA FailsKeeps ==
  ASSUME SlotInv, FailInv, NEW c \in Conns, conn[c].at = "handshake", Fails(c)
  PROVE  FailInv'
<1>0. PICK a \in Clients : a = conn[c].client
  BY HoldsUnlessIdle DEF SlotInv, HoldsSlot
<1> DEFINE n == Cardinality(Conns)
           recorded == count(authFailures, a, now) < Burst
<1>1. /\ now' = now
      /\ FailTypes' /\ WellSwept(authFailures, now)'
      /\ c \in Pending(a) /\ Pending(a)' = Pending(a) \ {c}
      /\ \A b \in Clients : b # a => Pending(b)' = Pending(b) /\ failures'[b] = failures[b]
      /\ failures'[a] = Append(failures[a], now)
      /\ \A b \in Clients, t \in Int : now <= t =>
           Recent(authFailures'.seen[b], t) =
             IF b = a /\ recorded /\ now > t - Window
             THEN Append(Recent(authFailures.seen[b], t), now)
             ELSE Recent(authFailures.seen[b], t)
  BY <1>0, FailsFields
<1>2. FailTypes /\ now \in Int /\ now <= now /\ now > now - Window
  BY LimiterAssumption DEF FailInv, FailTypes
<1>3. ASSUME NEW b \in Clients, b # a PROVE Counted(b)'
  <2>1. Counted(b)
    BY DEF FailInv
  <2>2. failures'[b] = failures[b] /\ Pending(b)' = Pending(b)
    BY <1>1, <1>3
  <2>3. \A t \in Int : now <= t =>
          Recent(authFailures'.seen[b], t) = Recent(authFailures.seen[b], t)
    BY <1>1, <1>3
  <2>4. count(authFailures, b, now)' = count(authFailures, b, now)
    BY <1>1, <1>2, <2>3 DEF count
  <2>5. Unrecorded(b)' = Unrecorded(b)
    BY <2>2, <2>4 DEF Unrecorded
  <2>6. \A t \in Int : now <= t => Seen(b, t)' = Seen(b, t) /\ Failed(b, t)' = Failed(b, t)
    BY <2>2, <2>3 DEF Seen, Failed
  <2>7. InWindow(b)'
    BY <1>1, <2>1, <2>2 DEF Counted, InWindow
  <2>8. OnlyFailures(b)'
    BY <1>1, <2>1, <2>6 DEF Counted, OnlyFailures
  <2>9. FewUnrecorded(b)'
    BY <1>1, <2>1, <2>5, <2>6 DEF Counted, FewUnrecorded
  <2>10. Len(Recent(authFailures'.seen[b], now')) <= Burst
    BY <1>1, <1>2, <2>1, <2>3 DEF Counted, Seen
  <2> QED
    BY <2>7, <2>8, <2>9, <2>10 DEF Counted, Seen
<1>4. Counted(a)'
  <2>0. Counted(a)
    BY DEF FailInv
  <2>1. /\ authFailures.seen[a] \in Seq(Int) /\ failures[a] \in Seq(Int)
        /\ \A t \in Int : Seen(a, t) \in Nat /\ Failed(a, t) \in Nat
        /\ \A t \in Int : /\ Recent(authFailures.seen[a], t) \in Seq(Int)
                          /\ Recent(failures[a], t) \in Seq(Int)
    BY <1>2, <2>0, FailTypesOf, RecentType
  <2>2. \A t \in Int : Recent(failures'[a], t) =
          IF now > t - Window THEN Append(Recent(failures[a], t), now) ELSE Recent(failures[a], t)
    <3>1. failures'[a] = Append(failures[a], now)
      BY <1>1
    <3> QED
      BY <3>1, <1>2, <2>1, RecentAppend
  <2>3. \A t \in Int : now <= t =>
          Recent(authFailures'.seen[a], t) =
            IF recorded /\ now > t - Window THEN Append(Recent(authFailures.seen[a], t), now)
            ELSE Recent(authFailures.seen[a], t)
    BY <1>1, <2>0
  <2>4. \A t \in Int : Len(Recent(failures'[a], t)) =
          IF now > t - Window THEN Failed(a, t) + 1 ELSE Failed(a, t)
    <3> TAKE t \in Int
    <3>1. Len(Append(Recent(failures[a], t), now)) = Len(Recent(failures[a], t)) + 1
      BY <1>2, <2>1, AppendProperties
    <3> QED
      BY <3>1, <2>2 DEF Failed
  <2>5. \A t \in Int : now <= t =>
          Len(Recent(authFailures'.seen[a], t)) =
            IF recorded /\ now > t - Window THEN Seen(a, t) + 1 ELSE Seen(a, t)
    <3> SUFFICES ASSUME NEW t \in Int, now <= t
                 PROVE  Len(Recent(authFailures'.seen[a], t)) =
                          IF recorded /\ now > t - Window THEN Seen(a, t) + 1 ELSE Seen(a, t)
      OBVIOUS
    <3>1. Len(Append(Recent(authFailures.seen[a], t), now))
            = Len(Recent(authFailures.seen[a], t)) + 1
      BY <1>2, <2>1, AppendProperties
    <3> QED
      BY <3>1, <2>3 DEF Seen
  <2>6. recorded <=> Seen(a, now) < Burst
    BY DEF count, Seen
  <2> HIDE DEF recorded
  <2>7. InWindow(a)'
    <3>1. Recent(failures'[a], now) = failures'[a]
      BY <1>1, <1>2, <2>0, <2>2 DEF Counted, InWindow
    <3>2. ASSUME NEW t \in Int, now + Window <= t PROVE Recent(failures'[a], t) = <<>>
      <4>1. ~(now > t - Window)
        BY <1>2, <3>2, LimiterAssumption
      <4>2. Recent(failures[a], t) = <<>>
        BY <2>0, <3>2 DEF Counted, InWindow
      <4> QED
        BY <4>1, <4>2, <2>2
    <3> QED
      BY <1>1, <3>1, <3>2 DEF InWindow
  <2>8. OnlyFailures(a)'
    <3> SUFFICES ASSUME NEW t \in Int, now <= t
                 PROVE  Len(Recent(authFailures'.seen[a], t)) <= Len(Recent(failures'[a], t))
      BY <1>1 DEF OnlyFailures, Seen, Failed
    <3>1. Seen(a, t) <= Failed(a, t)
      BY <2>0 DEF Counted, OnlyFailures
    <3>2. Seen(a, t) \in Nat /\ Failed(a, t) \in Nat
      BY <2>1
    <3>3. /\ Len(Recent(failures'[a], t)) =
               IF now > t - Window THEN Failed(a, t) + 1 ELSE Failed(a, t)
          /\ \/ Len(Recent(authFailures'.seen[a], t)) = Seen(a, t)
             \/ /\ Len(Recent(authFailures'.seen[a], t)) = Seen(a, t) + 1
                /\ now > t - Window
      BY <2>4, <2>5
    <3> QED
      BY <3>1, <3>2, <3>3
  <2>9. Len(Recent(authFailures'.seen[a], now')) <= Burst
    <3>1. Seen(a, now) <= Burst /\ Seen(a, now) \in Nat
      BY <1>2, <2>0, <2>1 DEF Counted
    <3> QED
      BY <3>1, <1>1, <1>2, <2>5, <2>6, LimiterAssumption
  <2>10. FewUnrecorded(a)'
    <3> SUFFICES ASSUME NEW t \in Int, now <= t
                 PROVE  Len(Recent(failures'[a], t)) + Unrecorded(a)'
                          <= n * Len(Recent(authFailures'.seen[a], t)) + n - 1
      BY <1>1 DEF FewUnrecorded, Seen, Failed
    <3> DEFINE s == Seen(a, t)
               f == Failed(a, t)
               u == Unrecorded(a)'
    <3>1. s \in Nat /\ f \in Nat /\ u \in Nat /\ Unrecorded(a) \in Nat /\ n \in Nat
      BY <2>1, UnrecordedType, ConnsCount
    <3>2. f + Unrecorded(a) <= n * s + n - 1
      BY <2>0 DEF Counted, FewUnrecorded
    <3>3. u <= n - 1
      <4>1. Pending(a)' \subseteq Conns \ {c}
        BY <1>1 DEF Pending
      <4>2. IsFiniteSet(Conns \ {c}) /\ Cardinality(Conns \ {c}) = n - 1
        BY AdmissionAssumption, FS_RemoveElement
      <4>3. Cardinality(Pending(a)') <= n - 1
        BY <4>1, <4>2, FS_Subset
      <4>4. n - 1 >= 0
        BY <3>1, ConnsCount
      <4> QED
        BY <3>1, <4>3, <4>4 DEF Unrecorded
    <3> HIDE DEF s, f, u, n
    <3>4. CASE ~(now > t - Window)
      <4>1. Recent(failures[a], t) = <<>>
        <5>1. now + Window <= t
          BY <3>4, <1>2, LimiterAssumption
        <5> QED
          BY <5>1, <2>0 DEF Counted, InWindow
      <4>2. f = 0
        <5>1. Len(<<>>) = 0
          BY EmptySeq, Zenon
        <5> QED
          BY <4>1, <5>1 DEF f, Failed
      <4>3. /\ Len(Recent(failures'[a], t)) = 0
            /\ Len(Recent(authFailures'.seen[a], t)) = s
        BY <3>4, <4>2, <2>4, <2>5 DEF f, s
      <4>4. n * s \in Nat
        BY <3>1
      <4>5. 0 + u <= n * s + n - 1
        BY <3>1, <3>3, <4>4
      <4> QED
        BY <4>3, <4>5 DEF u
    <3>5. CASE now > t - Window /\ recorded
      <4>1. /\ Len(Recent(failures'[a], t)) = f + 1
            /\ Len(Recent(authFailures'.seen[a], t)) = s + 1
        BY <3>5, <2>4, <2>5 DEF f, s
      <4>2. f <= n * s + n - 1
        <5> DEFINE bound == n * s + n - 1
        <5>1. bound \in Int
          BY <3>1
        <5> HIDE DEF bound
        <5>2. f <= bound
          BY <5>1, <3>1, <3>2 DEF bound
        <5> QED
          BY <5>2 DEF bound
      <4>3. (f + 1) + u <= n * (s + 1) + n - 1
        BY <3>1, <3>3, <4>2, RecordedPays
      <4> QED
        BY <4>1, <4>3 DEF u
    <3>6. CASE now > t - Window /\ ~recorded
      <4>1. /\ Len(Recent(failures'[a], t)) = f + 1
            /\ Len(Recent(authFailures'.seen[a], t)) = s
        BY <3>6, <2>4, <2>5 DEF f, s
      <4>2. u + 1 = Unrecorded(a)
        <5>1. Unrecorded(a) = Cardinality(Pending(a))
          BY <3>6 DEF Unrecorded, recorded
        <5>2. Len(Recent(authFailures'.seen[a], now)) = Seen(a, now)
          BY <3>6, <1>2, <2>5
        <5>3. ~(count(authFailures, a, now)' < Burst)
          BY <3>6, <5>2, <2>6, <1>1 DEF count
        <5>4. Unrecorded(a)' = Cardinality(Pending(a) \ {c})
          BY <5>3, <1>1 DEF Unrecorded
        <5>5. Cardinality(Pending(a) \ {c}) = Cardinality(Pending(a)) - 1
          BY <1>1, PendingFinite, FS_RemoveElement
        <5> QED
          BY <5>1, <5>4, <5>5, PendingFinite DEF u
      <4>3. (f + 1) + u = f + Unrecorded(a)
        BY <3>1, <4>2
      <4> QED
        BY <4>1, <4>3, <3>2 DEF u
    <3> QED
      BY <3>4, <3>5, <3>6
  <2> QED
    BY <2>7, <2>8, <2>9, <2>10 DEF Counted, Seen
<1> QED
  BY <1>1, <1>3, <1>4 DEF FailInv

\* As time passes, counts only fall, and what is pruned of the failures is of no
\* more interest at any later time.
LEMMA TickKeeps ==
  ASSUME FailInv, Tick
  PROVE  FailInv'
<1>0. FailTypes /\ WellSwept(authFailures, now)
  BY DEF FailInv
<1>1. /\ now' = now + 1 /\ now \in Int /\ now' \in Int /\ now <= now'
      /\ authFailures' = authFailures /\ conn' = conn
      /\ failures' = [a \in Clients |-> Recent(failures[a], now')]
  BY <1>0 DEF Tick, FailTypes
<1>2. \A a \in Clients : /\ failures[a] \in Seq(Int)
                         /\ Recent(failures[a], now') \in Seq(Int)
                         /\ failures'[a] = Recent(failures[a], now')
  BY <1>0, <1>1, RecentType DEF FailTypes
<1>3. FailTypes'
  BY <1>0, <1>1, <1>2 DEF FailTypes
<1>4. WellSwept(authFailures', now')
  <2>1. authFailures.lastSweep \in Int
    BY <1>0 DEF FailTypes, IsLimiter
  <2>2. ASSUME NEW b \in Addrs, authFailures.seen[b] # <<>>
        PROVE  authFailures.seen[b][Len(authFailures.seen[b])] <= now'
    <3>1. authFailures.seen[b] \in Seq(Int)
      BY <1>0 DEF FailTypes, IsLimiter
    <3>2. authFailures.seen[b][Len(authFailures.seen[b])] \in Int
      BY <2>2, <3>1, ElementOfSeq, EmptySeq, LenProperties
    <3> QED
      BY <1>0, <1>1, <2>2, <3>2 DEF WellSwept
  <2> QED
    BY <1>0, <1>1, <2>1, <2>2 DEF WellSwept
<1>5. ASSUME NEW a \in Clients PROVE Counted(a)'
  <2>0. Counted(a)
    BY DEF FailInv
  <2>1. authFailures.seen[a] \in Seq(Int)
    BY <1>0, <1>1, FailTypesOf
  <2>2. \A t \in Int : now' <= t => now <= t
    BY <1>1
  <2>3. \A t \in Int : Seen(a, t)' = Seen(a, t)
    BY <1>1 DEF Seen
  <2>4. ASSUME NEW t \in Int, now' <= t
        PROVE  Recent(failures'[a], t) = Recent(failures[a], t)
    BY <2>4, <1>1, <1>2, RecentOfRecent
  <2>5. \A t \in Int : now' <= t => Failed(a, t)' = Failed(a, t)
    BY <2>4 DEF Failed
  <2>6. Len(Recent(authFailures.seen[a], now')) <= Len(Recent(authFailures.seen[a], now))
    BY <1>1, <2>1, RecentShrinks
  <2>7. /\ Len(Recent(authFailures.seen[a], now')) \in Nat
        /\ Len(Recent(authFailures.seen[a], now)) \in Nat
    BY <1>1, <2>1, RecentType
  <2>8. Unrecorded(a)' <= Unrecorded(a)
    <3>1. Pending(a)' = Pending(a)
      BY <1>1 DEF Pending
    <3>2. count(authFailures, a, now) < Burst => count(authFailures', a, now') < Burst
      BY <1>1, <2>6, <2>7, LimiterAssumption DEF count
    <3> QED
      BY <3>1, <3>2, PendingFinite DEF Unrecorded
  <2>9. InWindow(a)'
    <3>1. Recent(failures'[a], now') = failures'[a]
      BY <1>1, <1>2, <2>4
    <3>2. ASSUME NEW t \in Int, now' + Window <= t PROVE Recent(failures'[a], t) = <<>>
      <4>1. now' <= t /\ now + Window <= t
        BY <1>1, <3>2, LimiterAssumption
      <4> QED
        BY <4>1, <2>0, <2>4 DEF Counted, InWindow
    <3> QED
      BY <3>1, <3>2 DEF InWindow
  <2>10. OnlyFailures(a)'
    BY <2>0, <2>2, <2>3, <2>5 DEF Counted, OnlyFailures
  <2>11. FewUnrecorded(a)'
    <3> SUFFICES ASSUME NEW t \in Int, now' <= t
                 PROVE  Failed(a, t) + Unrecorded(a)'
                          <= Cardinality(Conns) * Seen(a, t) + Cardinality(Conns) - 1
      BY <2>3, <2>5 DEF FewUnrecorded
    <3> DEFINE bound == Cardinality(Conns) * Seen(a, t) + Cardinality(Conns) - 1
    <3>1. Failed(a, t) + Unrecorded(a) <= bound
      BY <2>0, <2>2 DEF Counted, FewUnrecorded
    <3>2. Failed(a, t) \in Nat /\ Seen(a, t) \in Nat
      BY <1>0, FailTypesOf
    <3>3. bound \in Int /\ Unrecorded(a) \in Nat /\ Unrecorded(a)' \in Nat
      BY <3>2, ConnsCount, UnrecordedType
    <3> HIDE DEF bound
    <3>4. Failed(a, t) + Unrecorded(a)' <= bound
      BY <3>1, <3>2, <3>3, <2>8
    <3> QED
      BY <3>4 DEF bound
  <2>12. Seen(a, now)' <= Burst
    <3>1. Len(Recent(authFailures.seen[a], now)) <= Burst
      BY <2>0 DEF Counted, Seen
    <3> QED
      BY <3>1, <1>1, <2>6, <2>7, LimiterAssumption DEF Seen
  <2> QED
    BY <2>9, <2>10, <2>11, <2>12 DEF Counted
<1> QED
  BY <1>3, <1>4, <1>5 DEF FailInv

\* A handshake begins only for an address whose count is below the burst; every
\* other step of a connection leaves those in flight as they are, or fewer.
LEMMA OtherStepsKeep ==
  ASSUME SlotInv, FailInv, NEW c \in Conns,
         \/ TakeSlot(c) \/ RefuseSlot(c) \/ CheckFailures(c)
         \/ HandshakeOK(c) \/ HandlerReturns(c)
  PROVE  FailInv'
<1>0. SlotTypes /\ Attributed
  BY DEF SlotInv
<1>1. UNCHANGED <<now, authFailures, failures>>
  BY DEF TakeSlot, RefuseSlot, CheckFailures, RefuseBlocked, StartHandshake, HandshakeOK,
         HandlerReturns, admVars
<1>2. \A d \in Conns : d # c => conn'[d] = conn[d]
  BY <1>0 DEF TakeSlot, RefuseSlot, CheckFailures, RefuseBlocked, StartHandshake,
              HandshakeOK, HandlerReturns, admVars, Goto, Return, SlotTypes
<1>3. CASE TakeSlot(c) \/ RefuseSlot(c) \/ RefuseBlocked(c) \/ HandshakeOK(c) \/ HandlerReturns(c)
  <2>1. conn'[c].at # "handshake"
    <3>1. CASE TakeSlot(c)
      <4>1. PICK k \in Kinds, a \in Clients : \E peer \in Attributions(k, a) :
              conn' = [conn EXCEPT ![c] =
                [at |-> "check", kind |-> k, peer |-> peer, client |-> a]]
        BY <3>1 DEF TakeSlot
      <4> QED
        BY <4>1, <1>0 DEF SlotTypes
    <3>2. CASE RefuseSlot(c)
      BY <3>2 DEF RefuseSlot, admVars, Idle
    <3>3. CASE RefuseBlocked(c) \/ HandlerReturns(c)
      BY <3>3, <1>0 DEF RefuseBlocked, HandlerReturns, Return, SlotTypes, Idle
    <3>4. CASE HandshakeOK(c)
      <4>1. conn[c] \in Conn
        BY <3>4, <1>0, HoldsUnlessIdle DEF HandshakeOK, HoldsSlot
      <4>2. conn'[c] = [conn[c] EXCEPT !.at = "serving"]
        BY <3>4, <1>0 DEF HandshakeOK, Goto, SlotTypes
      <4> QED
        BY <4>1, <4>2 DEF Conn
    <3> QED
      BY <1>3, <3>1, <3>2, <3>3, <3>4
  <2>2. \A a \in Clients : Pending(a)' \subseteq Pending(a)
    BY <1>2, <2>1 DEF Pending
  <2> QED
    BY <1>1, <2>2, ConnKeeps
<1>4. CASE StartHandshake(c)
  <2>1. conn[c] \in Conn /\ conn[c].peer = conn[c].client
    BY <1>0, <1>4, HoldsUnlessIdle DEF StartHandshake, HoldsSlot, Attributed
  <2>2. conn'[c] = [conn[c] EXCEPT !.at = "handshake"]
    BY <1>0, <1>4 DEF StartHandshake, Goto, SlotTypes
  <2>3. conn'[c].client = conn[c].client
    BY <2>1, <2>2 DEF Conn
  <2>4. ASSUME NEW a \in Clients
        PROVE  count(authFailures, a, now) < Burst \/ Pending(a)' \subseteq Pending(a)
    <3>1. CASE a = conn[c].client
      <4>1. ~(count(authFailures, a, now) >= Burst)
        BY <1>4, <2>1, <3>1 DEF StartHandshake, Blocked
      <4>2. count(authFailures, a, now) \in Nat
        BY FailTypesOf DEF FailInv, FailTypes, Seen, count
      <4> QED
        BY <4>1, <4>2, LimiterAssumption
    <3>2. CASE a # conn[c].client
      BY <1>2, <2>3, <3>2 DEF Pending
    <3> QED
      BY <3>1, <3>2
  <2> QED
    BY <1>1, <2>4, ConnKeeps
<1> QED
  BY <1>3, <1>4 DEF CheckFailures

LEMMA FailNext == SlotInv /\ FailInv /\ [AdmNext]_admVars => FailInv'
<1> SUFFICES ASSUME SlotInv, FailInv, [AdmNext]_admVars PROVE FailInv'
  OBVIOUS
<1>1. ASSUME NEW c \in Conns, HandshakeErr(c) \/ Deadline(c) PROVE FailInv'
  BY <1>1, FailsKeeps DEF HandshakeErr, Deadline
<1>2. ASSUME NEW c \in Conns,
             \/ TakeSlot(c) \/ RefuseSlot(c) \/ CheckFailures(c)
             \/ HandshakeOK(c) \/ HandlerReturns(c)
      PROVE  FailInv'
  BY <1>2, OtherStepsKeep
<1>3. CASE Tick
  BY <1>3, TickKeeps
<1>4. CASE UNCHANGED admVars
  BY <1>4 DEF admVars, FailInv, FailTypes, Counted, InWindow, OnlyFailures, FewUnrecorded,
              Seen, Failed, Unrecorded, Pending
<1> QED
  BY <1>1, <1>2, <1>3, <1>4 DEF AdmNext

LEMMA FailInvariance == AdmSpec => [](SlotInv /\ FailInv)
BY FailInit, FailNext, SlotInvInit, SlotInvNext, PTL DEF AdmSpec

LEMMA BurstTimes ==
  ASSUME NEW n \in Nat, NEW s \in Nat, NEW b \in Nat, s <= b
  PROVE  n * s + n - 1 <= b + (b + 1) * (n - 1)
<1>1. n * s <= n * b
  <2>1. PICK d \in Nat : b = s + d
    <3>1. b - s \in Nat /\ b = s + (b - s)
      OBVIOUS
    <3> QED
      BY <3>1
  <2>2. n * b = n * s + n * d /\ n * d \in Nat /\ n * s \in Nat
    BY <2>1
  <2> QED
    BY <2>2
<1>2. b + (b + 1) * (n - 1) = n * b + n - 1
  OBVIOUS
<1>3. n * s \in Int /\ n * b \in Int
  OBVIOUS
<1> QED
  BY <1>1, <1>2, <1>3

\* However its handshakes overlap, an address fails at most so often in one window:
\* each recorded failure stands for itself and those in flight with it, and one
\* more group may reach into the window from before it (limiter.count before the
\* handshake, limiter.allow after it).
THEOREM GuessesAreBounded == AdmSpec => []GuessesBounded
<1>1. FailInv => GuessesBounded
  <2> SUFFICES ASSUME FailInv, NEW a \in Clients
               PROVE  Len(failures[a]) <= Burst + (Burst + 1) * (Cardinality(Conns) - 1)
    BY DEF GuessesBounded
  <2> DEFINE n == Cardinality(Conns)
             s == Seen(a, now)
  <2>1. Counted(a) /\ FailTypes /\ now \in Int /\ now <= now
    BY DEF FailInv, FailTypes
  <2>2. s \in Nat /\ s <= Burst /\ Failed(a, now) \in Nat
    BY <2>1, FailTypesOf DEF Counted
  <2>3. Len(failures[a]) = Failed(a, now)
    BY <2>1 DEF Counted, InWindow, Failed
  <2>4. Failed(a, now) + Unrecorded(a) <= n * s + n - 1
    BY <2>1 DEF Counted, FewUnrecorded
  <2>5. Unrecorded(a) \in Nat /\ n \in Nat /\ Burst \in Nat
    BY UnrecordedType, ConnsCount, LimiterAssumption
  <2> HIDE DEF n, s
  <2>6. n * s + n - 1 <= Burst + (Burst + 1) * (n - 1)
    BY <2>2, <2>5, BurstTimes
  <2> DEFINE x == n * s + n - 1
             y == Burst + (Burst + 1) * (n - 1)
  <2>7. x \in Int /\ y \in Int
    BY <2>2, <2>5
  <2> HIDE DEF x, y
  <2>8. Failed(a, now) + Unrecorded(a) <= x /\ x <= y
    BY <2>4, <2>6 DEF x, y
  <2>9. Failed(a, now) <= y
    BY <2>2, <2>5, <2>7, <2>8
  <2> QED
    BY <2>3, <2>9 DEF y, n
<1> QED
  BY <1>1, FailInvariance, PTL

\* The map holds no address whose newest event is older than a window before the
\* last sweep, for any number of addresses and any order of calls (sweepLocked).
THEOREM StaleAddressesAreSwept == AdmSpec => []StaleAddressesSwept
<1>1. FailInv => StaleAddressesSwept
  BY DEF FailInv, WellSwept, StaleAddressesSwept
<1> QED
  BY <1>1, FailInvariance, PTL

\* A connection is turned away only when the client that is really behind it has
\* itself failed Burst times in the window that ends now (limiter.count on the
\* address realClientHost attributes it to).
THEOREM OnlyGuessersAreRefused == AdmSpec => RefusedOnlyGuessers
<1>1. SlotInv /\ FailInv =>
        \A c \in Conns : RefuseBlocked(c) => Len(Recent(failures[conn[c].client], now)) >= Burst
  <2> SUFFICES ASSUME SlotInv, FailInv, NEW c \in Conns, RefuseBlocked(c)
               PROVE  Len(Recent(failures[conn[c].client], now)) >= Burst
    OBVIOUS
  <2>1. PICK a \in Clients : a = conn[c].client /\ a = conn[c].peer
    BY HoldsUnlessIdle DEF RefuseBlocked, SlotInv, HoldsSlot, Attributed
  <2>2. Counted(a) /\ FailTypes /\ now \in Int /\ now <= now
    BY DEF FailInv, FailTypes
  <2>3. Seen(a, now) >= Burst
    BY <2>1 DEF RefuseBlocked, Blocked, count, Seen
  <2>4. Seen(a, now) <= Failed(a, now) /\ Seen(a, now) \in Nat /\ Failed(a, now) \in Nat
    BY <2>2, FailTypesOf DEF Counted, OnlyFailures
  <2> QED
    BY <2>1, <2>3, <2>4, LimiterAssumption DEF Failed
<1>2. SlotInv /\ FailInv /\ [AdmNext]_admVars =>
        [\A c \in Conns : RefuseBlocked(c) =>
           Len(Recent(failures[conn[c].client], now)) >= Burst]_admVars
  BY <1>1
<1> QED
  BY <1>2, FailInvariance, PTL DEF AdmSpec, RefusedOnlyGuessers

-----------------------------------------------------------------------------
(* Types.                                                                       *)

\* The clock is within its bound, and a listener without a limit counts nothing.
Bounds ==
  /\ now \in 0..MaxClock
  /\ \A k \in Kinds : MaxSlots[k] = 0 => used[k] = 0

LEMMA BoundsNext == SlotInv /\ Bounds /\ [AdmNext]_admVars => Bounds'
<1> SUFFICES ASSUME SlotInv, Bounds, [AdmNext]_admVars PROVE Bounds'
  OBVIOUS
<1>0. used \in [Kinds -> Int]
  BY DEF SlotInv, SlotTypes
<1>1. ASSUME NEW c \in Conns, TakeSlot(c) PROVE Bounds'
  <2>1. now' = now /\ \E k \in Kinds : take(k)
    BY <1>1 DEF TakeSlot
  <2> QED
    BY <1>0, <2>1 DEF Bounds, take
<1>2. ASSUME NEW c \in Conns,
             RefuseBlocked(c) \/ HandshakeErr(c) \/ Deadline(c) \/ HandlerReturns(c)
      PROVE  Bounds'
  <2>1. now' = now /\ give(conn[c].kind)
    BY <1>2 DEF RefuseBlocked, HandshakeErr, Deadline, HandlerReturns, Fails, Return
  <2> QED
    BY <1>0, <2>1 DEF Bounds, give
<1>3. CASE Tick
  BY <1>3, AdmissionAssumption DEF Tick, Bounds
<1>4. ASSUME UNCHANGED <<now, used>> PROVE Bounds'
  BY <1>4 DEF Bounds
<1>5. ASSUME NEW c \in Conns, RefuseSlot(c) \/ StartHandshake(c) \/ HandshakeOK(c)
      PROVE  Bounds'
  BY <1>4, <1>5 DEF RefuseSlot, StartHandshake, HandshakeOK, admVars
<1>6. CASE UNCHANGED admVars
  BY <1>4, <1>6 DEF admVars
<1> QED
  BY <1>1, <1>2, <1>3, <1>5, <1>6 DEF AdmNext, CheckFailures

\* Every variable keeps to its type: in particular no listener's count of slots
\* goes below zero, and the limiter's times stay a slice per address.
THEOREM AdmissionTypes == AdmSpec => []AdmTypeOK
<1>1. AdmInit => Bounds
  BY AdmissionAssumption DEF AdmInit, Bounds
<1>2. SlotInv /\ FailInv /\ Bounds => AdmTypeOK
  <2> SUFFICES ASSUME SlotInv, FailInv, Bounds PROVE AdmTypeOK
    OBVIOUS
  <2>1. ASSUME NEW k \in Kinds PROVE used[k] \in Nat
    <3>1. CASE MaxSlots[k] = 0
      BY <3>1 DEF Bounds
    <3>2. CASE MaxSlots[k] # 0
      <4>1. used[k] = Cardinality(Holders(k))
        BY <3>2 DEF SlotInv, SlotsConserved, Holders
      <4> QED
        BY <4>1, HoldersFinite
    <3> QED
      BY <3>1, <3>2
  <2>2. used \in [Kinds -> Nat]
    BY <2>1 DEF SlotInv, SlotTypes
  <2> QED
    BY <2>2 DEF AdmTypeOK, Bounds, SlotInv, SlotTypes, FailInv, FailTypes
<1> QED
  BY <1>1, <1>2, BoundsNext, FailInvariance, PTL DEF AdmSpec
=============================================================================
