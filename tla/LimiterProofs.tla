--------------------------- MODULE LimiterProofs ---------------------------
(* What the limiter computes, for slices of any length and any order of times. *)
(* Recent is a loop over a slice, so its facts are proved by induction. The    *)
(* library's induction theorems take a predicate, which the provers cannot      *)
(* instantiate; here the predicate is a set (Least, Induct, SeqInduct).         *)
EXTENDS Limiter, SequenceTheorems, WellFoundedInduction, TLAPS

\* Every nonempty set of natural numbers has a least element.
LEMMA Least ==
  ASSUME NEW T, T \subseteq Nat, T # {}
  PROVE  \E x \in T : \A y \in T : x <= y
<1> DEFINE R == OpToRel(<, Nat)
<1>1. IsWellFoundedOn(R, Nat)
  BY NatLessThanWellFounded
<1>2. \A x, y \in Nat : x < y => <<x, y>> \in R
  BY DEF OpToRel
<1> HIDE DEF R
<1>3. PICK x \in T : \A y \in T : ~(<<y, x>> \in R)
  BY <1>1, WFMin
<1>4. \A y \in T : ~(y < x)
  BY <1>2, <1>3
<1> QED
  BY <1>4

\* Induction over the natural numbers, for a set of them.
LEMMA Induct ==
  ASSUME NEW T, 0 \in T, \A n \in Nat : n \in T => n + 1 \in T
  PROVE  \A n \in Nat : n \in T
<1> SUFFICES ASSUME Nat \ T # {} PROVE FALSE
  OBVIOUS
<1>1. PICK x \in Nat \ T : \A y \in Nat \ T : x <= y
  BY Least
<1>2. x # 0 /\ x - 1 \in Nat
  BY <1>1
<1>3. x - 1 \in T
  BY <1>1, <1>2
<1> QED
  BY <1>2, <1>3

\* Induction over the slices of times, for a set of them.
LEMMA SeqInduct ==
  ASSUME NEW T, <<>> \in T,
         \A s \in Seq(Int), x \in Int : s \in T => Append(s, x) \in T
  PROVE  \A s \in Seq(Int) : s \in T
<1> DEFINE U == {n \in Nat : \A s \in Seq(Int) : Len(s) = n => s \in T}
<1>1. 0 \in U
  BY EmptySeq, Zenon
<1>2. ASSUME NEW n \in Nat, n \in U PROVE n + 1 \in U
  <2> SUFFICES ASSUME NEW s \in Seq(Int), Len(s) = n + 1 PROVE s \in T
    OBVIOUS
  <2>1. s # <<>>
    BY EmptySeq
  <2>2. PICK q \in Seq(Int), x \in Int : s = Append(q, x)
    BY <2>1, SequenceEmptyOrAppend
  <2>3. Len(q) = n
    BY <2>2, AppendProperties, LenProperties
  <2> QED
    BY <1>2, <2>2, <2>3
<1> HIDE DEF U
<1>3. \A n \in Nat : n \in U
  BY <1>1, <1>2, Induct
<1> QED
  BY <1>3, LenProperties DEF U

-----------------------------------------------------------------------------
(* The loop of count and allow.                                                *)

\* What one round of the loop makes of f, the rounds before it.
Round(s, now, f, i) ==
  IF i = 0 THEN <<>>
  ELSE IF s[i] > now - Window THEN Append(f[i - 1], s[i])
  ELSE f[i - 1]

\* f holds the results of the first n rounds.
Runs(s, now, n, f) == f = [i \in 0..n |-> Round(s, now, f, i)]

LEMMA LoopExists ==
  ASSUME NEW s, NEW now, NEW n \in Nat
  PROVE  \E f : Runs(s, now, n, f)
<1> DEFINE U == {m \in Nat : \E f : Runs(s, now, m, f)}
<1>1. 0 \in U
  <2> DEFINE f == [i \in 0..0 |-> <<>>]
  <2>1. f = [i \in 0..0 |-> Round(s, now, f, i)]
    BY DEF Round
  <2> QED
    BY <2>1 DEF Runs
<1>2. ASSUME NEW m \in Nat, m \in U PROVE m + 1 \in U
  <2>1. PICK f : Runs(s, now, m, f)
    BY <1>2
  <2> DEFINE g == [i \in 0..(m + 1) |-> IF i = m + 1 THEN Round(s, now, f, i) ELSE f[i]]
  <2>2. \A i \in 0..(m + 1) : i # 0 => i - 1 \in 0..(m + 1) /\ g[i - 1] = f[i - 1]
    OBVIOUS
  <2>3. \A i \in 0..(m + 1) : Round(s, now, g, i) = Round(s, now, f, i)
    BY <2>2 DEF Round
  <2>4. \A i \in 0..m : f[i] = Round(s, now, f, i)
    BY <2>1 DEF Runs
  <2>5. \A i \in 0..(m + 1) : g[i] = Round(s, now, g, i)
    BY <2>3, <2>4
  <2>6. g = [i \in 0..(m + 1) |-> Round(s, now, g, i)]
    BY <2>5, Zenon
  <2>7. Runs(s, now, m + 1, g)
    BY <2>6 DEF Runs
  <2>8. \E h : Runs(s, now, m + 1, h)
    <3> HIDE DEF g
    <3> QED
      BY <2>7
  <2> QED
    BY <2>8
<1> HIDE DEF U
<1>3. \A m \in Nat : m \in U
  BY <1>1, <1>2, Induct
<1> QED
  BY <1>3 DEF U

\* The result of a round depends on the elements up to it alone.
LEMMA LoopUnique ==
  ASSUME NEW s, NEW q, NEW now, NEW n \in Nat, NEW m \in Nat, n <= m,
         \A i \in 1..n : s[i] = q[i],
         NEW f, Runs(s, now, n, f), NEW g, Runs(q, now, m, g)
  PROVE  f[n] = g[n]
<1> DEFINE U == {k \in Nat : k <= n => f[k] = g[k]}
<1>0. /\ \A i \in 0..n : f[i] = Round(s, now, f, i)
      /\ \A i \in 0..m : g[i] = Round(q, now, g, i)
  BY DEF Runs
<1>1. 0 \in U
  BY <1>0 DEF Round
<1>2. ASSUME NEW k \in Nat, k \in U PROVE k + 1 \in U
  <2> SUFFICES ASSUME k + 1 <= n PROVE f[k + 1] = g[k + 1]
    OBVIOUS
  <2>1. f[k] = g[k] /\ s[k + 1] = q[k + 1] /\ k + 1 # 0 /\ (k + 1) - 1 = k
    BY <1>2
  <2>2. f[k + 1] = Round(s, now, f, k + 1) /\ g[k + 1] = Round(q, now, g, k + 1)
    BY <1>0
  <2> QED
    BY <2>1, <2>2 DEF Round
<1> HIDE DEF U
<1>3. \A k \in Nat : k \in U
  BY <1>1, <1>2, Induct
<1> QED
  BY <1>3 DEF U

\* Recent is the last round of the loop.
LEMMA RecentRuns ==
  ASSUME NEW s \in Seq(Int), NEW now \in Int
  PROVE  \E f : Runs(s, now, Len(s), f) /\ Recent(s, now) = f[Len(s)]
<1> DEFINE f == CHOOSE f : Runs(s, now, Len(s), f)
<1>1. Runs(s, now, Len(s), f)
  BY LoopExists, LenProperties, Zenon
<1>2. Recent(s, now) = f[Len(s)]
  BY DEF Recent, Runs, Round
<1> QED
  BY <1>1, <1>2

\* Nothing is kept of nothing, ...
LEMMA RecentEmpty ==
  ASSUME NEW now \in Int
  PROVE  Recent(<<>>, now) = <<>>
<1>1. <<>> \in Seq(Int) /\ Len(<<>>) = 0
  BY EmptySeq, Zenon
<1>2. PICK f : Runs(<<>>, now, 0, f) /\ Recent(<<>>, now) = f[0]
  BY <1>1, RecentRuns
<1>3. f[0] = Round(<<>>, now, f, 0)
  BY <1>2 DEF Runs
<1> QED
  BY <1>2, <1>3 DEF Round

\* ... and of a slice that is one longer, its last element if that is recent.
LEMMA RecentAppend ==
  ASSUME NEW s \in Seq(Int), NEW x \in Int, NEW now \in Int
  PROVE  Recent(Append(s, x), now) =
           IF x > now - Window THEN Append(Recent(s, now), x) ELSE Recent(s, now)
<1> DEFINE q == Append(s, x)
           n == Len(s)
<1>1. /\ q \in Seq(Int) /\ n \in Nat /\ Len(q) = n + 1 /\ q[n + 1] = x
      /\ \A i \in 1..n : s[i] = q[i]
  BY AppendProperties, LenProperties
<1>2. PICK f : Runs(s, now, n, f) /\ Recent(s, now) = f[n]
  BY RecentRuns
<1>3. PICK g : Runs(q, now, n + 1, g) /\ Recent(q, now) = g[n + 1]
  BY <1>1, RecentRuns
<1> HIDE DEF q, n
<1>4. f[n] = g[n]
  BY <1>1, <1>2, <1>3, LoopUnique
<1>5. g[n + 1] = Round(q, now, g, n + 1)
  <2>1. n + 1 \in 0..(n + 1)
    BY <1>1
  <2> QED
    BY <1>3, <2>1 DEF Runs
<1>6. n + 1 # 0 /\ (n + 1) - 1 = n
  BY <1>1
<1> QED
  BY <1>1, <1>2, <1>3, <1>4, <1>5, <1>6 DEF Round, q

LEMMA RecentType ==
  ASSUME NEW s \in Seq(Int), NEW now \in Int
  PROVE  Recent(s, now) \in Seq(Int) /\ Len(Recent(s, now)) \in Nat
<1> DEFINE T == {q \in Seq(Int) : Recent(q, now) \in Seq(Int)}
<1>1. <<>> \in T
  BY EmptySeq, RecentEmpty, Zenon
<1>2. ASSUME NEW q \in Seq(Int), NEW x \in Int, q \in T PROVE Append(q, x) \in T
  BY <1>2, RecentAppend, AppendProperties
<1> HIDE DEF T
<1>3. s \in T
  BY <1>1, <1>2, SeqInduct
<1> QED
  BY <1>3, LenProperties DEF T

\* Pruning at one time changes nothing of what is recent at a later one: allow
\* stores what it has kept, and counts from that the next time.
LEMMA RecentOfRecent ==
  ASSUME NEW s \in Seq(Int), NEW now \in Int, NEW t \in Int, now <= t
  PROVE  Recent(Recent(s, now), t) = Recent(s, t)
<1> DEFINE T == {q \in Seq(Int) : Recent(Recent(q, now), t) = Recent(q, t)}
<1>1. <<>> \in T
  BY EmptySeq, RecentEmpty, Zenon
<1>2. ASSUME NEW q \in Seq(Int), NEW x \in Int, q \in T PROVE Append(q, x) \in T
  <2>1. Append(q, x) \in Seq(Int)
    BY AppendProperties
  <2>2. Recent(q, now) \in Seq(Int)
    BY RecentType
  <2>3. Recent(Recent(q, now), t) = Recent(q, t)
    BY <1>2
  <2>4. CASE x > now - Window
    <3>1. Recent(Append(q, x), now) = Append(Recent(q, now), x)
      BY <2>4, RecentAppend
    <3>2. Recent(Append(Recent(q, now), x), t) = Recent(Append(q, x), t)
      <4>1. Recent(Append(Recent(q, now), x), t) =
              IF x > t - Window THEN Append(Recent(q, t), x) ELSE Recent(q, t)
        BY <2>2, <2>3, RecentAppend
      <4>2. Recent(Append(q, x), t) =
              IF x > t - Window THEN Append(Recent(q, t), x) ELSE Recent(q, t)
        BY RecentAppend
      <4> QED
        BY <4>1, <4>2
    <3> QED
      BY <2>1, <3>1, <3>2
  <2>5. CASE ~(x > now - Window)
    <3>1. Recent(Append(q, x), now) = Recent(q, now)
      BY <2>5, RecentAppend
    <3>2. ~(x > t - Window)
      BY <2>5, LimiterAssumption
    <3>3. Recent(Append(q, x), t) = Recent(q, t)
      BY <3>2, RecentAppend
    <3> QED
      BY <2>1, <2>3, <3>1, <3>3
  <2> QED
    BY <2>4, <2>5
<1> HIDE DEF T
<1>3. s \in T
  BY <1>1, <1>2, SeqInduct
<1> QED
  BY <1>3 DEF T

\* The count of an address that does nothing only falls.
LEMMA RecentShrinks ==
  ASSUME NEW s \in Seq(Int), NEW now \in Int, NEW t \in Int, now <= t
  PROVE  Len(Recent(s, t)) <= Len(Recent(s, now))
<1> DEFINE T == {q \in Seq(Int) : Len(Recent(q, t)) <= Len(Recent(q, now))}
<1>1. <<>> \in T
  <2>1. <<>> \in Seq(Int) /\ Len(<<>>) = 0
    BY EmptySeq, Zenon
  <2> QED
    BY <2>1, RecentEmpty
<1>2. ASSUME NEW q \in Seq(Int), NEW x \in Int, q \in T PROVE Append(q, x) \in T
  <2>1. Append(q, x) \in Seq(Int)
    BY AppendProperties
  <2>2. /\ Len(Recent(q, now)) \in Nat /\ Len(Recent(q, t)) \in Nat
        /\ Len(Append(Recent(q, now), x)) = Len(Recent(q, now)) + 1
        /\ Len(Append(Recent(q, t), x)) = Len(Recent(q, t)) + 1
    BY RecentType, AppendProperties
  <2>3. x > t - Window => x > now - Window
    BY LimiterAssumption
  <2>4. Len(Recent(q, t)) <= Len(Recent(q, now))
    BY <1>2
  <2>5. Len(Recent(Append(q, x), t)) <= Len(Recent(Append(q, x), now))
    BY <2>2, <2>3, <2>4, RecentAppend
  <2> QED
    BY <2>1, <2>5
<1> HIDE DEF T
<1>3. s \in T
  BY <1>1, <1>2, SeqInduct
<1> QED
  BY <1>3 DEF T

\* No event later than the newest one.
NewestLast(s) == \A i \in 1..Len(s) : s[i] <= s[Len(s)]

\* If anything at all is recent, then so is the newest event, and it stays last.
LEMMA RecentNewest ==
  ASSUME NEW s \in Seq(Int), NEW now \in Int, NewestLast(s), Recent(s, now) # <<>>
  PROVE  /\ s # <<>> /\ s[Len(s)] > now - Window
         /\ Recent(s, now)[Len(Recent(s, now))] = s[Len(s)]
         /\ NewestLast(Recent(s, now))
<1> DEFINE Below(q) == \A i \in 1..Len(q) : q[i] <= s[Len(s)]
<1>0. s # <<>>
  BY RecentEmpty
<1>1. PICK q \in Seq(Int), x \in Int : s = Append(q, x)
  BY <1>0, SequenceEmptyOrAppend
<1> DEFINE T == {p \in Seq(Int) : Below(p) => /\ Below(Recent(p, now))
                                             /\ (~(x > now - Window) => Recent(p, now) = <<>>)}
<1>2. s[Len(s)] = x /\ \A i \in 1..Len(q) : q[i] <= x
  BY <1>1, AppendProperties, LenProperties DEF NewestLast
<1>3. q \in T
  <2>1. <<>> \in T
    <3>1. <<>> \in Seq(Int) /\ Len(<<>>) = 0
      BY EmptySeq, Zenon
    <3> QED
      BY <3>1, RecentEmpty
  <2>2. ASSUME NEW p \in Seq(Int), NEW y \in Int, p \in T PROVE Append(p, y) \in T
    <3> SUFFICES ASSUME Below(Append(p, y))
                 PROVE  /\ Below(Recent(Append(p, y), now))
                        /\ ~(x > now - Window) => Recent(Append(p, y), now) = <<>>
      BY AppendProperties
    <3>0. /\ Len(p) \in Nat /\ Len(Append(p, y)) = Len(p) + 1
          /\ Append(p, y)[Len(p) + 1] = y
          /\ \A i \in 1..Len(p) : Append(p, y)[i] = p[i]
      BY AppendProperties, LenProperties
    <3>1. Below(p) /\ y <= x
      BY <1>2, <3>0
    <3>2. Below(Recent(p, now)) /\ (~(x > now - Window) => Recent(p, now) = <<>>)
      BY <2>2, <3>1
    <3>3. Below(Append(Recent(p, now), y))
      BY <3>1, <3>2, <1>2, RecentType, AppendProperties, LenProperties
    <3>4. y > now - Window => x > now - Window
      BY <3>1, LimiterAssumption
    <3> QED
      BY <3>2, <3>3, <3>4, RecentAppend
  <2> HIDE DEF T
  <2> QED
    BY <2>1, <2>2, SeqInduct
<1>4. Below(Recent(q, now)) /\ (~(x > now - Window) => Recent(q, now) = <<>>)
  BY <1>2, <1>3
<1>5. x > now - Window
  BY <1>1, <1>4, RecentAppend
<1>6. Recent(s, now) = Append(Recent(q, now), x)
  BY <1>1, <1>5, RecentAppend
<1>7. /\ Recent(s, now)[Len(Recent(s, now))] = x
      /\ \A i \in 1..Len(Recent(s, now)) : Recent(s, now)[i] <= x
  BY <1>2, <1>4, <1>6, RecentType, AppendProperties, LenProperties
<1> QED
  BY <1>0, <1>2, <1>5, <1>7 DEF NewestLast

-----------------------------------------------------------------------------
(* The limiter's operations.                                                   *)

LEMMA RecentUpdate ==
  ASSUME NEW s \in Seq(Int), NEW now \in Int
  PROVE  Append(Recent(s, now), now) \in Seq(Int)
BY RecentType, AppendProperties

\* sweepLocked keeps a limiter a limiter; it leaves an address's slice alone or
\* drops it, and drops none with a recent event.
LEMMA SweepFields ==
  ASSUME NEW lim, IsLimiter(lim), NEW now \in Int
  PROVE  LET swept == sweepLocked(lim, now) IN
         /\ IsLimiter(swept)
         /\ \A b \in Addrs : \/ swept.seen[b] = lim.seen[b]
                             \/ swept.seen[b] = <<>> /\ Recent(lim.seen[b], now) = <<>>
         /\ \/ swept = lim
            \/ /\ swept.lastSweep = now
               /\ \A b \in Addrs : swept.seen[b] # <<>> => Recent(lim.seen[b], now) # <<>>
<1> DEFINE seen == [b \in Addrs |-> IF Recent(lim.seen[b], now) = <<>>
                                    THEN <<>> ELSE lim.seen[b]]
           swept == sweepLocked(lim, now)
<1>1. /\ lim.seen \in [Addrs -> Seq(Int)] /\ lim.lastSweep \in Int
  BY DEF IsLimiter
<1>2. <<>> \in Seq(Int)
  BY EmptySeq
<1>3. seen \in [Addrs -> Seq(Int)]
  BY <1>1, <1>2
<1>4. \A b \in Addrs : seen[b] = IF Recent(lim.seen[b], now) = <<>> THEN <<>> ELSE lim.seen[b]
  OBVIOUS
<1>5. swept = lim \/ swept = [seen |-> seen, lastSweep |-> now]
  BY DEF sweepLocked
<1> HIDE DEF seen, swept
<1>6. CASE swept = lim
  BY <1>6 DEF swept
<1>7. CASE swept = [seen |-> seen, lastSweep |-> now]
  <2>1. swept.seen = seen /\ swept.lastSweep = now
    BY <1>7
  <2>2. IsLimiter(swept)
    BY <1>3, <1>7 DEF IsLimiter
  <2> QED
    BY <2>1, <2>2, <1>4 DEF swept
<1> QED
  BY <1>5, <1>6, <1>7

\* What allow leaves of a limiter: the address's slice pruned, with the event if it
\* is let through; of the other addresses what the sweep leaves of them.
LEMMA AllowFields ==
  ASSUME NEW lim, IsLimiter(lim), NEW a \in Addrs, NEW now \in Int
  PROVE  LET swept   == sweepLocked(lim, now)
             kept    == Recent(swept.seen[a], now)
             verdict == allow(lim, a, now)
         IN  /\ IsLimiter(verdict.lim)
             /\ verdict.lim.lastSweep = swept.lastSweep
             /\ verdict.lim.seen[a] = IF Len(kept) < Burst THEN Append(kept, now) ELSE kept
             /\ \A b \in Addrs : b # a => verdict.lim.seen[b] = swept.seen[b]
<1> DEFINE swept == sweepLocked(lim, now)
           kept  == Recent(swept.seen[a], now)
           ok    == Len(kept) < Burst
           new   == IF ok THEN Append(kept, now) ELSE kept
           after == [swept EXCEPT !.seen[a] = new]
<1>1. IsLimiter(swept)
  BY SweepFields
<1>2. allow(lim, a, now) = [ok |-> ok, lim |-> after]
  BY DEF allow
<1> HIDE DEF swept
<1>3. swept.seen \in [Addrs -> Seq(Int)] /\ swept.lastSweep \in Int
  BY <1>1 DEF IsLimiter
<1>4. new \in Seq(Int)
  BY <1>3, RecentType, RecentUpdate
<1> HIDE DEF new
<1>5. /\ IsLimiter(after) /\ after.lastSweep = swept.lastSweep
      /\ after.seen = [swept.seen EXCEPT ![a] = new]
  BY <1>1, <1>3, <1>4 DEF IsLimiter
<1>6. after.seen[a] = new /\ \A b \in Addrs : b # a => after.seen[b] = swept.seen[b]
  BY <1>3, <1>5
<1> HIDE DEF after
<1>7. allow(lim, a, now).lim = after
  BY <1>2
<1> QED
  BY <1>5, <1>6, <1>7 DEF new, swept

\* A sweep does not change what is recent, of any address, now or later.
LEMMA SweepRecent ==
  ASSUME NEW lim, IsLimiter(lim), NEW now \in Int, NEW b \in Addrs,
         NEW t \in Int, now <= t
  PROVE  Recent(sweepLocked(lim, now).seen[b], t) = Recent(lim.seen[b], t)
<1> DEFINE swept == sweepLocked(lim, now)
<1>1. lim.seen[b] \in Seq(Int)
  BY DEF IsLimiter
<1>2. \/ swept.seen[b] = lim.seen[b]
      \/ swept.seen[b] = <<>> /\ Recent(lim.seen[b], now) = <<>>
  BY SweepFields
<1> HIDE DEF swept
<1>3. CASE swept.seen[b] = <<>> /\ Recent(lim.seen[b], now) = <<>>
  BY <1>1, <1>3, RecentOfRecent DEF swept
<1> QED
  BY <1>2, <1>3 DEF swept

\* The verdict is what count would have told.
LEMMA AllowVerdict ==
  ASSUME NEW lim, IsLimiter(lim), NEW a \in Addrs, NEW now \in Int
  PROVE  allow(lim, a, now).ok = (count(lim, a, now) < Burst)
<1> DEFINE kept == Recent(sweepLocked(lim, now).seen[a], now)
<1>1. kept = Recent(lim.seen[a], now)
  BY SweepRecent
<1>2. allow(lim, a, now).ok = (Len(kept) < Burst)
  BY DEF allow
<1> HIDE DEF kept
<1> QED
  BY <1>1, <1>2 DEF count

\* allow lets an event through exactly when fewer than Burst are recent, and that
\* event is then all it changes of what is recent, now or later: neither sweeping
\* nor pruning nor a refusal shows in any later count (limiter.allow).
THEOREM AllowCountsExactly ==
  ASSUME NEW lim, IsLimiter(lim), NEW a \in Addrs, NEW now \in Int
  PROVE  LET after == allow(lim, a, now).lim IN
         /\ IsLimiter(after)
         /\ \A b \in Addrs, t \in Int : now <= t =>
              Recent(after.seen[b], t) =
                IF b = a /\ count(lim, a, now) < Burst /\ now > t - Window
                THEN Append(Recent(lim.seen[b], t), now)
                ELSE Recent(lim.seen[b], t)
<1> DEFINE swept == sweepLocked(lim, now)
           kept  == Recent(swept.seen[a], now)
           after == allow(lim, a, now).lim
<1>1. /\ IsLimiter(after)
      /\ after.seen[a] = IF Len(kept) < Burst THEN Append(kept, now) ELSE kept
      /\ \A b \in Addrs : b # a => after.seen[b] = swept.seen[b]
  BY AllowFields
<1>2. swept.seen[a] \in Seq(Int) /\ lim.seen[a] \in Seq(Int)
  BY SweepFields DEF IsLimiter
<1>3. kept = Recent(lim.seen[a], now)
  BY SweepRecent
<1>4. kept \in Seq(Int)
  BY <1>2, RecentType
<1>5. count(lim, a, now) = Len(kept)
  BY <1>3 DEF count
<1>6. ASSUME NEW b \in Addrs, NEW t \in Int, now <= t
      PROVE  Recent(after.seen[b], t) =
                IF b = a /\ count(lim, a, now) < Burst /\ now > t - Window
                THEN Append(Recent(lim.seen[b], t), now)
                ELSE Recent(lim.seen[b], t)
  <2>1. CASE b # a
    <3>1. Recent(swept.seen[b], t) = Recent(lim.seen[b], t)
      BY <1>6, SweepRecent
    <3> HIDE DEF swept, kept, after
    <3> QED
      BY <2>1, <3>1, <1>1
  <2>2. CASE b = a
    <3>1. Recent(kept, t) = Recent(lim.seen[a], t)
      BY <1>2, <1>3, <1>6, RecentOfRecent
    <3>2. Recent(Append(kept, now), t) =
            IF now > t - Window THEN Append(Recent(kept, t), now) ELSE Recent(kept, t)
      BY <1>4, RecentAppend
    <3> HIDE DEF swept, kept, after
    <3> QED
      BY <2>2, <3>1, <3>2, <1>1, <1>5
  <2> QED
    BY <2>1, <2>2
<1> HIDE DEF swept, kept, after
<1> QED
  BY <1>1, <1>6 DEF after

\* The newest event of each address in the map comes after the window before the
\* last sweep, and stands last in its slice.
WellSwept(lim, now) ==
  /\ lim.lastSweep <= now
  /\ \A b \in Addrs : lim.seen[b] # <<>> =>
       /\ NewestLast(lim.seen[b])
       /\ lim.seen[b][Len(lim.seen[b])] > lim.lastSweep - Window
       /\ lim.seen[b][Len(lim.seen[b])] <= now

LEMMA SweepSweeps ==
  ASSUME NEW lim, IsLimiter(lim), NEW now \in Int, WellSwept(lim, now)
  PROVE  WellSwept(sweepLocked(lim, now), now)
<1> DEFINE swept == sweepLocked(lim, now)
<1>1. IsLimiter(swept)
  BY SweepFields
<1>2. \A b \in Addrs : swept.seen[b] # <<>> => swept.seen[b] = lim.seen[b]
  BY SweepFields
<1>3. CASE swept = lim
  BY <1>3
<1>4. CASE /\ swept.lastSweep = now
           /\ \A b \in Addrs : swept.seen[b] # <<>> => Recent(lim.seen[b], now) # <<>>
  <2> HIDE DEF swept
  <2> SUFFICES ASSUME NEW b \in Addrs, swept.seen[b] # <<>>
               PROVE  /\ NewestLast(swept.seen[b])
                      /\ swept.seen[b][Len(swept.seen[b])] > now - Window
                      /\ swept.seen[b][Len(swept.seen[b])] <= now
    BY <1>4 DEF WellSwept, swept
  <2>1. swept.seen[b] = lim.seen[b] /\ Recent(lim.seen[b], now) # <<>>
    BY <1>2, <1>4
  <2>2. /\ lim.seen[b] \in Seq(Int) /\ NewestLast(lim.seen[b])
        /\ lim.seen[b][Len(lim.seen[b])] <= now
    BY <2>1 DEF IsLimiter, WellSwept
  <2>3. lim.seen[b][Len(lim.seen[b])] > now - Window
    BY <2>1, <2>2, RecentNewest
  <2> QED
    BY <2>1, <2>2, <2>3
<1>5. \/ swept = lim
      \/ /\ swept.lastSweep = now
         /\ \A b \in Addrs : swept.seen[b] # <<>> => Recent(lim.seen[b], now) # <<>>
  BY SweepFields
<1> QED
  BY <1>3, <1>4, <1>5

LEMMA AllowSweeps ==
  ASSUME NEW lim, IsLimiter(lim), NEW a \in Addrs, NEW now \in Int, WellSwept(lim, now)
  PROVE  WellSwept(allow(lim, a, now).lim, now)
<1> DEFINE swept == sweepLocked(lim, now)
           kept  == Recent(swept.seen[a], now)
           after == allow(lim, a, now).lim
<1>1. /\ IsLimiter(after) /\ after.lastSweep = swept.lastSweep
      /\ after.seen[a] = IF Len(kept) < Burst THEN Append(kept, now) ELSE kept
      /\ \A b \in Addrs : b # a => after.seen[b] = swept.seen[b]
  BY AllowFields
<1>2. IsLimiter(swept) /\ WellSwept(swept, now)
  BY SweepFields, SweepSweeps
<1> HIDE DEF swept, after
<1>3. swept.seen[a] \in Seq(Int) /\ swept.lastSweep \in Int /\ swept.lastSweep <= now
  BY <1>2 DEF IsLimiter, WellSwept
<1>4. kept \in Seq(Int) /\ Len(kept) \in Nat
  BY <1>3, RecentType
<1>5. kept # <<>> => /\ NewestLast(kept) /\ kept[Len(kept)] <= now
                     /\ kept[Len(kept)] > now - Window
  <2>1. swept.seen[a] # <<>> => NewestLast(swept.seen[a]) /\ swept.seen[a][Len(swept.seen[a])] <= now
    BY <1>2 DEF WellSwept
  <2>2. swept.seen[a] = <<>> => kept = <<>>
    BY RecentEmpty
  <2> QED
    BY <2>1, <2>2, <1>3, RecentNewest
<1> HIDE DEF kept
<1>6. \A i \in 1..Len(kept) : kept[i] \in Int /\ kept[i] <= now
  <2>1. ASSUME NEW i \in 1..Len(kept) PROVE kept[i] \in Int /\ kept[i] <= now
    <3>1. kept # <<>> /\ kept[i] \in Int /\ kept[Len(kept)] \in Int
      BY <2>1, <1>4, EmptySeq, ElementOfSeq
    <3> QED
      BY <3>1, <1>5, <2>1 DEF NewestLast
  <2> QED
    BY <2>1
<1> DEFINE more == Append(kept, now)
<1>7. NewestLast(more) /\ more[Len(more)] = now
  <2>1. /\ Len(more) = Len(kept) + 1 /\ more[Len(kept) + 1] = now
        /\ \A i \in 1..Len(kept) : more[i] = kept[i]
    BY <1>4, AppendProperties
  <2> HIDE DEF more
  <2> QED
    BY <2>1, <1>4, <1>6 DEF NewestLast
<1> HIDE DEF more
<1>8. now > swept.lastSweep - Window /\ now <= now
  BY <1>3, LimiterAssumption
<1>9. after.seen[a] = more \/ after.seen[a] = kept
  BY <1>1 DEF more
<1>10. after.seen[a] # <<>> =>
         /\ NewestLast(after.seen[a])
         /\ after.seen[a][Len(after.seen[a])] > swept.lastSweep - Window
         /\ after.seen[a][Len(after.seen[a])] <= now
  <2>1. CASE after.seen[a] = more
    BY <2>1, <1>7, <1>8
  <2>2. CASE after.seen[a] = kept /\ kept # <<>>
    <3>1. kept[Len(kept)] \in Int
      BY <2>2, <1>4, ElementOfSeq, EmptySeq
    <3>2. kept[Len(kept)] > swept.lastSweep - Window
      BY <3>1, <2>2, <1>3, <1>5, LimiterAssumption
    <3> QED
      BY <2>2, <3>2, <1>5
  <2> QED
    BY <2>1, <2>2, <1>9
<1> QED
  BY <1>1, <1>2, <1>3, <1>10 DEF WellSwept, after

LEMMA NewLimiter ==
  /\ IsLimiter(newLimiter)
  /\ WellSwept(newLimiter, 0)
  /\ \A b \in Addrs : newLimiter.seen[b] = <<>>
<1>1. <<>> \in Seq(Int)
  BY EmptySeq
<1>2. /\ newLimiter.seen = [a \in Addrs |-> <<>>]
      /\ newLimiter.lastSweep = -Window
  BY DEF newLimiter
<1>3. IsLimiter(newLimiter)
  BY <1>1, LimiterAssumption DEF newLimiter, IsLimiter
<1>4. \A b \in Addrs : newLimiter.seen[b] = <<>>
  BY <1>2
<1> QED
  BY <1>2, <1>3, <1>4, LimiterAssumption DEF WellSwept
=============================================================================
