------------------------------ MODULE Limiter ------------------------------
(* limiter, the counter of recent events per source address that both the       *)
(* listeners and enrolment use. A limiter is a value: the times of each         *)
(* address's events, oldest first, and the time of its last sweep. An address   *)
(* that is not in the map has no times: allow never stores an empty slice.      *)
EXTENDS Integers, Sequences

CONSTANTS
  Addrs,    \* source addresses, with the port taken off
  Window,   \* how long an event counts
  Burst     \* how many of them are let through in one window

ASSUME LimiterAssumption == Window \in Nat \ {0} /\ Burst \in Nat \ {0}

\* The zero lastSweep lies further back than any window.
newLimiter == [seen |-> [a \in Addrs |-> <<>>], lastSweep |-> -Window]

\* The events after the cutoff, in their order: one that is exactly a window old
\* is gone. kept[i] is what the loop has kept of the first i.
Recent(times, now) ==
  LET kept[i \in 0..Len(times)] ==
        IF i = 0 THEN <<>>
        ELSE IF times[i] > now - Window THEN Append(kept[i - 1], times[i])
        ELSE kept[i - 1]
  IN  kept[Len(times)]

\* Faulty variant: it never looks for stale addresses.
sweepNothing(lim, now) ==
  IF now - lim.lastSweep < Window THEN lim ELSE [lim EXCEPT !.lastSweep = now]

\* At most once a window, addresses without a recent event are dropped.
sweepLocked(lim, now) ==
  IF now - lim.lastSweep < Window
  THEN lim
  ELSE [seen |-> [a \in Addrs |-> IF Recent(lim.seen[a], now) = <<>>
                                  THEN <<>> ELSE lim.seen[a]],
        lastSweep |-> now]

\* Faulty variant: an event exactly a window old still counts.
countInclusive(lim, a, now) ==
  Len(SelectSeq(lim.seen[a], LAMBDA t : t >= now - Window))

count(lim, a, now) == Len(Recent(lim.seen[a], now))

\* Faulty variant: the burst is one too many.
allowOneMore(lim, a, now) ==
  LET swept == sweepLocked(lim, now)
      kept  == Recent(swept.seen[a], now)
      ok    == Len(kept) <= Burst
  IN  [ok  |-> ok,
       lim |-> [swept EXCEPT !.seen[a] = IF ok THEN Append(kept, now) ELSE kept]]

\* Sweep, prune, and record the event unless the burst is used up: the verdict,
\* and the limiter afterwards.
allow(lim, a, now) ==
  LET swept == sweepLocked(lim, now)
      kept  == Recent(swept.seen[a], now)
      ok    == Len(kept) < Burst
  IN  [ok  |-> ok,
       lim |-> [swept EXCEPT !.seen[a] = IF ok THEN Append(kept, now) ELSE kept]]

IsLimiter(lim) == lim \in [seen : [Addrs -> Seq(Int)], lastSweep : Int]
=============================================================================
