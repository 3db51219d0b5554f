CONSTANTS
  Addrs = {h1}
  Window = 2
  Burst = 2
  Requests = {r1, r2}
  Operators = {o1}
  Labels = {n1}
  Secrets = {p1, p2}
  Keys = {k1}
  Validity = 1
  Explicit = 0
  Avail = 130
  MaxClock = 3
SPECIFICATION EnrSpec
SYMMETRY Symmetry
INVARIANTS ArgonConserved AttemptsBounded WithdrawnStopsWorking
