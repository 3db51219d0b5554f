CONSTANTS
  None = None
  k1 = k1
  c1 = c1
  c2 = c2
  f1 = f1
  Conns = {a1, a2}
  Machines = {k1}
  CanonicalNames = {c1, c2}
  FriendlyNames = {f1}
  Certs <- Twice
  Admins = {p1}
  MaxWrites = 2
SPECIFICATION RAFairSpec
INVARIANT SweepMissesNobody
PROPERTY RevokedAgentIsDropped
