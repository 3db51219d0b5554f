CONSTANTS
  None = None
  k1 = k1
  k2 = k2
  c1 = c1
  c2 = c2
  f1 = f1
  Conns = {a1, a2}
  Machines = {k1, k2}
  CanonicalNames = {c1, c2}
  FriendlyNames = {f1}
  Certs <- Rivals
SPECIFICATION FairSpec
INVARIANTS TypeOK NoOrphanEntry NoStrandedAgent EvictsOwnOnly HostKeyDerivesName
PROPERTIES ImplementsDirectory SilentAgentLeaves
