CONSTANTS
  NoCommand = NoCommand
  Keys = {k1, k2}
  Admins = {p1, p2}
  MaxWrites = 4
SPECIFICATION RevFairSpec
INVARIANTS StampSound RevocationSticks
PROPERTY RevocationReachesProxy
