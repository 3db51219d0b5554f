CONSTANTS
  Addrs = {front, h1, h2}
  Front = front
  Window = 3
  Burst = 2
  Conns = {s1, s2}
  Kinds = {"user", "agent"}
  Forwarded = {"agent"}
  MaxSlots <- OneLimited
  MaxClock = 4
SPECIFICATION AdmFairSpec
INVARIANTS SlotsConserved GuessesBounded StaleAddressesSwept
PROPERTIES RefusedOnlyGuessers SilentClientLetGo
