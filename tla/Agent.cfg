CONSTANTS
  MinBackoff = 2
  MaxBackoff = 9
  HealthySession = 9
  Keepalive = 7
  Keys = {k1, k2}
  None = None
SPECIFICATION AgentFairSpec
INVARIANTS  DelayBounded KeepalivesBounded
PROPERTY AgentComesBack
