\* Deadlock is not checked: a tunnel comes to its end.
CONSTANT Sessions = {s1, s2}
SPECIFICATION ESFairSpec
INVARIANT OneServicePerChannel
PROPERTIES ServedOutlivesTimer OutputBeforeExit SilentTunnelEnds ShellEndsWithSession
CHECK_DEADLOCK FALSE
