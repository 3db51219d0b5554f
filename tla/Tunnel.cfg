\* Deadlock is not checked: once every jump is over, nothing has to happen.
CONSTANT Jumps = {j1, j2}
SPECIFICATION TunnelFairSpec
INVARIANT TunnelHasOwner
PROPERTIES NoTruncation JumpIsAnswered ChannelsEndTogether
CHECK_DEADLOCK FALSE
