SPECIFICATION MemberFairSpec
CONSTANTS
  c1 = c1
  c2 = c2
  Connects = {c1, c2}
  Requested <- MCRequested
  MaxCloses <- MCCloses
  MayEnd = TRUE
  Unreliable = FALSE
  MaxPackets <- MCPackets
INVARIANTS Paired NoPacketLost OwnPackets
PROPERTIES CloseReachesPeer
\* Every pair may be closed.
CHECK_DEADLOCK FALSE
