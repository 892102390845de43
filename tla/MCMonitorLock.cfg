SPECIFICATION FairSpec
CONSTANTS
  Sessions = {s1, s2}
  MaxMonitors = 3
  PoolThreads = 2
  MayRelease = TRUE
  MaxCalls = 1
  s1 = s1
  s2 = s2
  None = None
INVARIANTS Protected
PROPERTIES EveryMonitorEnds ExitEnds
\* Sessions need not ask again.
CHECK_DEADLOCK FALSE
