CONSTANTS
  Threads = {t1, t2, t3}
  MaxCalls = 4
SPECIFICATION SemaphoreFairSpec
INVARIANTS OneHandler NoEventLost
PROPERTIES EventsAreSeen CallersReturn
