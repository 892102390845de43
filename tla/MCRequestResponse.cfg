SPECIFICATION FairSpec
CONSTANTS
  Sync = {s1}
  Async = {a1}
  Closers = {c1}
  Untimed = {a1}
  IdSpace = 2
  MayStop = TRUE
  None = None
INVARIANTS OwnResponse OneFailure Watched
PROPERTIES HandlerCalled SyncEnds CloseReported
CHECK_DEADLOCK FALSE
