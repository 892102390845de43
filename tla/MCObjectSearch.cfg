CONSTANTS
  c1 = c1
  c2 = c2
  c3 = c3
  s = s
  sa = sa
  Calls = {c1, c2, c3}
  Paths = {s, sa}
  MayAsk <- MCMayAsk
  Below <- MCBelow
  MayClose = TRUE
  Error = Error
  None = None
SPECIFICATION FairSpec
INVARIANTS OneObject
CHECK_DEADLOCK FALSE
PROPERTIES EveryCallAnswered
