SPECIFICATION FairSpec
CONSTANTS
  c1 = c1
  c2 = c2
  None = None
  Connects = {c1, c2}
  MayIgnore <- MCMayIgnore
  MaxCloses <- MCMaxCloses
  MayEnd = TRUE
  MaxValues <- MCMaxValues
  MaxClock = 1
INVARIANTS CurrentIsOpen Newest
PROPERTIES ImplementsRegister CloseReachesPeer
CHECK_DEADLOCK FALSE
