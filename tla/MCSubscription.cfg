SPECIFICATION FairSpec
CONSTANTS
  MaxService = 2
  MaxErrors = 0
  MaxUrl = 1
  MaxConns <- MCMaxConns
  None = None
INVARIANTS OneConnection Attended ClosedLeavesNone
PROPERTIES KeepsClient ClaimedIsLeft TriedAgain
CHECK_DEADLOCK FALSE
