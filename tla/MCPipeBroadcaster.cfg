CONSTANTS
  Endpoints = {e1, e2}
  Backlogs <- MCBacklogs
  Leaving = {e2}
  MaxSends = 3
  MaxFailures = 1
SPECIFICATION FairSpec
INVARIANTS SlotsAccounted InFlightBounded CompletedOnce
CHECK_DEADLOCK FALSE
PROPERTIES EachSendCompletes FlowResumes
