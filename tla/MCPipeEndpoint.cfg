\* The sender stops at MaxSends and the readers with it.
CHECK_DEADLOCK FALSE
CONSTANTS
  Modulus = 3
  Receivers = {r1, r2}
  TimedReceivers = {r2}
  MaxSends = 5
  MaxFailures = 1
SPECIFICATION FairSpec
INVARIANTS Settled NoForgottenReceiver
PROPERTIES ImplementsStream AcceptedIsDeliveredInTurn
