SPECIFICATION FairSpec
CONSTANTS
  NumGround = 3
  NumSat = 3
  Dest = 1
  MaxUpdates = 3
INVARIANTS
  NoForwardingLoop
PROPERTY EventuallyDelivered
CHECK_DEADLOCK FALSE
