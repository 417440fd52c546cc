SPECIFICATION FairSpec
CONSTANTS
  WindowSize = 2
  MaxData = 4
  MaxCalls = 4
  MaxUpdates = 3
  MaxLost = 1
INVARIANTS
  ReceivedInOrder
  AcknowledgedWasReceived
  WindowCountsFlight
CHECK_DEADLOCK FALSE
PROPERTIES
  WindowArrives
