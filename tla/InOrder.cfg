SPECIFICATION Spec
CONSTANTS
  NumGround = 2
  NumSat = 2
  EndTime = 5
  DeltaT = 6
  Gaps = {1}
  Delays = {1, 2}
  Lossy = FALSE
INVARIANT InOrderUntilReroute
CHECK_DEADLOCK FALSE
