SPECIFICATION Spec
CONSTANTS
  NumGround = 2
  NumSat = 2
  EndTime = 4
  DeltaT = 2
  Gaps = {1}
  Delays = {1}
  Lossy = FALSE
INVARIANT RecordedPathIsJourney
CHECK_DEADLOCK FALSE
