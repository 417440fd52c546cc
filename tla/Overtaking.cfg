SPECIFICATION FairSpec
CONSTANTS
  NumGround = 2
  NumSat = 2
  EndTime = 7
  DeltaT = 2
  Gaps = {1}
  Delays = {1}
  Lossy = FALSE
INVARIANTS
  NeverDropped
  PeriodsTile
  NothingInThePast
  RoutesLeadOn
  NoForwardingLoop
  Balanced
PROPERTIES
  Termination
CHECK_DEADLOCK FALSE
