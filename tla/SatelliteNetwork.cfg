SPECIFICATION Spec
CONSTANTS
  NumGround = 2
  NumSat = 2
  EndTime = 4
  DeltaT = 2
  Gaps = {1}
  Delays = {1, 2}
  Lossy = TRUE
INVARIANTS
  TypeOK
  OneTransmissionPerBusyQueue
PROPERTY LedgerSpec
CHECK_DEADLOCK FALSE
