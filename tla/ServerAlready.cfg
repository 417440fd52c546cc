SPECIFICATION Spec
CONSTANTS
  Clients = {c1, c2}
  Size = 2
  MayFail = TRUE
INVARIANT AlreadyRunning
CHECK_DEADLOCK FALSE
