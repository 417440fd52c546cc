SPECIFICATION Spec
CONSTANTS
  Clients = {c1, c2}
  Size = 2
  MayFail = FALSE
INVARIANT DoneMeansDone
CHECK_DEADLOCK FALSE
