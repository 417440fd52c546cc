SPECIFICATION FairSpec
CONSTANTS
  Clients = {c1, c2, c3}
  Size = 2
  MayFail = TRUE
INVARIANTS
  TypeOK
  SingletonIsMine
  NoneRunsAfterFailure
PROPERTY EveryPostServed
CHECK_DEADLOCK FALSE
