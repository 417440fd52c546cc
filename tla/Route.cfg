SPECIFICATION Spec
CONSTANTS
  NumGround = 1
  NumSat = 4
  Lost = 9
  Loss = {0, 1, 9}
  SkewedLoss = {0, 1}
  GroundLoss = {0}
INVARIANTS
  RouteIsWalk
  RouteIsBest
PROPERTIES
  LabelsBecomeFinal
  SearchAdvances
CHECK_DEADLOCK FALSE
