SPECIFICATION Spec
CONSTANTS
  Rings <- MCRings
  Zones <- MCZones
  Deltas = {16, 1700, 7199000, 86399500, 86400000}
  LastYear = 2021
  MaxParts = 2
INVARIANTS
  RingIsEven
  ClockFollowsAnimation
  CalendarsAgree
PROPERTY
  ClockNeverTurnsBack
CHECK_DEADLOCK FALSE
