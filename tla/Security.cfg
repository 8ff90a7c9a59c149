CONSTANTS
  Sensors = {"door", "pir"}
  Debounce = 2
  Stable = 2
  Period = 4
  Late = 2
  Stuck = 10

SPECIFICATION Spec

INVARIANTS
  TypeOK
  ClosedDoorIsCleared
  OpenDoorHasDeadline
  OpeningIsNoticed
