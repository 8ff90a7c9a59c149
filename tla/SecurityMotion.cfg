CONSTANTS
  Sensors = {"pir"}
  Debounce = 2
  Stable = 2
  Period = 4
  Late = 0
  Stuck = 10

SPECIFICATION Spec

INVARIANT
  MotionIsReported
