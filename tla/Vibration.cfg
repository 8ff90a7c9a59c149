CONSTANTS
  Timeout = 1
  Debounce = 1
  Window = 6
  Beat = 2
  Late = 1

SPECIFICATION Spec

INVARIANTS
  TypeOK
  VibrationIsAnswered
  ReportsAreTrue
