CONSTANTS
  QueueSize = 1
  Events = {"overheat"}

SPECIFICATION FairSpec

INVARIANTS
  TypeOK
  ActuatorOwnsItsSections
  OutputsMatchPins
  BuzzerOnlyInPulse
  ManualHasDeadline

PROPERTIES
  Implements
  QueueDrains
  DispatchEnds
  OverrideEnds
