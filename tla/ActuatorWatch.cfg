CONSTANTS
  QueueSize = 2
  Events = {"fire"}

SPECIFICATION Spec

INVARIANT
  RunningFanIsWatched
