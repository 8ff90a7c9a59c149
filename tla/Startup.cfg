CONSTANTS
  Edges = {"door", "vibration", "button1"}
  Fragile = {"xEventQueue", "xVibrationSemaphore", "xBrokerMutex", "xActuatorMutex"}

SPECIFICATION Spec

INVARIANTS
  TypeOK
  NothingUsesTheMissing
  EarlyEdgeIsKept
  WatchedTasksAreWatched

PROPERTIES
  StartUpEnds
  EarlyEdgeIsTaken
