CONSTANTS
  Temps = {"normal", "critical"}
  Gases = {"normal"}
  Noises = {"quiet", "alarm"}
  Others = {"door", "vibration"}
  QueueSize = 8
  Beat = 3
  Pause = 3
  Rate = 4

SPECIFICATION Spec

INVARIANTS
  TypeOK
  NoEventIsLost
  FireIsAnswered
  FireIsReal
  AlarmIsShown
