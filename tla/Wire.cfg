CONSTANTS
  Base = 4
  IdSize = 2
  TopicSize = 3
  BodySize = 5
  Chunk = 3
  Strings = {0, 1, 2, 3, 4, 9}
  Bodies = {0, 1, 3, 4, 5, 16, 50}
  Others = {2, 3, 4, 15, 16, 63, 64, 70}

SPECIFICATION Spec

INVARIANT
  HandlerIsInStep

CHECK_DEADLOCK FALSE
