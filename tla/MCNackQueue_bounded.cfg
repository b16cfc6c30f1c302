CONSTANTS
  MaxNackCache = 3
  Base = 65533
  W = 7
SPECIFICATION Spec
INVARIANT NackQueueBounded
CHECK_DEADLOCK FALSE
