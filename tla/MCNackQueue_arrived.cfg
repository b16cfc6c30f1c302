CONSTANTS
  MaxNackCache = 3
  Base = 65533
  W = 7
SPECIFICATION Spec
PROPERTY NeverNackArrived
CHECK_DEADLOCK FALSE
