CONSTANTS
  MaxNackCache = 3
  Base = 65533
  W = 7
SPECIFICATION Spec
INVARIANTS NackAtMostMaxTimes LossAccounted
CHECK_DEADLOCK FALSE
