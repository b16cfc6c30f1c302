CONSTANTS
  MaxLen = 4
  T0 = 64000100
  Steps = {300}
  Jumps = {9000000}
  MaxJumps = 1
SPECIFICATION Spec
INVARIANT DeltaSignKept
CHECK_DEADLOCK FALSE
