CONSTANTS
  MaxLen = 5
  T0 = 64000100
  Steps = {300}
  Jumps <- MCBackStep
  MaxJumps = 4
SPECIFICATION Spec
INVARIANT DeltasFit
CHECK_DEADLOCK FALSE
