CONSTANTS
  MaxLen = 14
  T0 = 64000100
  Steps = {300}
  Jumps <- MCBackStep
  MaxJumps = 1
SPECIFICATION Spec
INVARIANT FeedbackDecodes
CHECK_DEADLOCK FALSE
