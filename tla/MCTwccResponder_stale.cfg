CONSTANTS
  MinBatch = 2
  MaxBatch = 3
  ReportDelta = 100000000
  MarkDelta = 50000000
  FirstSeq = 65533
  NumPkts = 10
  Reorder = 5
  MaxDup = 0
  T0 = 1000000000
  TimeSteps = {1000000, 60000000}
SPECIFICATION Spec


CHECK_DEADLOCK FALSE
INVARIANT FeedbackCountAdvances
