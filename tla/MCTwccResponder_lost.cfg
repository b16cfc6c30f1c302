CONSTANTS
  MinBatch = 2
  MaxBatch = 3
  ReportDelta = 100000000
  MarkDelta = 50000000
  FirstSeq = 65533
  NumPkts = 8
  Reorder = 3
  MaxDup = 1
  T0 = 1000000000
  TimeSteps = {1000000, 60000000}
SPECIFICATION Spec
PROPERTY LostMeansMissing
CHECK_DEADLOCK FALSE
