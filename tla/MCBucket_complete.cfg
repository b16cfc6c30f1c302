CONSTANTS
  MaxSteps = 3
  FirstSeqs <- MCFirstSeqs
  MaxGap = 3
  MaxBack = 3
  StaleSeqs <- MCStaleSeqs
  MaxAdds = 6
SPECIFICATION Spec
INVARIANT BucketComplete
CHECK_DEADLOCK FALSE
