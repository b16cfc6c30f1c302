CONSTANTS
  MaxSteps = 3
  FirstSeqs <- MCFirstSeqs
  MaxGap = 3
  MaxBack = 3
  StaleSeqs <- MCStaleSeqs
  MaxAdds = 6
SPECIFICATION Spec
INVARIANT BucketSound
CHECK_DEADLOCK FALSE
