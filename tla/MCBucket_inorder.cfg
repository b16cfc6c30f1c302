CONSTANTS
  MaxSteps = 3
  FirstSeqs <- MCFirstSeqs
  MaxGap = 3
  MaxBack = 3
  StaleSeqs <- MCStaleSeqs
  MaxAdds = 9
SPECIFICATION Spec
INVARIANT TypeOK
INVARIANT InOrderRetrievable
CHECK_DEADLOCK FALSE
