CONSTANTS
  Instances = {i1}
  Callers = {c1, c2}
  None = None
  RequestAfterHalfOpen = 1
  SuccessAfterHalfOpen = 1
  RatePercent = 50
  Setups <- LiveSetups
SPECIFICATION FairSpec
PROPERTIES PeriodsEnd ChangesAreSynced
