SPECIFICATION FairSpec
CONSTANTS
  Scenarios <- Lives
  Period = 7
  MaxLife = 9
  RenewBefore = 5
  MinRequeue = 1
  MaxRequeue = 8
  Drift = 8
  Backoff = 1
INVARIANTS
  
  OneLiveToken
  CleanDelete

  
CHECK_DEADLOCK FALSE
