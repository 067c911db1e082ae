SPECIFICATION FairSpec
CONSTANTS
  Baskets = {b1}
  Lots = 2
  MaxAttempts = 2
  Reconciler = Reconciler
  MaxWorking = 2
  MaxSweeps = 1
  MaxCrashes = 1
  MaxFaults = 0
CHECK_DEADLOCK FALSE
 
PROPERTY RecoveryConcludes
