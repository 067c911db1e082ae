SPECIFICATION Spec
CONSTANTS
  Baskets = {b1, b2}
  Lots = 1
  MaxAttempts = 1
  Reconciler = Reconciler
  MaxWorking = 0
  MaxSweeps = 0
  MaxCrashes = 1
  MaxFaults = 1
CHECK_DEADLOCK FALSE
SYMMETRY Symmetry
INVARIANT LatchGapIsKnown
