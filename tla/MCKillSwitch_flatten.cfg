SPECIFICATION Spec
CONSTANTS
  Trades = {t1}
  Manual = {}
  Ops = {o1}
  Idle = Idle
  Scopes = {"engine"}
  Producers = {"pair", "line", "align", "signal"}
  MaxRetries = 2
  MaxCloses = 1
  MaxSweeps = 1
  MaxCrashes = 1
CHECK_DEADLOCK FALSE
INVARIANT OverCloseIsKnown
 
 
