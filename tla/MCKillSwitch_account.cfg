SPECIFICATION Spec
CONSTANTS
  Trades = {t1, m1}
  Manual = {m1}
  Ops = {o1, o2}
  Idle = Idle
  Scopes = {"engine", "account"}
  Producers = {"gateway"}
  MaxRetries = 2
  MaxCloses = 1
  MaxSweeps = 1
  MaxCrashes = 0
CHECK_DEADLOCK FALSE
INVARIANT ArmedIsCached
