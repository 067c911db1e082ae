SPECIFICATION Spec
CONSTANTS
  Trades = {t1}
  Accounts = {a1, a2}
  Workers = {w1, w2}
  NoScope = NoScope
  NoWorker = NoWorker
  NoJob = NoJob
  MaxAttempts = 2
  AttemptCap = 2
  MaxFaults = 1
  MaxAutoRelease = 2
  Zones = {"open"}
  Alerts <- OpenOnly
  RouteSets <- AllOrNone
SYMMETRY Symmetry
CHECK_DEADLOCK FALSE
INVARIANT AtMostOnceSubmission
 
