SPECIFICATION FairSpec
CONSTANTS
  Trades = {t1}
  Accounts = {a1}
  Workers = {w1, w2}
  NoScope = NoScope
  NoWorker = NoWorker
  NoJob = NoJob
  MaxAttempts = 2
  AttemptCap = 4
  MaxFaults = 1
  MaxAutoRelease = 2
  Zones = {"open"}
  Alerts <- OpenAndClose
  RouteSets <- AllAccounts
CHECK_DEADLOCK FALSE
PROPERTY EveryJobResolves
