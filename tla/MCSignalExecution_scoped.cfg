SPECIFICATION Spec
CONSTANTS
  Trades = {t1}
  Accounts = {a1}
  Workers = {w1, w2}
  NoScope = NoScope
  NoWorker = NoWorker
  NoJob = NoJob
  MaxAttempts = 2
  AttemptCap = 2
  MaxFaults = 2
  MaxAutoRelease = 1
  Zones = {"open", "projected", "red"}
  Alerts <- OpenAndClose
  RouteSets <- AllAccounts
SYMMETRY Symmetry
CHECK_DEADLOCK FALSE
INVARIANT SubmissionIsRecorded
INVARIANT SenderNeverRequeued
INVARIANT OneExecutorPerJob
INVARIANT OpenCloseSerialized
PROPERTY ImplementsOneShotIntents
