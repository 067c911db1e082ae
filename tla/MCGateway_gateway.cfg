SPECIFICATION Spec
CONSTANTS
  Clients <- MCClients
  MaxEvents = 2
  MaxMsg = 4
  NormalMsg = 2
  ReserveMsg = 2
  Parts = 5
  Callers <- MCCallers
  Priority <- MCPriority
  OnLoop <- MCOnLoop
  Holdings = {"p1", "p2"}
  Execs = {"e1", "e2"}
  Answers <- MCAnswers
  MaxRequests = 2
  Refreshers = {"r1", "r2"}
  Served = 2
  MaxSummaries = 3
  Trades = {"t1", "t2"}
  Contracts = {"x", "y"}
  Legs <- MCLegs
  Hydrated = {"t1"}
  Underlying <- MCUnderlying
  MaxLines = 3
  MaxPnl = 2
  MaxTicks = 4
  Lots = 2
  OwnWrites = 1
  MaxMishaps = 1
  Orders = {"o1", "o2"}
  ForeignIds = {1, 3}
  MaxFaults = 2
INVARIANT ReserveHolds
INVARIANT NotAbandoned
INVARIANT SnapshotIsWhole
INVARIANT BookIsWhole
INVARIANT SummaryIsLive
INVARIANT OpenTradeIsFed
INVARIANT RowHasItsPnl
INVARIANT RowKnowsFills
 
CHECK_DEADLOCK FALSE
