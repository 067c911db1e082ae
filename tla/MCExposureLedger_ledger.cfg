SPECIFICATION Spec
CONSTANTS
  Trades <- MCTrades
  Account <- MCAccount
  Strategy <- MCStrategy
  Legs <- MCLegs
  Size <- MCSize
  Executions <- MCExecutions
  SymbolLimit <- MCLimit
  PositionLimit = 1
  ValueLimit = 4
  Funds <- MCFunds
  MinFree = 0
  MaxEvents = 2
CHECK_DEADLOCK FALSE
INVARIANT TalliesCoverHoldings
INVARIANT LimitHolds
INVARIANT MarginIsNotOverstated
 
