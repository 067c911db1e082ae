SPECIFICATION Spec
CONSTANTS
  Monitored <- MCMonitored
  Budget = 2
  Capacity = 2
  MaxEvents = 2
  MaxRestarts = 1
INVARIANT BudgetHolds
INVARIANT AlarmIsKnown
INVARIANT Settles
