SPECIFICATION DeskSpec
CONSTANTS
  Tickets = {"entry"}
  Requests = {r1}
  Worker = Worker
  EntryLots = 2
  ExitLots = 1
  MaxBusy = 2
  MaxDisturbances = 1
CHECK_DEADLOCK FALSE
INVARIANT OneOrderPerKey
 
INVARIANT FilledIsRecorded
 
PROPERTY TerminalIsFinal
