SPECIFICATION FairSpec
CONSTANTS
  c1 = c1
  c2 = c2
  None = None
  Client = {c1, c2}
  MaxCalls = 1
  MaxFailures = 1
  Requests <- MCRequests
  Backlog = 1
  Timeout = TRUE
  ServerFns <- MCServerFns
  MaxHandlers = 3
INVARIANTS NothingLeftOpen KilledBy
CHECK_DEADLOCK FALSE
PROPERTIES CallReturns EveryoneIsServed SignalStops AtMostOnce
