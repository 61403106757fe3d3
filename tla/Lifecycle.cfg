SPECIFICATION FairSpec
CONSTANTS
  Requests = {r1}
  MaxStarts = 2
INVARIANTS
  StopEndsLoops
  PanicsOnlyStartedOver
  TableOutlivesRequests
PROPERTIES
  StopReturns
CHECK_DEADLOCK FALSE
