SPECIFICATION Spec
CONSTANTS
  Delay = 3
  MaxRequests = 4
  MaxEnds = 0
INVARIANT
  OpenPortIsKept
CHECK_DEADLOCK FALSE
