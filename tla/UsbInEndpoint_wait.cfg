SPECIFICATION Spec
CONSTANTS
  Size = 2
  MaxLen = 3
  MaxBytes = 6
  Timeout = 2
  Clears = 0
  FrameAck = TRUE
INVARIANT
  WaitSeesCompletion
CHECK_DEADLOCK FALSE
