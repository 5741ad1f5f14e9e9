SPECIFICATION Spec
CONSTANTS
  Lines = {a, b}
  EXTERNAL_NUM_INTERRUPTS = 2
  Guarded = FALSE
  MaxCalls = 4
INVARIANT
  OwnCallback
CHECK_DEADLOCK FALSE
