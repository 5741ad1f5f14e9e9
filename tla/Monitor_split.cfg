SPECIFICATION Spec
CONSTANTS
  Scripts <- MCOneScript
  MaxPacket = 4
  Flushes = FALSE
INVARIANTS
  RemainingDataFirst
CHECK_DEADLOCK FALSE
