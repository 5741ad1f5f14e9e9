SPECIFICATION Spec
CONSTANTS
  PktLen = 2
  SnoMod = 3
  LengthMod = 16
  SizeMod = 16
  Total = 5
  MaxFaults = 3
INVARIANT
  HostGetsTheData
CHECK_DEADLOCK FALSE
