SPECIFICATION BootloaderSpec
CONSTANTS
  Delay = 2
  MaxRequests = 2
  MaxEnds = 1
  Pages = 4
  RowPages = 2
  MaxResets = 3
  PktLen = 2
  SnoMod = 3
  LengthMod = 16
  SizeMod = 16
  Total = 5
  MaxTimeouts = 3
  MaxFaults = 3
  MonScripts <- MCScripts
  MonPacket = 4
  PortAddresses = {5}
  PortRequests = 3
  PortResets = 1
  PortPackets = 2
INVARIANTS
  TypesOK
  ErasedAfterDelay
  NeverMixed
  PortSound
  AsCommanded
PROPERTIES
  OnlyTwoTaps
  UploadsEnd
  BlocksOnceAndInOrder
  LoopsEnd
CHECK_DEADLOCK FALSE
