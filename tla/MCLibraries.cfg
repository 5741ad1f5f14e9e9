SPECIFICATION LibrariesSpec
CONSTANTS
  BufSize = 2
  MaxLen = 3
  MaxTransfers = 4
  MaxBytes = 3
  MaxCalls = 2
  MaxLost = 2
  S = 3
  M = 2
  H = 2
  D = 2
  Times = {4, 5, 13}
  Sleeps = {1, 2}
  RtcCalls = 3
  RtcResets = 1
  Texts <- MCTexts
  Targets <- MCTargets
  Numbers <- MCNumbers
  MaxLength = 2
  LongHalf = 100
  Values <- MCValues
  Bases = {1, 2, 10, 16, 32, 42}
  ByteMod = 32
  Word = 4096
  Max16 = 127
  StringTexts <- MCStringTexts
  Replacements <- MCReplacements
  MaxText = 4
INVARIANTS
  TypesOK
  SlaveSound
  MasterSound
  TakesWhatItFinds
  PrintsTheDigits
  ReplacesOnce
PROPERTIES
  LibraryCallsEnd
  TimeIsSet
CHECK_DEADLOCK FALSE
