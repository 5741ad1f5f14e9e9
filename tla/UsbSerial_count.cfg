SPECIFICATION Spec
CONSTANTS
  MaxSent = 2
  MaxLen = 2
  MaxResets = 1
  MaxBreaks = 1
  Word = 8
INVARIANT
  CountOfBytesPlaced
