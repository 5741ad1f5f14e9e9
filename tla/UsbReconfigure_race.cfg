SPECIFICATION RSpec
CONSTANTS
  Size = 2
  RingSize = 2
  MaxSent = 4
  AckWindow = FALSE
  MaxConfigs = 1
  CallsDone = FALSE
INVARIANTS
  CopiedBankNotFilled
