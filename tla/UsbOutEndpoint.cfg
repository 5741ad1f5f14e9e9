SPECIFICATION Spec
CONSTANTS
  Size = 2
  RingSize = 3
  MaxSent = 6
  AckWindow = TRUE
INVARIANTS
  TypeOK
  NotFilledWhileReady
  NothingLost
  IInv
PROPERTIES
  ReadyBankStable
  StreamSpec
