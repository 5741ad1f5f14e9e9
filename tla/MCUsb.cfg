SPECIFICATION UsbSpec
CONSTANTS
  Size = 2
  RingSize = 2
  MaxSent = 3
  AckWindow = FALSE
  MaxConfigs = 1
  CallsDone = TRUE
  Addresses = {5, 9}
  Configurations = {1}
  MaxRequests = 4
  MaxResets = 1
  MaxSend = 3
  MaxBytes = 5
  Timeout = 2
  Clears = 1
  FrameAck = TRUE
  MaxRead = 2
  MaxBreaks = 2
  Word = 8
  Modules = {"cdc", "hid", "msc", "midi"}
  ReportSize = 80
  MaxReports = 2
INVARIANTS
  TypesOK
  HostAndDeviceAgree
  BanksAgree
  ModulesAgree
PROPERTIES
  WaitsAreForThisRequest
  PacketsStable
  OnceAndInOrder
  BreaksKept
  CallsEnd
CHECK_DEADLOCK FALSE
