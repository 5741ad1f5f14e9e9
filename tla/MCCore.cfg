SPECIFICATION CoreSpec
CONSTANTS
  BufSize = 6
  Threshold = 4
  Slack = 1
  Stall = 2
  MaxChars = 7
  MaxErrors = 2
  TxSize = 3
  MaxBytes = 8
  Lines = {"EXTINT0", "EXTINT1"}
  EXTERNAL_NUM_INTERRUPTS = 2
  Guarded = TRUE
  Pins = {"p", "q"}
  Frequencies = {0, 3, 25, 300}
  Durations = {0, 7, 15, 90}
  toneMaxFrequency = 1000
  TONE_TC_TOP = 15
  Second = 50
  Word = 512
  MaxCalls = 3
  MaxTones = 4
  Tick = 8
  MicrosPerMs = 4
  Scale = 9
  Shift = 16
  CounterWord = 9
  Callers = {"sketch", "masked", "handler"}
  MaxTime = 27
  MaxStolen = 3
  Delays = {2}
INVARIANTS
  TypesOK
  TransmitterSound
  RxSound
  InterruptsSound
PROPERTIES
  UartEnds
  HandlersServe
  ToneSound
  TimeRight
CHECK_DEADLOCK FALSE
