------------------------------ MODULE AutoReset ------------------------------
(***************************************************************************)
(* Entering the bootloader with a "1200 bps touch" of the SerialUSB port:  *)
(* Serial_::setup() (cores/arduino/USB/CDC.cpp) starts or cancels a        *)
(* countdown, tickReset() (Reset.cpp) runs it down from the SysTick        *)
(* interrupt.  setup() runs in the USB interrupt, of priority 0: it        *)
(* preempts SysTick, of priority 2, between any two steps of tickReset(),  *)
(* and the sketch.  `ticks` is not volatile: tickReset() loads it once and *)
(* stores it once.                                                         *)
(***************************************************************************)
EXTENDS Integers

CONSTANTS
  Delay,        \* ticks from the trigger to the reset (250)
  MaxRequests,  \* bound: control requests of the host
  MaxEnds       \* bound: calls of SerialUSB.end()

ASSUME DelayAssumption == Delay \in Nat \ {0} /\ {MaxRequests, MaxEnds} \subseteq Nat

TouchRate == 1200     \* dwDTERate == 1200
FirstRate == 115200   \* the rate before any request

Rate == {TouchRate, FirstRate}

VARIABLES
  rate, dtr,      \* _usbLineInfo: dwDTERate and bit 0 of lineState
  ticks,          \* -1: no countdown
  tick, loaded,   \* tickReset(): where it is and the register with ticks
  power,          \* "running", "erased" (by banzai()) or "reset"
  requests,       \* requests handled so far
  ends, ending,   \* calls of end(), and whether one is halfway
  hostRate, hostOpen,   \* history: what the host asked for last
  age,            \* history: ticks since the countdown was last started
  overtaken       \* history: the last request came between the load and the
                  \* store, which overwrites what it did to ticks

line    == <<rate, dtr>>
handler == <<tick, loaded>>
sketch  == <<ends, ending>>
host    == <<hostRate, hostOpen>>
vars    == <<line, ticks, handler, power, requests, sketch, host, age, overtaken>>

TypeOK ==
  /\ rate \in Rate \cup {0} /\ dtr \in BOOLEAN
  /\ ticks \in -1..Delay /\ loaded \in -1..Delay
  /\ tick \in {"idle", "loaded"}
  /\ power \in {"running", "erased", "reset"}
  /\ requests \in 0..MaxRequests
  /\ ends \in 0..MaxEnds /\ ending \in BOOLEAN
  /\ hostRate \in Rate /\ hostOpen \in BOOLEAN
  /\ age \in 0..Delay /\ overtaken \in BOOLEAN

Init ==
  /\ rate = FirstRate /\ dtr = FALSE
  /\ ticks = -1 /\ tick = "idle" /\ loaded = -1
  /\ power = "running"
  /\ requests = 0 /\ ends = 0 /\ ending = FALSE
  /\ hostRate = FirstRate /\ hostOpen = FALSE
  /\ age = 0 /\ overtaken = FALSE

-----------------------------------------------------------------------------
(* The USB interrupt: Serial_::setup(). *)

\* Faulty variant: a countdown that runs is not started again.
TouchOnce ==
  LET trigger == rate' = TouchRate /\ ~dtr' IN
    /\ ticks' = IF ~trigger THEN -1 ELSE IF ticks = -1 THEN Delay ELSE ticks
    /\ age' = IF trigger THEN 0 ELSE age
    /\ overtaken' = (tick = "loaded")

\* if (dwDTERate == 1200 && !DTR) initiateReset(250); else cancelReset();
Touch ==
  LET trigger == rate' = TouchRate /\ ~dtr' IN
    /\ ticks' = IF trigger THEN Delay ELSE -1
    /\ age' = IF trigger THEN 0 ELSE age
    /\ overtaken' = (tick = "loaded")

Request ==
  /\ power = "running"
  /\ requests < MaxRequests
  /\ requests' = requests + 1
  /\ UNCHANGED <<handler, power, sketch>>

SetLineCoding(r) ==
  /\ rate' = r /\ UNCHANGED dtr
  /\ hostRate' = r /\ UNCHANGED hostOpen
  /\ Touch
  /\ Request

SetControlLineState(d) ==
  /\ dtr' = d /\ UNCHANGED rate
  /\ hostOpen' = d /\ UNCHANGED hostRate
  /\ Touch
  /\ Request

HostRequest == \/ \E r \in Rate : SetLineCoding(r)
               \/ \E d \in BOOLEAN : SetControlLineState(d)

-----------------------------------------------------------------------------
(* The sketch: SerialUSB.end() clears the line's data byte by byte.  It runs *)
(* while no interrupt does.                                                *)

EndRate ==
  /\ power = "running" /\ tick = "idle"
  /\ ends < MaxEnds /\ ~ending
  /\ ends' = ends + 1 /\ ending' = TRUE
  /\ rate' = 0
  /\ UNCHANGED <<dtr, ticks, handler, power, requests, host, age, overtaken>>

EndLineState ==
  /\ power = "running" /\ tick = "idle"
  /\ ending
  /\ ending' = FALSE
  /\ dtr' = FALSE
  /\ UNCHANGED <<rate, ends, ticks, handler, power, requests, host, age, overtaken>>

-----------------------------------------------------------------------------
(* The SysTick interrupt, every millisecond: tickReset(). *)

\* Faulty variant: no early return without a countdown.
TickLoadAlways ==
  /\ power = "running" /\ tick = "idle"
  /\ tick' = "loaded" /\ loaded' = ticks
  /\ age' = IF age < Delay THEN age + 1 ELSE age
  /\ UNCHANGED <<line, ticks, power, requests, sketch, host, overtaken>>

TickLoad ==
  /\ power = "running" /\ tick = "idle"
  /\ ticks # -1
  /\ tick' = "loaded" /\ loaded' = ticks
  /\ age' = IF age < Delay THEN age + 1 ELSE age
  /\ UNCHANGED <<line, ticks, power, requests, sketch, host, overtaken>>

\* ticks--; if (ticks == 0) banzai();
TickStore ==
  /\ power = "running" /\ tick = "loaded"
  /\ tick' = "idle"
  /\ ticks' = loaded - 1
  /\ power' = IF loaded = 1 THEN "erased" ELSE power
  /\ UNCHANGED <<line, loaded, requests, sketch, host, age, overtaken>>

\* banzai() has the interrupts disabled: nothing comes between.
SystemReset ==
  /\ power = "erased"
  /\ power' = "reset"
  /\ UNCHANGED <<line, ticks, handler, requests, sketch, host, age, overtaken>>

Tick == TickLoad \/ TickStore

Next == HostRequest \/ EndRate \/ EndLineState \/ Tick \/ SystemReset

Spec == Init /\ [][Next]_vars

\* The SysTick timer never stops while the processor runs.
FairSpec == Spec /\ WF_vars(Tick) /\ WF_vars(SystemReset)

-----------------------------------------------------------------------------
(* Properties. *)

Closed == hostRate = TouchRate /\ ~hostOpen

\* The application is erased only while the port is closed at 1200 bps,
\* unless the last request came in the middle of a tick or the sketch has made
\* the port forget that it is open.
ErasedOnlyIfClosed == power # "running" => Closed \/ overtaken \/ dtr # hostOpen

\* ... and not before the whole delay has passed since the last request that
\* asked for it.
WholeDelay == power # "running" => age = Delay \/ overtaken

\* The application is erased only while the port is closed at 1200 bps, and not before the
\* whole delay has passed, but for the request that came in the middle of a tick.
ErasedAfterDelay == ErasedOnlyIfClosed /\ WholeDelay

\* CDC.cpp:160, "auto-reset into the bootloader is triggered when the port,
\* already open at 1200 bps, is closed": an open port is no reason to reset.
OpenPortIsKept == power = "erased" => ~hostOpen
=============================================================================
