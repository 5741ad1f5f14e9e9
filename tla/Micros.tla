-------------------------------- MODULE Micros --------------------------------
(***************************************************************************)
(* micros() and delay() (cores/arduino/delay.c) over the SysTick timer and *)
(* its handler.  The unit of time is a clock of the timer; a millisecond   *)
(* has Period of them, and micros() scales them with one multiplication    *)
(* and one shift.  Time goes on with every read, and by any amount where   *)
(* handlers run in between.                                                *)
(***************************************************************************)
EXTENDS Integers

CONSTANTS
  Period,     \* SysTick->LOAD + 1
  MicrosPerMs,  \* 1000
  Scale,      \* 1048576 / (VARIANT_MCK / 1000000)
  Shift,      \* 1048576, what >> 20 divides by
  Word,       \* values of an unsigned long (2^32)
  Callers,    \* "sketch", "masked" (the interrupts are off), "handler" (of a
              \* priority above the one of SysTick)
  MaxTime,    \* bound: clocks
  MaxStolen,  \* bound: clocks that others take within one reading of the time
  Delays      \* the ms delay() is called with

\* One reading of the time, with all that handlers take from it, is over before the microseconds
\* go round (71 minutes), and the clocks of a ms scale to less than a ms.
MicrosAssumption ==
  /\ {Period, MicrosPerMs, Scale, Shift, Word, MaxTime, MaxStolen} \cup Delays \subseteq Nat \ {0}
  /\ Period > 1 /\ (Period - 1) * Scale < MicrosPerMs * Shift
  /\ Callers \subseteq {"sketch", "masked", "handler"}
  /\ MaxStolen + 6 <= Word

VARIABLES
  now,                     \* the true time
  PENDST,                  \* SCB->ICSR
  _ulTickCount,
  systick,                 \* SysTick_Handler(): "idle" or "entered"
  caller, pc,              \* of micros(): who runs it, what it does next
  first, stolen,           \* it has not read twice yet; clocks taken from it so far
  ticks, pend, count,      \* the reading before
  ticks2, pend2, count2,   \* the last reading
  delaying,                \* delay() of the sketch: "no", "start" or "loop"
  ms, start,
  called, asked            \* history: when micros() or delay() was called,
                           \* and the ms of delay()

timer   == <<now, PENDST>>
progress == <<first, stolen>>
reading == <<ticks, pend, count>>
last    == <<ticks2, pend2, count2>>
delay   == <<delaying, ms, start>>
history == <<called, asked>>
vars    == <<timer, _ulTickCount, systick, caller, pc, progress, reading, last, delay, history>>

TypeOK ==
  /\ now \in 0..MaxTime /\ PENDST \in 0..1 /\ _ulTickCount \in 0..Word - 1
  /\ systick \in {"idle", "entered"}
  /\ caller \in Callers \cup {"none"} /\ pc \in {"ticks", "pend", "count", "test"} /\ first \in BOOLEAN
  /\ {ticks, ticks2} \subseteq 0..Period - 1 /\ {pend, pend2} \subseteq 0..1
  /\ {count, count2} \subseteq 0..Word - 1
  /\ delaying \in {"no", "start", "loop"} /\ ms \in Nat /\ start \in 0..Word - 1
  /\ stolen \in 0..MaxStolen /\ called \in 0..MaxTime /\ asked \in Delays \cup {0}

\* SysTick->VAL counts down to 0 and starts again.
VAL(t) == Period - 1 - (t % Period)

Init ==
  /\ now = 0 /\ PENDST = 0 /\ _ulTickCount = 0 /\ systick = "idle"
  /\ caller = "none" /\ pc = "ticks" /\ first = TRUE /\ stolen = 0
  /\ ticks = 0 /\ pend = 0 /\ count = 0 /\ ticks2 = 0 /\ pend2 = 0 /\ count2 = 0
  /\ delaying = "no" /\ ms = 0 /\ start = 0
  /\ called = 0 /\ asked = 0

-----------------------------------------------------------------------------
(* The timer and its handler. *)

\* A clock; the interrupt is pending from 0 on.  Handlers and masked stretches
\* are shorter than a tick: none is lost.
Clock ==
  /\ now < MaxTime /\ now' = now + 1
  /\ IF VAL(now') = 0 THEN PENDST = 0 /\ systick = "idle" /\ PENDST' = 1 ELSE UNCHANGED PENDST

Enter ==
  /\ PENDST = 1 /\ systick = "idle" /\ caller \notin {"masked", "handler"}
  /\ PENDST' = 0 /\ systick' = "entered"
  /\ UNCHANGED <<now, _ulTickCount, caller, pc, progress, reading, last, delay, history>>

SysTick_DefaultHandler ==
  /\ systick = "entered" /\ caller # "handler"
  /\ systick' = "idle" /\ _ulTickCount' = (_ulTickCount + 1) % Word
  /\ UNCHANGED <<timer, caller, pc, progress, reading, last, delay, history>>

\* What preempts the caller, or runs while nobody calls.
Others ==
  /\ Clock
  /\ caller # "none" => stolen < MaxStolen
  /\ stolen' = IF caller = "none" THEN 0 ELSE stolen + 1
  /\ UNCHANGED <<_ulTickCount, systick, caller, pc, first, reading, last, delay, history>>

-----------------------------------------------------------------------------
(* micros().  The sketch goes on when the handler of SysTick has ended. *)

Runs(p) ==
  /\ caller # "none" /\ pc = p
  /\ caller = "sketch" => systick = "idle" /\ PENDST = 0

Call(c) ==
  /\ caller = "none"
  /\ c # "handler" => systick = "idle" /\ PENDST = 0
  /\ caller' = c /\ pc' = "ticks" /\ first' = TRUE /\ stolen' = 0
  /\ UNCHANGED <<timer, _ulTickCount, systick, reading, last>>

ReadTicks ==
  /\ Runs("ticks") /\ pc' = "pend"
  /\ ticks' = ticks2 /\ pend' = pend2 /\ count' = count2
  /\ ticks2' = VAL(now) /\ Clock
  /\ UNCHANGED <<_ulTickCount, systick, caller, progress, pend2, count2, delay, history>>

ReadPend ==
  /\ Runs("pend") /\ pc' = "count"
  /\ pend2' = PENDST /\ Clock
  /\ UNCHANGED <<_ulTickCount, systick, caller, progress, reading, ticks2, count2, delay, history>>

ReadCount ==
  /\ Runs("count") /\ pc' = IF first THEN "ticks" ELSE "test"
  /\ count2' = _ulTickCount /\ first' = FALSE /\ Clock
  /\ UNCHANGED <<stolen, _ulTickCount, systick, caller, reading, ticks2, pend2, delay, history>>

\* Faulty variant: that the timer has started again is not seen.
StableIfRolled == pend = pend2 /\ count = count2

Stable == pend = pend2 /\ count = count2 /\ ticks >= ticks2

Again ==
  /\ Runs("test") /\ ~Stable /\ pc' = "ticks"
  /\ UNCHANGED <<timer, _ulTickCount, systick, caller, progress, reading, last, delay, history>>

\* The microseconds in n clocks of a ms.
Scaled(n) == (n * Scale) \div Shift

Value == ((count + pend) * MicrosPerMs + Scaled(Period - 1 - ticks)) % Word

\* The value is returned to the caller, or to delay().
Return ==
  /\ Runs("test") /\ Stable
  /\ caller' = "none" /\ pc' = "ticks" /\ first' = TRUE /\ stolen' = 0
  /\ ticks' = 0 /\ pend' = 0 /\ count' = 0 /\ ticks2' = 0 /\ pend2' = 0 /\ count2' = 0
  /\ UNCHANGED <<timer, _ulTickCount, systick>>

ReturnToCaller ==
  /\ Return /\ (caller = "sketch" => delaying = "no")
  /\ called' = 0 /\ UNCHANGED <<delay, asked>>

-----------------------------------------------------------------------------
(* delay(). *)

CallMicros ==
  /\ delaying = "no" /\ \E c \in Callers : Call(c)
  /\ called' = now /\ UNCHANGED <<delay, asked>>

CallDelay ==
  /\ delaying = "no" /\ "sketch" \in Callers
  /\ Call("sketch") /\ delaying' = "start" /\ called' = now
  /\ \E n \in Delays : ms' = n /\ asked' = n
  /\ UNCHANGED start

DelayStarts ==
  /\ Return /\ caller = "sketch" /\ delaying = "start"
  /\ start' = Value /\ delaying' = "loop" /\ UNCHANGED <<ms, history>>

MsPassed == ((Value - start) % Word) \div MicrosPerMs

DelayLoops ==
  /\ Return /\ caller = "sketch" /\ delaying = "loop"
  /\ LET n == IF MsPassed < ms THEN MsPassed ELSE ms IN
       /\ ms' = ms - n
       /\ IF n = ms
          THEN delaying' = "no" /\ start' = 0 /\ called' = 0 /\ asked' = 0
          ELSE start' = (start + n * MicrosPerMs) % Word /\ UNCHANGED <<delaying, history>>

\* yield(), then the time is read again.
DelayReads ==
  /\ delaying = "loop" /\ Call("sketch")
  /\ UNCHANGED <<delay, history>>

Next ==
  \/ Enter \/ SysTick_DefaultHandler \/ Others
  \/ CallMicros \/ ReadTicks \/ ReadPend \/ ReadCount \/ Again \/ ReturnToCaller
  \/ CallDelay \/ DelayStarts \/ DelayLoops \/ DelayReads

Spec == Init /\ [][Next]_vars

-----------------------------------------------------------------------------
(* Properties. *)

\* The microseconds of a time, as micros() scales them: those of the whole ms, and those of the
\* clocks since, rounded down.
Us(t) == (t \div Period) * MicrosPerMs + Scaled(t % Period)

Times(from) == {Us(t) % Word : t \in from..now}

\* What micros() returns are the microseconds of a time between its call and its
\* return, whatever runs between its reads; a handler of a priority above
\* SysTick can get the time of a tick ago.
InWindow ==
  [][Return => Value \in Times(IF caller = "handler" THEN called - Period ELSE called)]_vars

\* delay() takes at least the time it was asked for, in the whole microseconds that micros() counts,
\* also when these start again at zero.
DelayLasts ==
  [][DelayLoops /\ delaying' = "no" => Us(now) - Us(called) >= asked * MicrosPerMs]_vars
=============================================================================
