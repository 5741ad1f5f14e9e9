-------------------------------- MODULE Tone --------------------------------
(***************************************************************************)
(* tone(), noTone() and Tone_Handler() (cores/arduino/Tone.cpp).  tone()   *)
(* works with its interrupt disabled and noTone() stops the timer first:   *)
(* each is one step for the handler.                                       *)
(***************************************************************************)
EXTENDS Integers, FiniteSets, FiniteSetsExt

CONSTANTS
  Pins,
  Frequencies, Durations,   \* the arguments of the sketch
  toneMaxFrequency,         \* F_CPU / 2
  TONE_TC_TOP,              \* 0xFFFF
  Second,                   \* ms of a second (1000)
  Word,                     \* values of an unsigned long (2^32)
  MaxCalls                  \* bound: calls of the sketch

ToneAssumption ==
  /\ IsFiniteSet(Pins) /\ {toneMaxFrequency, TONE_TC_TOP, Second, Word} \subseteq Nat \ {0}
  /\ Frequencies \subseteq 0..toneMaxFrequency /\ Durations \subseteq Nat /\ MaxCalls \in Nat
  /\ TONE_TC_TOP > 1 /\ toneMaxFrequency \div 1024 <= TONE_TC_TOP + 1   \* the search below ends

VARIABLES
  level,          \* per pin: HIGH?
  running,        \* the timer is enabled
  cc, prescaler,  \* the timer: the value it counts to, and the clocks of a count
  portPin,        \* portToggleRegister, portClearRegister and portBitMask
  lastOutputPin, toneIsActive, firstTimeRunning, toggleCount,
  calls,
  frequency, duration,   \* history: of the last tone()
  toggles,               \* history: changes of the pin since
  stray                  \* history: a tone that no noTone() of tone() will stop:
                         \* played again on the same pin, or left by the noTone()
                         \* of another pin

flags   == <<lastOutputPin, toneIsActive, firstTimeRunning>>
history == <<frequency, duration, toggles, stray>>
timer   == <<running, cc, prescaler>>
vars    == <<level, timer, portPin, flags, toggleCount, calls, history>>

TypeOK ==
  /\ level \in [Pins -> BOOLEAN] /\ running \in BOOLEAN
  /\ cc \in 0..TONE_TC_TOP /\ prescaler \in Nat \ {0}
  /\ portPin \in Pins \cup {"none"} /\ lastOutputPin \in Pins \cup {"none"}
  /\ toneIsActive \in BOOLEAN /\ firstTimeRunning \in BOOLEAN
  /\ toggleCount \in -1..Word /\ calls \in 0..MaxCalls
  /\ frequency \in Frequencies \cup {0} /\ duration \in Durations \cup {0}
  /\ toggles \in Nat /\ stray \in BOOLEAN

Init ==
  /\ level = [p \in Pins |-> FALSE] /\ running = FALSE /\ cc = 0 /\ prescaler = 1
  /\ portPin = "none"
  /\ lastOutputPin = "none" /\ toneIsActive = FALSE /\ firstTimeRunning = FALSE /\ toggleCount = 0
  /\ calls = 0 /\ frequency = 0 /\ duration = 0 /\ toggles = 0 /\ stray = FALSE

-----------------------------------------------------------------------------
(* The search for a prescaler.  The n-th turn divides by 2 << Shifts[n]:     *)
(* DIV32, DIV128 and DIV512 are not available.                              *)

Shifts == <<0, 1, 2, 3, 5, 7, 9>>

Divisor(n) == IF n = 0 THEN 1 ELSE 2 ^ (Shifts[n] + 1)

Quotient(f, n) == (toneMaxFrequency \div f) \div Divisor(n)

\* A ccValue of 0 - 1 is as large as they get.
Turns(f) == Min({n \in 0..7 : Quotient(f, n) - 1 \in 0..TONE_TC_TOP})

CcValue(f) == Quotient(f, Turns(f)) - 1

\* i behind the loop: the next shift, which skips 4, 6 and 8.
NextShift(n) ==
  IF n = 0 THEN 0 ELSE IF Shifts[n] + 1 \in {4, 6, 8} THEN Shifts[n] + 2 ELSE Shifts[n] + 1

\* switch (i-1): DIV1 for an i that has skipped.
Prescaler(n) == IF NextShift(n) - 1 \in {0, 1, 2, 3, 5, 7, 9} THEN 2 ^ NextShift(n) ELSE 1

-----------------------------------------------------------------------------
(* The sketch. *)

Low(lvl, p) == [lvl EXCEPT ![p] = FALSE]

noTone(p) ==
  /\ IF firstTimeRunning
     THEN /\ running' = FALSE /\ level' = Low(level, p) /\ toneIsActive' = FALSE
          /\ stray' = (stray \/ (running /\ p # portPin))
     ELSE UNCHANGED <<running, level, toneIsActive, stray>>
  /\ UNCHANGED <<cc, prescaler, portPin, lastOutputPin, firstTimeRunning, toggleCount, frequency,
                 duration, toggles>>

\* The tone on another pin is stopped.
StopLast(p) == IF toneIsActive /\ p # lastOutputPin THEN Low(level, lastOutputPin) ELSE level

ToggleCount(f, d) == IF d > 0 THEN ((f * d * 2) % Word) \div Second ELSE -1

tone(p, f, d) ==
  /\ firstTimeRunning' = TRUE
  /\ cc' = CcValue(f) /\ prescaler' = Prescaler(Turns(f))
  /\ toggleCount' = ToggleCount(f, d)
  /\ portPin' = p /\ running' = TRUE
  /\ IF p # lastOutputPin
     THEN /\ lastOutputPin' = p /\ toneIsActive' = TRUE
          /\ level' = Low(StopLast(p), p)
     ELSE UNCHANGED <<lastOutputPin, toneIsActive, level>>
  /\ frequency' = f /\ duration' = d /\ toggles' = 0
  /\ stray' = (stray \/ (p = lastOutputPin /\ ~toneIsActive))

CallTone ==
  /\ calls < MaxCalls /\ calls' = calls + 1
  /\ \E p \in Pins, f \in Frequencies, d \in Durations :
       IF f = 0 THEN noTone(p) ELSE tone(p, f, d)

CallNoTone ==
  /\ calls < MaxCalls /\ calls' = calls + 1
  /\ \E p \in Pins : noTone(p)

-----------------------------------------------------------------------------
(* Tone_Handler(). *)

\* Faulty variant: the count starts with the first change.
CountedPast == IF toggleCount > 0 /\ toggles > 0 THEN toggleCount - 1 ELSE toggleCount

Counted == IF toggleCount > 0 THEN toggleCount - 1 ELSE toggleCount

Toggle ==
  /\ running /\ toggleCount # 0
  /\ level' = [level EXCEPT ![portPin] = ~@]
  /\ toggleCount' = Counted
  /\ toggles' = IF toggleCount > 0 THEN toggles + 1 ELSE toggles
  /\ UNCHANGED <<timer, portPin, flags, calls, frequency, duration, stray>>

Stop ==
  /\ running /\ toggleCount = 0
  /\ running' = FALSE /\ level' = Low(level, portPin) /\ toneIsActive' = FALSE
  /\ UNCHANGED <<cc, prescaler, portPin, lastOutputPin, firstTimeRunning, toggleCount, calls,
                 history>>

Tone_Handler == Toggle \/ Stop

Next == CallTone \/ CallNoTone \/ Tone_Handler

Spec == Init /\ [][Next]_vars

\* The timer goes on.
FairSpec == Spec /\ WF_vars(Tone_Handler)

-----------------------------------------------------------------------------
(* Properties. *)

\* A pin that has no tone is low, whatever tones were played on it before, as
\* long as tone() knows of the tone it replaces.
OthersLow == ~stray => \A p \in Pins : level[p] => p = portPin /\ running

\* A tone with a duration that nothing stops has the changes of the pin that it
\* was asked for, and leaves the pin low.
WholeTone ==
  [][Stop /\ frequency * duration * 2 < Word
       => toggles = (frequency * duration * 2) \div Second /\ ~level'[portPin]]_vars

\* Whatever tones were played before, the timer comes round in half a period of the
\* frequency, short of it by less than one count.  Not so where the search ended with 16,
\* 64 or 256, for which no prescaler is set (Prescaler): such a tone is that much too high.
PlaysFrequency ==
  running /\ Divisor(Turns(frequency)) \notin {16, 64, 256} =>
    /\ (cc + 1) * prescaler <= toneMaxFrequency \div frequency
    /\ toneMaxFrequency \div frequency < (cc + 2) * prescaler

\* A tone with a duration ends.
ToneEnds == running /\ duration > 0 ~> ~running \/ duration = 0
=============================================================================
