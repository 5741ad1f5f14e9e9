--------------------------------- MODULE Rtc ---------------------------------
(***************************************************************************)
(* The real-time clock (libraries/RTC/RTCR34.cpp) and the timed sleep of   *)
(* libraries/StampLowPower/StampLowPower.cpp.  Clock and alarm are         *)
(* registers of fields; the clock is written at once by setEpoch() and     *)
(* field by field by setTime(), the alarm always field by field, while the *)
(* seconds go on.  A field of the clock is written with the whole register *)
(* read before it, and a second that passes between the two is undone; the *)
(* alarm has no other writer.  Month and year are like the day, and are    *)
(* left out.                                                               *)
(***************************************************************************)
EXTENDS Integers, Sequences

CONSTANTS
  S, M, H, D,   \* seconds of a minute, minutes of an hour, hours of a day, days of the calendar
  Times,        \* the epochs the sketch sets
  Sleeps,       \* the seconds it sleeps: millis / 1000
  MaxCalls, MaxResets   \* bounds

RtcAssumption ==
  /\ {S, M, H, D} \subseteq Nat \ {0, 1} /\ Times \subseteq 0..(S * M * H * D - 1) /\ Sleeps \subseteq Nat
  /\ {MaxCalls, MaxResets} \subseteq Nat

VARIABLES
  clock, alarm,    \* CLOCK, ALARM
  mask,            \* "OFF" or "YYMMDDHHMMSS"
  ALARM0,          \* the interrupt flag
  enabled,         \* INTENSET, and the interrupt in the NVIC
  RCAUSE,          \* cause of the last reset: "POR" or "SYST"
  _configured,
  pc,              \* the sketch: "idle", "begin", "time", "store", "alarm", "enable", "wfi",
                   \*   "asleep" or "waking"
  rest,            \* the fields the call still has to write
  arg,             \* the date they come from
  loaded,          \* CLOCK as it was read, to write a field of it
  edges,           \* seconds that have passed in the call: at most one
  calls, resets

hardware == <<clock, ALARM0>>
vars     == <<hardware, alarm, mask, enabled, RCAUSE, _configured, pc, rest, arg, edges,
              calls, resets, loaded>>

Epoch(d) == d.second + S * (d.minute + M * (d.hour + H * d.day))
Date(t) == [second |-> t % S, minute |-> (t \div S) % M,
            hour |-> (t \div (S * M)) % H, day |-> (t \div (S * M * H)) % D]
Last == S * M * H * D - 1

\* The order of the writes of setTime(), and of setAlarmDate() and setAlarmTime().
MinutesFirst == <<"minute", "second", "hour">>   \* mutant: the seconds run into a written minute
TimeFields == <<"second", "minute", "hour">>
TimeOnly == TimeFields                       \* mutant: the date of the alarm is not written
AlarmFields == <<"day">> \o TimeFields

Init ==
  /\ clock = Date(0) /\ alarm = Date(0) /\ mask = "OFF" /\ ALARM0 = FALSE /\ enabled = FALSE
  /\ RCAUSE = "POR" /\ _configured = FALSE
  /\ pc = "idle" /\ rest = <<>> /\ arg = Date(0) /\ loaded = Date(0)
  /\ edges = 0 /\ calls = 0 /\ resets = 0

-----------------------------------------------------------------------------
(* The peripheral (external): the interrupt flag is set by the edge that   *)
(* ends the second of the match.  A call takes less than a second, a sleep *)
(* and the waking from it any time.                                        *)

Resting == {"idle", "asleep", "waking"}

Match == mask # "OFF" /\ clock = alarm

Tick ==
  /\ Epoch(clock) < Last
  /\ pc \notin Resting => edges = 0
  /\ clock' = Date(Epoch(clock) + 1)
  /\ ALARM0' = (ALARM0 \/ Match)
  /\ edges' = IF pc \in Resting THEN edges ELSE 1
  /\ UNCHANGED <<alarm, mask, enabled, RCAUSE, _configured, pc, rest, arg, calls, resets, loaded>>

-----------------------------------------------------------------------------
(* RTC_Handler(): at once, and WFI returns.                                *)

Handler ==
  /\ ALARM0 /\ enabled
  /\ ALARM0' = FALSE
  /\ pc' = IF pc = "asleep" THEN "waking" ELSE pc
  /\ UNCHANGED <<clock, alarm, mask, enabled, RCAUSE, _configured, rest, arg, edges, calls,
                 resets, loaded>>

-----------------------------------------------------------------------------
(* The sketch; an interrupt goes first.                                    *)

Runs == ~(ALARM0 /\ enabled)

Call(where) ==
  /\ Runs /\ pc = "idle" /\ calls < MaxCalls /\ calls' = calls + 1
  /\ pc' = where /\ edges' = 0

\* begin(resetTime), or setAlarmIn() of an RTC that is not configured: the software reset of
\* RTCreset() clears every register, CLOCK and the mask included, before the old time is read.
oldTime == Date(0)
Restored(resetTime) ==
  IF ~resetTime /\ RCAUSE = "SYST" /\ Epoch(oldTime) # 0 THEN oldTime ELSE Date(0)

Configure(resetTime) ==
  /\ clock' = Restored(resetTime) /\ alarm' = Date(0) /\ mask' = "OFF"
  /\ ALARM0' = FALSE /\ enabled' = TRUE /\ _configured' = TRUE
  /\ UNCHANGED RCAUSE

Begin ==
  /\ Call("idle") /\ \E resetTime \in BOOLEAN : Configure(resetTime)
  /\ UNCHANGED <<rest, arg, resets, loaded>>

\* setEpoch() writes the register at once.
SetEpoch(t) ==
  /\ _configured /\ Call("idle")
  /\ clock' = Date(t)
  /\ UNCHANGED <<ALARM0, alarm, mask, enabled, RCAUSE, _configured, rest, arg, resets, loaded>>

SetTime(t) ==
  /\ _configured /\ Call("time")
  /\ arg' = [Date(t) EXCEPT !.day = clock.day] /\ rest' = TimeFields
  /\ UNCHANGED <<hardware, alarm, mask, enabled, RCAUSE, _configured, resets, loaded>>

\* CLOCK.bit.X = x: the register is read, and written with the field.
LoadField ==
  /\ Runs /\ pc = "time" /\ rest # <<>>
  /\ loaded' = clock /\ pc' = "store"
  /\ UNCHANGED <<hardware, alarm, mask, enabled, RCAUSE, _configured, rest, arg, edges, calls,
                 resets>>

SetField ==
  /\ Runs /\ pc = "store"
  /\ clock' = [loaded EXCEPT ![Head(rest)] = arg[Head(rest)]]
  /\ rest' = Tail(rest)
  /\ pc' = IF Len(rest) = 1 THEN "idle" ELSE "time"
  /\ UNCHANGED <<ALARM0, alarm, mask, enabled, RCAUSE, _configured, arg, edges, calls, resets,
                 loaded>>

\* sleep(millis), first half: setAlarmIn() reads the epoch, and setAlarmEpoch() writes the
\* date and then the time.  The mask of an earlier alarm stays on meanwhile.
SleepFor(k) ==
  /\ Call(IF _configured THEN "alarm" ELSE "begin")
  /\ Epoch(clock) + k + 2 < Last
  /\ IF _configured
     THEN /\ arg' = Date(Epoch(clock) + k) /\ rest' = AlarmFields
          /\ UNCHANGED <<hardware, alarm, mask, enabled, RCAUSE, _configured>>
     ELSE /\ Configure(FALSE) /\ arg' = Date(k) /\ UNCHANGED rest
  /\ UNCHANGED <<resets, loaded>>

\* begin(false) of setAlarmIn() is done: getEpoch(), and the new date.
SleepBegun ==
  /\ Runs /\ pc = "begin"
  /\ arg' = Date(Epoch(clock) + Epoch(arg)) /\ rest' = AlarmFields
  /\ pc' = "alarm"
  /\ UNCHANGED <<hardware, alarm, mask, enabled, RCAUSE, _configured, edges, calls, resets, loaded>>

SetAlarmField ==
  /\ Runs /\ pc = "alarm"
  /\ alarm' = [alarm EXCEPT ![Head(rest)] = arg[Head(rest)]]
  /\ rest' = Tail(rest)
  /\ pc' = IF Len(rest) = 1 THEN "enable" ELSE pc
  /\ UNCHANGED <<hardware, mask, enabled, RCAUSE, _configured, arg, edges, calls, resets, loaded>>

\* enableAlarm(); the clocks are slowed down; WFI.
EnableAndSleep ==
  /\ Runs /\ pc \in {"enable", "wfi"}
  /\ IF pc = "enable" THEN mask' = "YYMMDDHHMMSS" /\ pc' = "wfi"
                      ELSE UNCHANGED mask /\ pc' = "asleep"
  /\ UNCHANGED <<hardware, alarm, enabled, RCAUSE, _configured, rest, arg, edges, calls,
                 resets, loaded>>

\* The code of sleep() behind WFI: the clocks are started again, each waited for.  It returns
\* when they all are; nothing here says that they ever are.
Wake ==
  /\ Runs /\ pc = "waking" /\ pc' = "idle"
  /\ UNCHANGED <<hardware, alarm, mask, enabled, RCAUSE, _configured, rest, arg, edges, calls,
                 resets, loaded>>

\* A system reset: the RTC goes on, the variables of the sketch start anew.
Reset ==
  /\ resets < MaxResets /\ resets' = resets + 1
  /\ RCAUSE' = "SYST" /\ _configured' = FALSE
  /\ pc' = "idle" /\ rest' = <<>> /\ edges' = 0 /\ enabled' = FALSE
  /\ UNCHANGED <<hardware, alarm, mask, arg, loaded, calls>>

Next ==
  \/ Tick \/ Handler \/ Begin \/ LoadField \/ SetField \/ SleepBegun \/ SetAlarmField
  \/ EnableAndSleep \/ Wake \/ Reset
  \/ \E t \in Times : SetEpoch(t) \/ SetTime(t)
  \/ \E k \in Sleeps : SleepFor(k)

Fairness == WF_vars(Tick) /\ WF_vars(Handler)

Spec == Init /\ [][Next]_vars

FairSpec == Spec /\ Fairness

-----------------------------------------------------------------------------
Dates == [second : 0..(S - 1), minute : 0..(M - 1), hour : 0..(H - 1), day : 0..(D - 1)]

TypeOK ==
  /\ {clock, alarm, arg, loaded} \subseteq Dates /\ mask \in {"OFF", "YYMMDDHHMMSS"}
  /\ {ALARM0, enabled, _configured} \subseteq BOOLEAN /\ RCAUSE \in {"POR", "SYST"}
  /\ pc \in {"idle", "begin", "time", "store", "alarm", "enable", "wfi", "asleep", "waking"}
  /\ edges \in 0..1 /\ calls \in 0..MaxCalls /\ resets \in 0..MaxResets

\* setTime() leaves the time it was given, or one second more, although the clock goes on
\* between its reads and writes: a carry goes wrong only when the last second of a minute was
\* asked for (RTCR34.cpp setTime: the seconds are written first).
TimeIsSet ==
  [][(pc = "store" /\ Len(rest) = 1 /\ rest' # rest /\ calls' = calls /\ resets' = resets
        /\ arg.second # S - 1 /\ clock'.day = arg.day)
       => Epoch(clock') - Epoch(arg) \in {0, 1}]_vars

\* A timed sleep ends by itself, although the alarm is written field by field and the second
\* may change before it is armed (StampLowPower.cpp setAlarmIn, sleep).
SleepEnds == pc = "asleep" ~> pc # "asleep"
=============================================================================
