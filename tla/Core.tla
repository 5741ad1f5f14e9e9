-------------------------------- MODULE Core --------------------------------
(***************************************************************************)
(* What the core does (cores/arduino) for a sketch that shares the         *)
(* processor with interrupt handlers: its serial ports (UartRx, UartTx),   *)
(* the external interrupts, tone(), and the time.  They share nothing      *)
(* else, so each has variables of its own.                                 *)
(*                                                                         *)
(* A serial port (class Uart of cores/arduino/Uart.cpp) is the receiver    *)
(* and the transmitter of one object.  Each has a ring buffer of its own,  *)
(* and IrqHandler() serves the one and then the other: what the two do to  *)
(* each other is that an interrupt of the one runs the handler's part for  *)
(* the other, which both modules allow at any time.                        *)
(***************************************************************************)
EXTENDS UartRx

CONSTANTS
  TxSize,     \* elements of txBuffer (SERIAL_BUFFER_SIZE, 64)
  MaxBytes,   \* bound: bytes written
  Lines, EXTERNAL_NUM_INTERRUPTS, Guarded,                     \* of ExtInterrupts
  Pins, Frequencies, Durations, toneMaxFrequency, TONE_TC_TOP, \* of Tone
  Second, Word,
  MaxCalls, MaxTones,              \* bounds: calls of ExtInterrupts, and of Tone
  Tick, MicrosPerMs, Scale, Shift, CounterWord,                \* of Micros
  Callers, MaxTime, MaxStolen, Delays

VARIABLES
  tx_pc, byte, masked, txBuffer, dreInt, dataReg, shift, txc, line, flushed,
  ext_ISRlist, ext_ISRcallback, ext_nints, ext_INTEN, ext_INTFLAG, ext_sense, ext_ENABLE,
  ext_call, ext_step, ext_line, ext_current, ext_calls, ext_walking, ext_i, ext_running,
  ext_loaded, ext_transaction, ext_interruptMask, ext_global, ext_interruptSave, ext_PRIMASK,
  ext_attached, ext_owed, ext_shifted,
  tone_level, tone_running, tone_cc, tone_prescaler, tone_portPin, tone_lastOutputPin,
  tone_toneIsActive, tone_firstTimeRunning, tone_toggleCount, tone_calls, tone_frequency,
  tone_duration, tone_toggles, tone_stray,
  mi_now, mi_PENDST, mi_ulTickCount, mi_systick, mi_caller, mi_pc, mi_first, mi_stolen,
  mi_ticks, mi_pend, mi_count, mi_ticks2, mi_pend2, mi_count2, mi_delaying, mi_ms, mi_start,
  mi_called, mi_asked

Tx == INSTANCE UartTx WITH BufSize <- TxSize, pc <- tx_pc

Ext == INSTANCE ExtInterrupts WITH
  ISRlist <- ext_ISRlist, ISRcallback <- ext_ISRcallback, nints <- ext_nints,
  INTEN <- ext_INTEN, INTFLAG <- ext_INTFLAG, sense <- ext_sense, ENABLE <- ext_ENABLE,
  call <- ext_call, step <- ext_step, line <- ext_line, current <- ext_current,
  calls <- ext_calls, walking <- ext_walking, i <- ext_i, running <- ext_running,
  loaded <- ext_loaded, transaction <- ext_transaction, interruptMask <- ext_interruptMask,
  global <- ext_global, interruptSave <- ext_interruptSave, PRIMASK <- ext_PRIMASK,
  attached <- ext_attached, owed <- ext_owed, shifted <- ext_shifted

Tn == INSTANCE Tone WITH
  MaxCalls <- MaxTones,
  level <- tone_level, running <- tone_running, cc <- tone_cc, prescaler <- tone_prescaler,
  portPin <- tone_portPin, lastOutputPin <- tone_lastOutputPin,
  toneIsActive <- tone_toneIsActive, firstTimeRunning <- tone_firstTimeRunning,
  toggleCount <- tone_toggleCount, calls <- tone_calls, frequency <- tone_frequency,
  duration <- tone_duration, toggles <- tone_toggles, stray <- tone_stray

Mi == INSTANCE Micros WITH
  Period <- Tick, Word <- CounterWord,
  now <- mi_now, PENDST <- mi_PENDST, _ulTickCount <- mi_ulTickCount, systick <- mi_systick,
  caller <- mi_caller, pc <- mi_pc, first <- mi_first, stolen <- mi_stolen,
  ticks <- mi_ticks, pend <- mi_pend, count <- mi_count, ticks2 <- mi_ticks2,
  pend2 <- mi_pend2, count2 <- mi_count2, delaying <- mi_delaying, ms <- mi_ms,
  start <- mi_start, called <- mi_called, asked <- mi_asked

ASSUME UartAssumption == RxAssumption /\ Tx!TxAssumption

ASSUME CoreAssumption ==
  Ext!LinesAssumption /\ Tn!ToneAssumption /\ Mi!MicrosAssumption

-----------------------------------------------------------------------------
TypesOK == TypeOK /\ Tx!TypeOK /\ Ext!TypeOK /\ Tn!TypeOK /\ Mi!TypeOK

\* Bytes are sent once and in order, whenever a byte waits somebody will send it, and flush()
\* lets every byte reach the shift register.
TransmitterSound == Tx!TransmitterSound

\* With the calls masked: every line calls its own callback, the list is exact between calls,
\* no edge is forgotten, and no callback runs within a transaction that excludes it.
InterruptsSound ==
  Ext!OwnCallback /\ Ext!ListExact /\ Ext!NoneForgotten /\ Ext!TransactionAlone

\* Only the pin of the tone that plays is high, a tone nobody stops is complete, and a tone has the
\* frequency it was asked for, unless its prescaler is one that tone() does not set.
ToneSound == []Tn!OthersLow /\ Tn!WholeTone /\ []Tn!PlaysFrequency

\* micros() is right within its call, and delay() lasts as long as it was asked to.
TimeRight == Mi!InWindow /\ Mi!DelayLasts
=============================================================================
