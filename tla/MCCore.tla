-------------------------------- MODULE MCCore --------------------------------
(***************************************************************************)
(* The parts of the core that share nothing but the processor, in one run: *)
(* the transmitter and the receiver of a serial port, the external         *)
(* interrupts, tone() and micros() (Core).  part says which one a          *)
(* behaviour is about; the others stay in their initial states, so a       *)
(* property of a part holds of every behaviour iff it holds of the part.   *)
(***************************************************************************)
EXTENDS Core

VARIABLE part

txVars == <<tx_pc, byte, masked, txBuffer, dreInt, dataReg, shift, txc, line, flushed>>

extVars == <<
  ext_ISRlist, ext_ISRcallback, ext_nints, ext_INTEN, ext_INTFLAG, ext_sense, ext_ENABLE,
  ext_call, ext_step, ext_line, ext_current, ext_calls, ext_walking, ext_i, ext_running,
  ext_loaded, ext_transaction, ext_interruptMask, ext_global, ext_interruptSave, ext_PRIMASK,
  ext_attached, ext_owed, ext_shifted>>

toneVars == <<
  tone_level, tone_running, tone_cc, tone_prescaler, tone_portPin, tone_lastOutputPin,
  tone_toneIsActive, tone_firstTimeRunning, tone_toggleCount, tone_calls, tone_frequency,
  tone_duration, tone_toggles, tone_stray>>

microsVars == <<
  mi_now, mi_PENDST, mi_ulTickCount, mi_systick, mi_caller, mi_pc, mi_first, mi_stolen,
  mi_ticks, mi_pend, mi_count, mi_ticks2, mi_pend2, mi_count2, mi_delaying, mi_ms, mi_start,
  mi_called, mi_asked>>

CoreInit ==
  /\ part \in {"transmit", "receive", "interrupts", "tone", "micros"}
  /\ Tx!Init /\ Init /\ Ext!Init /\ Tn!Init /\ Mi!Init

CoreNext ==
  /\ UNCHANGED part
  /\ \/ part = "transmit" /\ Tx!Next /\ UNCHANGED <<vars, extVars, toneVars, microsVars>>
     \/ part = "receive" /\ Next /\ UNCHANGED <<txVars, extVars, toneVars, microsVars>>
     \/ part = "interrupts" /\ Ext!Next /\ UNCHANGED <<vars, txVars, toneVars, microsVars>>
     \/ part = "tone" /\ Tn!Next /\ UNCHANGED <<vars, txVars, extVars, microsVars>>
     \/ part = "micros" /\ Mi!Next /\ UNCHANGED <<vars, txVars, extVars, toneVars>>

\* The fairness of each part, as its own specification states it.
CoreSpec ==
  /\ CoreInit /\ [][CoreNext]_<<part, vars, txVars, extVars, toneVars, microsVars>>
  /\ WF_txVars(part = "transmit" /\ Tx!StartShift) /\ WF_txVars(part = "transmit" /\ Tx!EndShift)
  /\ SF_txVars(part = "transmit" /\ Tx!DreInterrupt)
  /\ SF_txVars(part = "transmit" /\ Tx!Mask /\ masked)
  /\ SF_txVars(part = "transmit" /\ Tx!InCall)
  /\ WF_vars(part = "receive" /\ IrqHandler) /\ SF_vars(part = "receive" /\ Read)
  /\ WF_extVars(part = "interrupts" /\ Ext!Handler) /\ WF_extVars(part = "interrupts" /\ Ext!Steps)
  /\ WF_extVars(part = "interrupts" /\ Ext!EndTransaction)
  /\ WF_toneVars(part = "tone" /\ Tn!Tone_Handler)

-----------------------------------------------------------------------------
\* write() and flush() return, every byte is sent, and a sender that RTS stopped goes on.
UartEnds == Tx!CallsReturn /\ Tx!AllSent /\ RtsComesBack

\* Every enabled line with an edge is served, and a tone with a duration ends.
HandlersServe == Ext!InterruptsServed /\ Tn!ToneEnds
=============================================================================
