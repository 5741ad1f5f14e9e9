------------------------------ MODULE Lifecycle ------------------------------
(***************************************************************************)
(* The whole cycle of a board: the sketch with the 1200 bps touch          *)
(* (AutoReset), the reset it ends in, the start decision and the upload    *)
(* (Boot), and the new sketch.  The two parts share the flash: banzai()    *)
(* erases the row of the vectors.  AutoReset runs while mode = "app" and   *)
(* starts from its initial state each time.                                *)
(***************************************************************************)
EXTENDS AutoReset, Boot

lvars == <<vars, bvars>>

LInit == Init /\ BootInit

-----------------------------------------------------------------------------

\* banzai() erases the first row.
Banzai == [p \in Page |-> IF p < RowPages THEN "erased" ELSE flash[p]]

Sketch ==
  /\ mode = "app"
  /\ HostRequest \/ EndRate \/ EndLineState \/ Tick
  /\ flash' = IF power' = "erased" THEN Banzai ELSE flash
  /\ UNCHANGED <<mode, power_on, magic, secure, busy, session, resets, taps>>

TouchReset ==
  /\ mode = "app"
  /\ SystemReset /\ SoftReset
  /\ UNCHANGED <<flash, resets>>

\* An application that starts has its variables initialised.
StartSketch ==
  /\ rate' = FirstRate /\ dtr' = FALSE
  /\ ticks' = -1 /\ tick' = "idle" /\ loaded' = -1
  /\ power' = "running"
  /\ requests' = 0 /\ ends' = 0 /\ ending' = FALSE
  /\ hostRate' = FirstRate /\ hostOpen' = FALSE
  /\ age' = 0 /\ overtaken' = FALSE

BootPart ==
  /\ BootNext
  /\ IF mode' = "app" THEN StartSketch ELSE UNCHANGED vars

LNext == Sketch \/ TouchReset \/ BootPart

LSpec == LInit /\ [][LNext]_lvars

\* The processor runs, and an uploading host goes on until it is stopped.
LFairSpec ==
  /\ LSpec
  /\ WF_lvars(Sketch /\ Tick) /\ WF_lvars(TouchReset)
  /\ WF_lvars(BootPart /\ BootStep)

-----------------------------------------------------------------------------
(* Properties. *)

LTypeOK == TypeOK /\ BootTypeOK

\* A port that stays closed at 1200 bps ends in the monitor: the erased
\* vectors keep the bootloader from starting the sketch again.  Any other
\* reset may come first.
TouchReachesMonitor ==
  [](mode = "app" /\ Closed /\ rate = TouchRate /\ requests = MaxRequests /\ resets = MaxResets
       => <>(mode = "monitor"))

\* The board comes back to an application, whatever interrupts the uploads: the
\* bootloader does not hold on to a second tap.
UploadEnds == []<>(mode = "app")
=============================================================================
