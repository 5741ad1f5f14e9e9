-------------------------------- MODULE MCUsb --------------------------------
(***************************************************************************)
(* The parts of the USB device, each with its own interrupts and its own   *)
(* host, in one run: part says which one a behaviour is about, and the     *)
(* others stay in their initial states, so a property of a part holds of   *)
(* every behaviour iff it holds of the part.                               *)
(***************************************************************************)
EXTENDS UsbDevice

VARIABLE part

ctlVars == <<
  DADD, _usbConfiguration, EORST, SOF, RXSTP, TRCPT0, TRCPT1, BK0RDY, BK1RDY, STALLRQ1,
  BYTE_COUNT, ctl_pc, setup, stage, known, gotData, requests, resets>>

inVars == <<
  in_pc, in_len, in_timeout, in_timedOut, in_result, in_cache, in_byteCount, in_bk1rdy,
  in_trcpt1, in_onBus, in_clears, in_armed, in_received, in_dropped, in_raced>>

seVars == <<
  se_configured, se_sent, se_got, se_peeked, se_pc, se_len, se_count, se_expired, se_buffer,
  se_breakValue, se_masked, se_ret, se_resets, se_taken, se_dropped, se_disturbed,
  se_breaks, se_returned>>

moduleVars == <<
  mo_attached, mo_nodes, mo_lastIf, mo_lastEp, mo_pluggedInterface, mo_pluggedEndpoint,
  mo_EndPoints, mo_descriptorSize, mo_hw, mo_packet>>

UsbInit ==
  /\ part \in {"control", "in", "serial", "out", "modules"}
  /\ Control!Init /\ In!Init /\ Se!Init /\ RInit /\ Mo!Init

UsbNext ==
  /\ UNCHANGED part
  /\ \/ part = "control" /\ Control!Next /\ UNCHANGED <<inVars, seVars, rvars, moduleVars>>
     \/ part = "in" /\ In!Next /\ UNCHANGED <<ctlVars, seVars, rvars, moduleVars>>
     \/ part = "serial" /\ Se!Next /\ UNCHANGED <<ctlVars, inVars, rvars, moduleVars>>
     \/ part = "out" /\ RNext /\ UNCHANGED <<ctlVars, inVars, seVars, moduleVars>>
     \/ part = "modules" /\ Mo!Next /\ UNCHANGED <<ctlVars, inVars, seVars, rvars>>

\* The fairness of each part, as its own specification states it.  (Without the guard, an
\* action of a part that never moves would be enabled for ever, and no behaviour fair.)
UsbSpec ==
  /\ UsbInit /\ [][UsbNext]_<<part, ctlVars, inVars, seVars, rvars, moduleVars>>
  /\ WF_ctlVars(part = "control" /\ Control!Isr) /\ WF_ctlVars(part = "control" /\ Control!Host)
  /\ WF_ctlVars(part = "control" /\ Control!HostSendsSof)
  /\ WF_inVars(part = "in" /\ \E n \in 1..3 : In!Send(n)) /\ WF_inVars(part = "in" /\ In!InSend)
  /\ WF_inVars(part = "in" /\ In!ClearAck) /\ WF_inVars(part = "in" /\ In!ClearReady)
  /\ WF_inVars(part = "in" /\ In!BusIn) /\ SF_inVars(part = "in" /\ In!BusInDone)
  /\ WF_seVars(part = "serial" /\ Se!Expire) /\ WF_seVars(part = "serial" /\ Se!InCall)
  /\ SF_vars(part = "out" /\ InCall) /\ SF_vars(part = "out" /\ CallRecv)
  /\ WF_vars(part = "out" /\ (IsrZlp \/ IsrPacket))
  /\ WF_vars(part = "out" /\ IsrAck) /\ SF_vars(part = "out" /\ BusDone)

-----------------------------------------------------------------------------
\* Every request ends although the device waits for the host within its interrupt, readBytes()
\* returns whatever the host does, the sketch catches up with the host at the OUT endpoint, also
\* after a configuration, and a host that reads again ends the fast failures of send().
CallsEnd == Control!RequestsEnd /\ Se!ReadBytesEnds /\ CatchesUp /\ In!Recovers
=============================================================================
