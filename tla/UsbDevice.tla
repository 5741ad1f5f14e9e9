------------------------------ MODULE UsbDevice ------------------------------
(***************************************************************************)
(* The USB device of the core: the OUT endpoint whose handler object       *)
(* SET_CONFIGURATION replaces (UsbReconfigure), the control endpoint, the  *)
(* IN endpoint, the serial port that stands on them, and the modules of a  *)
(* composite device.  Each part has its own variables; what one needs of   *)
(* another is in its own actions.                                          *)
(***************************************************************************)
EXTENDS UsbReconfigure

CONSTANTS
  Addresses, Configurations, MaxRequests,  \* of the control endpoint, see UsbControl
  MaxSend, MaxBytes, Timeout, Clears, FrameAck,  \* of the IN endpoint, see UsbInEndpoint
  MaxRead, MaxBreaks, Word,                \* of the serial port, see UsbSerial
  MaxResets,                               \* bound: bus resets
  Modules, ReportSize, MaxReports          \* of a composite device, see UsbModules

VARIABLES
  DADD, _usbConfiguration, EORST, SOF, RXSTP, TRCPT0, TRCPT1, BK0RDY, BK1RDY, STALLRQ1,
  BYTE_COUNT, ctl_pc, setup, stage, known, gotData, requests, resets,
  in_pc, in_len, in_timeout, in_timedOut, in_result, in_cache, in_byteCount, in_bk1rdy,
  in_trcpt1, in_onBus, in_clears, in_armed, in_received, in_dropped, in_raced,
  se_configured, se_sent, se_got, se_peeked, se_pc, se_len, se_count, se_expired, se_buffer,
  se_breakValue, se_masked, se_ret, se_resets, se_taken, se_dropped, se_disturbed,
  se_breaks, se_returned,
  mo_attached, mo_nodes, mo_lastIf, mo_lastEp, mo_pluggedInterface, mo_pluggedEndpoint,
  mo_EndPoints, mo_descriptorSize, mo_hw, mo_packet

Control == INSTANCE UsbControl WITH pc <- ctl_pc

In == INSTANCE UsbInEndpoint WITH
  MaxLen <- MaxSend,
  pc <- in_pc, len <- in_len, timeout <- in_timeout, timedOut <- in_timedOut,
  result <- in_result, cache <- in_cache, byteCount <- in_byteCount, bk1rdy <- in_bk1rdy,
  trcpt1 <- in_trcpt1, onBus <- in_onBus, clears <- in_clears, armed <- in_armed,
  received <- in_received, dropped <- in_dropped, raced <- in_raced

Se == INSTANCE UsbSerial WITH
  MaxLen <- MaxRead,
  configured <- se_configured, sent <- se_sent, got <- se_got, peeked <- se_peeked,
  pc <- se_pc, len <- se_len, count <- se_count, expired <- se_expired, buffer <- se_buffer,
  breakValue <- se_breakValue, masked <- se_masked, ret <- se_ret, resets <- se_resets,
  taken <- se_taken, dropped <- se_dropped, disturbed <- se_disturbed, breaks <- se_breaks,
  returned <- se_returned

Mo == INSTANCE UsbModules WITH
  attached <- mo_attached, nodes <- mo_nodes, lastIf <- mo_lastIf, lastEp <- mo_lastEp,
  pluggedInterface <- mo_pluggedInterface, pluggedEndpoint <- mo_pluggedEndpoint,
  EndPoints <- mo_EndPoints, descriptorSize <- mo_descriptorSize, hw <- mo_hw,
  packet <- mo_packet

ASSUME DeviceAssumption ==
  /\ ConfigAssumption /\ Control!ControlAssumption /\ In!InAssumption /\ Se!SerialAssumption
  /\ Mo!ModulesAssumption

-----------------------------------------------------------------------------
(* What the parts promise. *)

\* Every register and variable of the device stays in its type.
TypesOK == TypeOK /\ Control!TypeOK /\ In!TypeOK /\ Se!TypeOK /\ Mo!TypeOK

\* Between two requests the host and the device agree on the address and on the configuration.
HostAndDeviceAgree == Control!HostAndDeviceAgree

\* A wait inside the interrupt ends for the request it belongs to.
WaitsAreForThisRequest == Control!WaitsAreForThisRequest

\* Across a configuration that the host selects again between two calls, the interrupt and the
\* sketch agree on the banks of the OUT endpoint and no bank is filled while it is copied.
BanksAgree == SidesAgree /\ CopiedBankNotFilled

\* The buffer of the IN endpoint is not rewritten under a packet, the host gets the bytes in
\* their order and none twice, and none is lost but by a timeout or by clear().
PacketsStable == []In!Accounted /\ In!CacheStable /\ In!InOrder

\* The bytes of the stream reach the sketch once, in order and without a gap, through peek(),
\* the timeout of readBytes() and bus resets.
OnceAndInOrder == []Se!NothingSkipped /\ Se!OnceAndInOrder

\* readBreak() returns the most recent break request, and returns it once.
BreaksKept == []Se!MostRecentBreak /\ Se!BreakAtMostOnce

\* What the host is told of the modules of the device is what they do, and no answer about them
\* rewrites a packet.
ModulesAgree == Mo!DescribedAsIs /\ Mo!NothingSpilled
=============================================================================
