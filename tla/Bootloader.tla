------------------------------ MODULE Bootloader -----------------------------
(***************************************************************************)
(* The bootloader and its host: the life cycle of the board, the two       *)
(* directions of the XMODEM transfer, the commands of the monitor and the  *)
(* USB port, each with variables of its own, and what they promise.        *)
(***************************************************************************)
EXTENDS Lifecycle

CONSTANTS
  PktLen, SnoMod, LengthMod, SizeMod, Total, MaxTimeouts, MaxFaults,   \* of the transfers
  MonScripts, MonPacket,                 \* of the monitor; the host flushes
  PortAddresses,                         \* addresses that the host gives out
  PortRequests, PortResets, PortPackets  \* bounds: what the host does

VARIABLES
  put_pc, put_result, put_sno, put_length, put_ptr_data, put_size_of_data, put_toHost,
  put_toDevice, put_seq, put_received, put_hostState, put_faults, put_repeated,
  get_pc, get_result, get_sno, get_ptr_data, get_size_of_data, get_nbr_of_timeout,
  get_memory, get_toDevice, get_toHost, get_block, get_hostState, get_faults,
  mon_script, mon_sent, mon_bank, mon_data, mon_command, mon_current_number, mon_ptr_data,
  mon_todo, mon_dst, mon_memory, mon_answers,
  usb_hostAddress, usb_hostConfiguration, usb_request, usb_requests, usb_resets, usb_sent,
  usb_answers, usb_EORST, usb_RXSTP, usb_DADD, usb_STALLRQ, usb_ep0, usb_TRCPT1,
  usb_stalled, usb_open, usb_BK0RDY, usb_TRCPT0, usb_packet, usb_ep1, usb_taken1, usb_pc,
  usb_served, usb_currentConfiguration, usb_read_job, usb_orphaned

Put == INSTANCE XmodemSend WITH
  pc <- put_pc, result <- put_result, sno <- put_sno, length <- put_length,
  ptr_data <- put_ptr_data, size_of_data <- put_size_of_data, toHost <- put_toHost,
  toDevice <- put_toDevice, seq <- put_seq, received <- put_received,
  hostState <- put_hostState, faults <- put_faults, repeated <- put_repeated

Get == INSTANCE XmodemReceive WITH
  pc <- get_pc, result <- get_result, sno <- get_sno, ptr_data <- get_ptr_data,
  size_of_data <- get_size_of_data, nbr_of_timeout <- get_nbr_of_timeout,
  memory <- get_memory, toDevice <- get_toDevice, toHost <- get_toHost, block <- get_block,
  hostState <- get_hostState, faults <- get_faults

Mon == INSTANCE Monitor WITH
  Scripts <- MonScripts, MaxPacket <- MonPacket, Flushes <- TRUE,
  script <- mon_script, sent <- mon_sent, bank <- mon_bank, data <- mon_data,
  command <- mon_command, current_number <- mon_current_number, ptr_data <- mon_ptr_data,
  todo <- mon_todo, dst <- mon_dst, memory <- mon_memory, answers <- mon_answers

Port == INSTANCE BootUsb WITH
  Addresses <- PortAddresses, MaxRequests <- PortRequests, MaxResets <- PortResets,
  MaxPackets <- PortPackets,
  hostAddress <- usb_hostAddress, hostConfiguration <- usb_hostConfiguration,
  request <- usb_request, requests <- usb_requests, resets <- usb_resets, sent <- usb_sent,
  answers <- usb_answers, EORST <- usb_EORST, RXSTP <- usb_RXSTP, DADD <- usb_DADD,
  STALLRQ <- usb_STALLRQ, ep0 <- usb_ep0, TRCPT1 <- usb_TRCPT1, stalled <- usb_stalled,
  open <- usb_open, BK0RDY <- usb_BK0RDY, TRCPT0 <- usb_TRCPT0, packet <- usb_packet,
  ep1 <- usb_ep1, taken1 <- usb_taken1, pc <- usb_pc, served <- usb_served,
  currentConfiguration <- usb_currentConfiguration, read_job <- usb_read_job,
  orphaned <- usb_orphaned

ASSUME BootloaderAssumption ==
  /\ Put!SendAssumption /\ Get!ReceiveAssumption
  /\ Mon!MonitorAssumption /\ Port!BootUsbAssumption

-----------------------------------------------------------------------------
\* Every variable of each part stays in its type.
TypesOK == LTypeOK /\ Put!TypeOK /\ Get!TypeOK /\ Mon!TypeOK /\ Port!TypeOK

\* The length of the transfers fits the 16 bits of size_of_data: the code takes a uint32_t and
\* keeps what is left of it (sam_ba_serial.c:286, 426).
SizeHolds == Total < SizeMod

\* Both directions implement Transfer, and the blocks that were acknowledged have the bytes of
\* the other side, as long as the device has not repeated one.
BlocksOnceAndInOrder ==
  /\ Put!SendTransfer /\ Get!ReceiveTransfer
  /\ []Put!ExactUnlessRepeated /\ []Get!AcceptedIsExact

\* Host and bootloader agree on the address and the configuration, and packets are answered
\* once and in order, although everything is polled.
PortSound == Port!HostAndDeviceAgree /\ Port!AnsweredInOrder

\* Memory and answers are what the commands make of them, for a host that ends a packet with each
\* line and with the data of S, and cuts what is longer than a packet.
AsCommanded == Mon!AsCommanded
=============================================================================
