--------------------------- MODULE UsbReconfigure ---------------------------
(***************************************************************************)
(* UsbOutEndpoint with a host that selects the configuration again (after  *)
(* a bus reset or a reload of its driver).  SET_CONFIGURATION is handled   *)
(* in the USB interrupt: initEndpoints() deletes the endpoint's handler    *)
(* object and constructs a new one (cores/arduino/USB/USBCore.cpp), at     *)
(* whatever point of recv(), available() or peek() the sketch is.          *)
(* The allocator gives the new object the chunk that was just freed, so a  *)
(* call in progress goes on with the fields of the new object.             *)
(***************************************************************************)
EXTENDS UsbOutEndpoint

CONSTANTS
  MaxConfigs,   \* bound: configurations after the first one
  CallsDone     \* TRUE: the host does so only between calls of the sketch

ConfigAssumption == MaxConfigs \in Nat /\ CallsDone \in BOOLEAN

VARIABLE configs

rvars == <<vars, configs>>

\* Faulty variant: the sketch's side goes on with the bank it was at.
SetConfigurationKeepsCurrent ==
  /\ configs < MaxConfigs
  /\ isr = "idle" /\ bus = "idle"
  /\ CallsDone => pc = "app"
  /\ configs' = configs + 1
  /\ rx' = <<>> /\ first' = [b \in Bank |-> 0]
  /\ ready' = {} /\ last' = [b \in Bank |-> 0]
  /\ notify' = 0 /\ incoming' = 0
  /\ addr' = 0 /\ Release
  /\ got' = sent
  /\ UNCHANGED <<pc, call, want, room, current, isr, data, trcpt, bus, fill, sent, out>>

\* The bytes of the previous configuration are given up: the stream starts
\* anew at what the host has sent so far.
SetConfiguration ==
  /\ configs < MaxConfigs
  /\ isr = "idle" /\ bus = "idle"
  /\ CallsDone => pc = "app"
  /\ configs' = configs + 1
  /\ rx' = <<>> /\ current' = 0 /\ first' = [b \in Bank |-> 0]
  /\ ready' = {} /\ last' = [b \in Bank |-> 0]
  /\ notify' = 0 /\ incoming' = 0
  /\ addr' = 0 /\ Release
  /\ got' = sent
  /\ UNCHANGED <<pc, call, want, room, isr, data, trcpt, bus, fill, sent, out>>

RInit == Init /\ configs = 0
RNext == SetConfiguration \/ (Next /\ UNCHANGED configs)
RSpec == RInit /\ [][RNext]_rvars

\* The loop that copies a bank, SAMD21_USBDevice.h:308: "when ready0==true the
\* buffer is not being filled and last0 is constant".
CopiedBankNotFilled == pc = "copy" => ~(bus = "filling" /\ addr = current)

\* Between calls the two sides agree on the bank that comes next, and every
\* byte of the current configuration is in one place, in particular after the
\* host has selected a configuration again.
SidesAgree == pc = "app" => BanksInOrder /\ NothingLost
=============================================================================
