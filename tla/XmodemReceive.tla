---------------------------- MODULE XmodemReceive ----------------------------
(***************************************************************************)
(* The bootloader takes memory from the host over XMODEM:                  *)
(* serial_getdata_xmd(), getPacket() and getbytes()                        *)
(* (bootloaders/r34/sam_ba_serial.c), called by the command S of the       *)
(* monitor.  The host is an XMODEM sender that repeats a packet without an *)
(* answer and gives up after CAN.  Packets can be damaged or lost, or lose *)
(* their first byte; answers can be lost or become unreadable.             *)
(* Byte k of the host's data has the value k, a damaged one the value -1.  *)
(* A length of 0 (mode_of_transfer = 1) is left out.                       *)
(***************************************************************************)
EXTENDS Integers, Sequences

CONSTANTS
  PktLen,       \* PKTLEN_128
  SnoMod,       \* values of the uint8_t sequence number (256)
  SizeMod,      \* values of the uint16_t size_of_data
  Total,        \* bytes the monitor asks for: current_number, minus the read ones
  MaxTimeouts,  \* nbr_of_timeout (100)
  MaxFaults     \* bound: packets and answers damaged or lost

ReceiveAssumption ==
  /\ {PktLen, SnoMod, SizeMod, Total, MaxTimeouts} \subseteq Nat \ {0} /\ SnoMod > 1
  /\ MaxFaults \in Nat

VARIABLES
  pc,             \* "sync", "packets" or "return"
  result,         \* what serial_getdata_xmd() returned
  sno, ptr_data, size_of_data, nbr_of_timeout,
  memory,         \* the bytes from `data` on
  toDevice,       \* on the line, by kind: "packet", "EOT", "junk", "none"
  toHost,         \* on the line: "C", "ACK", "CAN", "junk" or "none"
  block,          \* the host: blocks acknowledged
  hostState,      \* "idle", "packets", "eot", "success" or "failure"
  faults

device == <<pc, result, sno, ptr_data, size_of_data, nbr_of_timeout, memory>>
host   == <<block, hostState>>
vars   == <<device, host, toDevice, toHost, faults>>

Signal(k) == [kind |-> k]
Silence   == toDevice.kind = "none"

Blocks == (Total + PktLen - 1) \div PktLen

Init ==
  /\ pc = "sync" /\ result = -1
  /\ sno = 1 /\ ptr_data = 0 /\ size_of_data = Total % SizeMod /\ nbr_of_timeout = MaxTimeouts
  /\ memory = [i \in 1..Total |-> 0]
  /\ toDevice = Signal("none") /\ toHost = "C"
  /\ block = 0 /\ hostState = "idle" /\ faults = 0

-----------------------------------------------------------------------------
(* The device. *)

Return(value) == pc' = "return" /\ result' = value

\* Faulty variant: the wait for the first packet has no timeout.
SyncWaits == pc = "sync" /\ ~Silence /\ UNCHANGED vars

\* 'C' is sent again after every timeout, a hundred times at most.
SyncTimeout ==
  /\ pc = "sync" /\ Silence
  /\ nbr_of_timeout' = nbr_of_timeout - 1
  /\ IF nbr_of_timeout = 1
     THEN Return(0) /\ UNCHANGED toHost
     ELSE toHost' = "C" /\ UNCHANGED <<pc, result>>
  /\ UNCHANGED <<sno, ptr_data, size_of_data, memory, toDevice, host, faults>>

SyncReady ==
  /\ pc = "sync" /\ ~Silence /\ pc' = "packets"
  /\ UNCHANGED <<result, sno, ptr_data, size_of_data, nbr_of_timeout, memory, toDevice, toHost, host, faults>>

\* getbytes() stores while size_of_data lasts, before the CRC is known.
Stored(bytes) ==
  [i \in DOMAIN memory |->
     IF i \in ptr_data + 1 .. ptr_data + (IF size_of_data < PktLen THEN size_of_data ELSE PktLen)
     THEN bytes[i - ptr_data] ELSE memory[i]]

\* The two bytes of the number go through getbytes() too: with size_of_data at
\* 0 they are not stored and seq[] has any value.
RightNumber(p) == p.sno = sno \/ size_of_data = 0

WrongNumber(p) == p.sno # sno \/ size_of_data = 0

RightCrc(p) == -1 \notin {p.data[i] : i \in 1..PktLen}

GetPacket ==
  /\ pc = "packets" /\ toDevice.kind = "packet"
  /\ memory' = Stored(toDevice.data)
  /\ size_of_data' = IF size_of_data > PktLen THEN size_of_data - PktLen ELSE 0
  /\ \/ /\ RightCrc(toDevice) /\ RightNumber(toDevice)
        /\ toHost' = "ACK"
        /\ sno' = (sno + 1) % SnoMod /\ ptr_data' = ptr_data + PktLen
        /\ UNCHANGED <<pc, result>>
     \/ /\ ~RightCrc(toDevice) \/ WrongNumber(toDevice)
        /\ toHost' = "CAN"
        /\ Return(1)
        /\ UNCHANGED <<sno, ptr_data>>
  /\ toDevice' = Signal("none")
  /\ UNCHANGED <<nbr_of_timeout, host, faults>>

GetOther ==
  /\ pc = "packets" /\ toDevice.kind \in {"EOT", "junk"}
  /\ toHost' = IF toDevice.kind = "EOT" THEN "ACK" ELSE toHost
  /\ Return(1)
  /\ toDevice' = Signal("none")
  /\ UNCHANGED <<sno, ptr_data, size_of_data, nbr_of_timeout, memory, host, faults>>

Device == SyncTimeout \/ SyncReady \/ GetPacket \/ GetOther

-----------------------------------------------------------------------------
(* The host and the line. *)

Block(n) ==
  [kind |-> "packet", sno |-> (n + 1) % SnoMod,
   data |-> [i \in 1..PktLen |-> IF n * PktLen + i <= Total THEN n * PktLen + i ELSE 26]]

Damaged(p) == [p EXCEPT !.data = [i \in 1..PktLen |-> -1]]

\* The block after the n acknowledged ones, or EOT.
Transmit(n) ==
  /\ toDevice' = IF n = Blocks THEN Signal("EOT") ELSE Block(n)
  /\ hostState' = IF n = Blocks THEN "eot" ELSE "packets"

HostStart ==
  /\ hostState = "idle" /\ toHost = "C" /\ toHost' = "none"
  /\ Transmit(0)
  /\ UNCHANGED <<block, device, faults>>

HostAnswered ==
  /\ hostState \in {"packets", "eot"} /\ toHost # "none" /\ toHost' = "none"
  /\ \/ /\ toHost = "ACK" /\ hostState = "packets"
        /\ block' = block + 1 /\ Transmit(block + 1)
     \/ /\ toHost = "ACK" /\ hostState = "eot"
        /\ hostState' = "success" /\ UNCHANGED <<block, toDevice>>
     \/ /\ toHost = "CAN"
        /\ hostState' = "failure" /\ UNCHANGED <<block, toDevice>>
     \/ /\ toHost \in {"C", "junk"}
        /\ UNCHANGED <<block, hostState, toDevice>>
  /\ UNCHANGED <<device, faults>>

\* Without an answer the host repeats what it sent, or gives up when the
\* device is not in the transfer any more.
HostTimeout ==
  /\ hostState \in {"packets", "eot"} /\ Silence /\ toHost = "none"
  /\ IF pc = "return"
     THEN hostState' = "failure" /\ UNCHANGED toDevice
     ELSE Transmit(block)
  /\ UNCHANGED <<block, device, toHost, faults>>

LineFault ==
  /\ faults < MaxFaults /\ faults' = faults + 1
  /\ \/ /\ toDevice.kind = "packet"
        /\ toDevice' \in {Damaged(toDevice), Signal("junk"), Signal("none")} /\ UNCHANGED toHost
     \/ /\ toDevice.kind = "EOT"
        /\ toDevice' \in {Signal("junk"), Signal("none")} /\ UNCHANGED toHost
     \/ /\ toHost \notin {"none", "junk"}
        /\ toHost' \in {"junk", "none"} /\ UNCHANGED toDevice
  /\ UNCHANGED <<device, host>>

\* What the host still sends goes to the monitor.
Leftover ==
  /\ pc = "return" /\ ~Silence
  /\ toDevice' = Signal("none")
  /\ UNCHANGED <<device, host, toHost, faults>>

Next == Device \/ HostStart \/ HostAnswered \/ HostTimeout \/ LineFault \/ Leftover

Spec == Init /\ [][Next]_vars

\* The device polls.  A host may never start; one that has goes on.
FairSpec == /\ Spec
            /\ WF_vars(Device) /\ WF_vars(HostAnswered) /\ WF_vars(HostTimeout)
            /\ WF_vars(Leftover)

-----------------------------------------------------------------------------
(* Properties. *)

TypeOK ==
  /\ pc \in {"sync", "packets", "return"} /\ result \in {-1, 0, 1}
  /\ sno \in 0..SnoMod - 1 /\ ptr_data \in 0..(Blocks + MaxFaults) * PktLen
  /\ size_of_data \in 0..SizeMod - 1 /\ nbr_of_timeout \in 0..MaxTimeouts
  /\ memory \in [1..Total -> -1..Total]
  /\ toDevice.kind \in {"packet", "EOT", "junk", "none"}
  /\ toHost \in {"C", "ACK", "CAN", "junk", "none"}
  /\ block \in 0..Blocks /\ hostState \in {"idle", "packets", "eot", "success", "failure"}
  /\ faults \in 0..MaxFaults

\* The device takes each block once and in order, and the host ends with
\* success only when the device has them all (getPacket): a repeated block is
\* refused, except behind the last one, where its number is not looked at.  (If
\* size_of_data holds the length: of a longer one no byte is stored, and no
\* number looked at, once it has come down to 0.)
Implements == INSTANCE Transfer WITH
  delivered <- IF ptr_data \div PktLen < Blocks THEN ptr_data \div PktLen ELSE Blocks,
  confirmed <- block,
  outcome   <- IF hostState \in {"success", "failure"} THEN hostState ELSE "open"
ReceiveTransfer == Implements!TransferSpec

\* The memory that was acknowledged has the host's bytes, whatever packet came
\* after it, although getbytes() stores before it knows the CRC, if size_of_data
\* holds the length.
AcceptedIsExact == \A i \in 1..Total : i <= ptr_data \/ hostState = "success" => memory[i] = i

\* Both sides come to an end, whatever was damaged or lost.
ReceiveEnds == <>(pc = "return" /\ hostState \in {"idle", "success", "failure"})
=============================================================================
