----------------------------- MODULE XmodemSend -----------------------------
(***************************************************************************)
(* The bootloader sends memory to the host over XMODEM:                    *)
(* serial_putdata_xmd() and putPacket() (bootloaders/r34/sam_ba_serial.c), *)
(* called by the command R of the monitor.  Both sides wait for each       *)
(* other, so the line holds one packet or one answer at a time.  The host  *)
(* is an XMODEM receiver; packets and answers can be damaged or lost.      *)
(* Byte k of the memory has the value k; the padding is 0.  A length of 0  *)
(* (mode_of_transfer = 1, a transfer without a length) is left out.        *)
(***************************************************************************)
EXTENDS Integers, Sequences, SequencesExt

CONSTANTS
  PktLen,      \* PKTLEN_128
  SnoMod,      \* values of the uint8_t sequence number (256)
  LengthMod,   \* values of the uint32_t length
  SizeMod,     \* values of the uint16_t size_of_data
  Total,       \* bytes the monitor is asked for: current_number
  MaxFaults    \* bound: packets and answers damaged or lost

SendAssumption ==
  /\ {PktLen, SnoMod, SizeMod, Total} \subseteq Nat \ {0} /\ SnoMod > 1
  /\ LengthMod \in Nat /\ LengthMod >= Total + PktLen /\ LengthMod % PktLen = 0
  /\ MaxFaults \in Nat

VARIABLES
  pc,            \* "sync", "packet" and "eot" wait for an answer; "return"
  result,        \* what serial_putdata_xmd() returned
  sno, length, ptr_data, size_of_data,
  toHost,        \* on the line, by kind: "packet", "EOT", "damaged", "none"
  toDevice,      \* on the line: the code of an answer, or "none"
  seq, received, \* the host: the number it expects, the bytes it has taken
  hostState,     \* "idle", "open" or "closed" (it has seen EOT)
  faults,
  repeated       \* history: a packet was sent more than once

device == <<pc, result, sno, length, ptr_data, size_of_data>>
host   == <<seq, received, hostState>>
line   == <<toHost, toDevice>>
vars   == <<device, host, line, faults, repeated>>

Signal(k) == [kind |-> k]

Answers == {"ACK", "NAK", "C", "q", "junk"}

\* length rounded up to whole packets.
Rounded(n) == IF n % PktLen # 0 THEN n + PktLen - (n % PktLen) ELSE n

Blocks == Rounded(Total) \div PktLen

Init ==
  /\ pc = "sync" /\ result = -1
  /\ sno = 1 /\ length = Rounded(Total) /\ ptr_data = 0 /\ size_of_data = Total % SizeMod
  /\ toHost = Signal("none") /\ toDevice = "none"
  /\ seq = 1 /\ received = <<>> /\ hostState = "idle"
  /\ faults = 0 /\ repeated = FALSE

-----------------------------------------------------------------------------
(* The device. *)

\* What putPacket() reads: size_of_data counts the bytes ever sent.
Payload(ptr, size) == [i \in 1..PktLen |-> IF i <= size THEN ptr + i ELSE 0]

PutPacket ==
  /\ toHost' = [kind |-> "packet", sno |-> sno', data |-> Payload(ptr_data', size_of_data)]
  /\ size_of_data' = IF size_of_data > PktLen THEN size_of_data - PktLen ELSE 0
  /\ pc' = "packet"
  /\ UNCHANGED result

Return(value) ==
  /\ pc' = "return" /\ result' = value
  /\ UNCHANGED <<size_of_data, toHost>>

\* Waiting for NAK or 'C'; 'q' ends the transfer, anything else is skipped.
Sync ==
  /\ pc = "sync" /\ toDevice # "none"
  /\ toDevice' = "none"
  /\ UNCHANGED <<sno, length, ptr_data>>
  /\ \/ toDevice \in {"NAK", "C"} /\ PutPacket
     \/ toDevice = "q" /\ Return(0)
     \/ toDevice \notin {"NAK", "C", "q"} /\ UNCHANGED <<pc, result, size_of_data, toHost>>
  /\ UNCHANGED <<host, faults, repeated>>

\* Faulty variant: any answer is taken for ACK.
AnsweredByAny ==
  /\ sno' = (sno + 1) % SnoMod
  /\ length' = (length - PktLen) % LengthMod
  /\ ptr_data' = ptr_data + PktLen
  /\ UNCHANGED repeated

\* Only ACK moves on to the next packet.
Answered ==
  IF toDevice = "ACK"
  THEN /\ sno' = (sno + 1) % SnoMod
       /\ length' = (length - PktLen) % LengthMod
       /\ ptr_data' = ptr_data + PktLen
       /\ UNCHANGED repeated
  ELSE UNCHANGED <<sno, length, ptr_data>> /\ repeated' = TRUE

GetAnswer ==
  /\ pc = "packet" /\ toDevice # "none"
  /\ toDevice' = "none"
  /\ Answered
  /\ IF length' = 0
     THEN pc' = "eot" /\ toHost' = Signal("EOT") /\ UNCHANGED <<result, size_of_data>>
     ELSE PutPacket
  /\ UNCHANGED <<host, faults>>

\* "Flush the ACK": any answer to EOT will do.
EotAnswered == toDevice # "none"

FlushAck ==
  /\ pc = "eot" /\ EotAnswered
  /\ toDevice' = "none"
  /\ Return(1)
  /\ UNCHANGED <<sno, length, ptr_data, host, faults, repeated>>

Device == Sync \/ GetAnswer \/ FlushAck

-----------------------------------------------------------------------------
(* The host and the line. *)

Answer(c) == toDevice' = c /\ toHost' = Signal("none") /\ UNCHANGED <<device, faults, repeated>>

HostStart ==
  /\ hostState = "idle" /\ hostState' = "open"
  /\ \E c \in {"NAK", "C", "q"} : Answer(c)
  /\ UNCHANGED <<seq, received>>

\* The packet it expects is taken, the one before is only acknowledged.
HostPacket ==
  /\ hostState = "open" /\ toHost.kind = "packet"
  /\ IF toHost.sno = seq
     THEN received' = received \o toHost.data /\ seq' = (seq + 1) % SnoMod /\ Answer("ACK")
     ELSE /\ Answer(IF (toHost.sno + 1) % SnoMod = seq THEN "ACK" ELSE "NAK")
          /\ UNCHANGED <<received, seq>>
  /\ UNCHANGED hostState

HostEot ==
  /\ hostState = "open" /\ toHost.kind = "EOT"
  /\ hostState' = "closed" /\ Answer("ACK")
  /\ UNCHANGED <<seq, received>>

HostDamaged ==
  /\ hostState = "open" /\ toHost.kind = "damaged"
  /\ Answer("NAK") /\ UNCHANGED host

\* Nothing has come for a while: the host asks again, for as long as the
\* device is in the transfer.
HostTimeout ==
  /\ hostState # "idle" /\ pc # "return"
  /\ toHost.kind = "none" /\ toDevice = "none"
  /\ Answer(IF pc = "sync" THEN "C" ELSE "NAK") /\ UNCHANGED host

Host == HostStart \/ HostPacket \/ HostEot \/ HostDamaged \/ HostTimeout

LineFault ==
  /\ faults < MaxFaults /\ faults' = faults + 1
  /\ \/ /\ toHost.kind \in {"packet", "EOT"}
        /\ toHost' \in {Signal("damaged"), Signal("none")} /\ UNCHANGED toDevice
     \/ /\ toDevice \notin {"none", "junk"}
        /\ toDevice' \in {"junk", "none"} /\ UNCHANGED toHost
  /\ UNCHANGED <<device, host, repeated>>

Next == Device \/ Host \/ LineFault

Spec == Init /\ [][Next]_vars

\* The device polls, and the host stays.
FairSpec == Spec /\ WF_vars(Device) /\ WF_vars(Host)

-----------------------------------------------------------------------------
(* Properties. *)

TypeOK ==
  /\ pc \in {"sync", "packet", "eot", "return"} /\ result \in {-1, 0, 1}
  /\ sno \in 0..SnoMod - 1 /\ length \in 0..LengthMod - 1
  /\ ptr_data \in 0..Rounded(Total) /\ size_of_data \in 0..SizeMod - 1
  /\ toDevice \in Answers \cup {"none"}
  /\ seq \in 0..SnoMod - 1 /\ Len(received) <= Rounded(Total)
  /\ hostState \in {"idle", "open", "closed"}
  /\ faults \in 0..MaxFaults /\ repeated \in BOOLEAN

Data == [i \in 1..Rounded(Total) |-> IF i <= Total THEN i ELSE 0]

\* What the caller of serial_putdata_xmd() knows of the transfer.
Outcome == CASE pc # "return"                 -> "open"
             [] pc = "return" /\ result = 1   -> "success"
             [] pc = "return" /\ result # 1   -> "failure"

\* Each packet is taken once and in order, and the transfer ends with success
\* only when the host has them all, whatever is damaged or lost
\* (serial_putdata_xmd).
Implements == INSTANCE Transfer WITH
  delivered <- Len(received) \div PktLen,
  confirmed <- ptr_data \div PktLen,
  outcome   <- Outcome
SendTransfer == Implements!TransferSpec

\* Without a repeated packet, what the host has taken is a prefix of the data,
\* padded with zeros (putPacket), if size_of_data holds the length.
ExactUnlessRepeated == repeated \/ IsPrefix(received, Data)

\* A host that stays sees the transfer end, whatever was damaged before.
SendEnds == <>(pc = "return")

\* sam_ba_serial.h:117, "Send buffer on usart line using Xmodem protocol": the
\* bytes the host takes are the bytes of the buffer.
HostGetsTheData == IsPrefix(received, Data)
=============================================================================
