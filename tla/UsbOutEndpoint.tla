--------------------------- MODULE UsbOutEndpoint ---------------------------
(***************************************************************************)
(* DoubleBufferedEPOutHandler (cores/arduino/USB/SAMD21_USBDevice.h): the  *)
(* bulk OUT endpoint of the SerialUSB port.  Three actors share it:        *)
(*   - the sketch, which calls recv(), available() or peek(); each drains  *)
(*     one of the two banks into a ring buffer first, in _recv();          *)
(*   - the USB interrupt (priority 0: it preempts the sketch between any   *)
(*     two of its steps, never inside a `synchronized` section), which     *)
(*     hands a filled bank to the sketch in handleEndpoint();              *)
(*   - the USB peripheral, which fills the bank its descriptor points to   *)
(*     as long as BK0RDY is clear, and sets TRCPT0 when a packet is in.    *)
(* A byte is represented by its position in the stream of the host.        *)
(***************************************************************************)
EXTENDS Integers, Sequences

CONSTANTS
  Size,       \* bytes of a bank (`size`, 64)
  RingSize,   \* bytes of the ring buffer (SERIAL_BUFFER_SIZE, 64)
  MaxSent,    \* bound: bytes the host sends
  AckWindow   \* TRUE: a packet may complete between the release of the
              \* endpoint and the acknowledgement that follows it in the
              \* interrupt handler (20 instructions, about 0.5 us, where the
              \* shortest OUT transaction takes about 6 us of bus time)

ASSUME SizeAssumption == Size \in Nat \ {0}
ASSUME RingAssumption == RingSize \in Nat \ {0}
ASSUME BoundAssumption == MaxSent \in Nat /\ AckWindow \in BOOLEAN

Bank == {0, 1}
Bit == {0, 1}   \* register bits and C flags
Calls == {"recv", "available", "peek"}

VARIABLES
  \* the sketch, inside one of the calls
  pc, call, want, room,
  \* private to the sketch: bank to drain next, and how far each is drained
  current, first,
  \* the ring buffer _rx_buffer: only the sketch touches it
  rx,
  \* shared with the interrupt
  ready, last, notify, incoming,
  \* the interrupt handler
  isr,
  \* the peripheral: banks, descriptor, flags and the packet on the bus
  data, addr, byteCount, bk0rdy, trcpt, bus, fill,
  \* history: see UsbStream
  sent, got, out

sketch == <<pc, call, want, room, current, first, rx>>
shared == <<ready, last, notify, incoming>>
hw     == <<data, addr, byteCount, bk0rdy, trcpt, bus, fill>>
hist   == <<sent, got, out>>
vars   == <<sketch, shared, isr, hw, hist>>

TypeOK ==
  /\ pc \in {"app", "len", "check", "copy", "free", "body"}
  /\ call \in Calls /\ want \in Nat /\ room \in Nat
  /\ current \in Bank /\ first \in [Bank -> 0..Size]
  /\ rx \in Seq(Nat) /\ Len(rx) <= RingSize
  /\ ready \in SUBSET Bank /\ last \in [Bank -> 0..Size]
  /\ notify \in Bit /\ incoming \in Bank
  /\ isr \in {"idle", "ack"}
  /\ data \in [Bank -> [0..Size-1 -> Nat]]
  /\ addr \in Bank /\ byteCount \in 0..Size
  /\ bk0rdy \in Bit /\ trcpt \in Bit
  /\ bus \in {"idle", "filling"} /\ fill \in 0..Size
  /\ sent \in Nat /\ got \in Nat /\ out \in Seq(Nat)

\* The constructor, run when the host selects the configuration.
Init ==
  /\ pc = "app" /\ call = "recv" /\ want = 0 /\ room = 0
  /\ current = 0 /\ first = [b \in Bank |-> 0]
  /\ rx = <<>>
  /\ ready = {} /\ last = [b \in Bank |-> 0]
  /\ notify = 0 /\ incoming = 0
  /\ isr = "idle"
  /\ data = [b \in Bank |-> [j \in 0..Size-1 |-> 0]]
  /\ addr = 0 /\ byteCount = 0 /\ bk0rdy = 0 /\ trcpt = 0
  /\ bus = "idle" /\ fill = 0
  /\ sent = 0 /\ got = 0 /\ out = <<>>

\* epReleaseOutBank0(): the endpoint accepts the next packet.
Release == byteCount' = 0 /\ bk0rdy' = 0

-----------------------------------------------------------------------------
(* The sketch.  It runs only while no interrupt handler does. *)

Step(from, to) == isr = "idle" /\ pc = from /\ pc' = to

StoreChar(s, c) == IF Len(s) = RingSize THEN s ELSE Append(s, c)

\* recv(), available() and peek() all start with _recv().
Call(c, n) ==
  /\ Step("app", "len")
  /\ call' = c /\ want' = n
  /\ UNCHANGED <<room, current, first, rx, shared, isr, hw, hist>>

CallRecv == \E n \in 1..RingSize : Call("recv", n)
CallOther == \E c \in Calls \ {"recv"} : Call(c, 0)

\* len = _rx_buffer.availableForStore(); room is len - i from here on.
ReadLen ==
  /\ Step("len", "check")
  /\ room' = RingSize - Len(rx)
  /\ UNCHANGED <<call, want, current, first, rx, shared, isr, hw, hist>>

CheckReady ==
  /\ \/ current \in ready    /\ Step("check", "copy")
     \/ current \notin ready /\ Step("check", "body")
  /\ UNCHANGED <<call, want, room, current, first, rx, shared, isr, hw, hist>>

\* Faulty variant: i <= len.
MoreToCopyLate == room >= 0 /\ first[current] < last[current]

MoreToCopy == room > 0 /\ first[current] < last[current]

CopyByte ==
  /\ Step("copy", "copy")
  /\ MoreToCopy
  /\ rx' = StoreChar(rx, data[current][first[current]])
  /\ first' = [first EXCEPT ![current] = @ + 1]
  /\ room' = room - 1
  /\ UNCHANGED <<call, want, current, shared, isr, hw, hist>>

\* Faulty variant: first0 = 0 is missing.
SwapBankKeepsFirst ==
  /\ Step("copy", "free")
  /\ ~MoreToCopy
  /\ first[current] = last[current]
  /\ current' = 1 - current
  /\ UNCHANGED <<call, want, room, first, rx, shared, isr, hw, hist>>

\* The bank is drained: turn to the other one, outside any critical section.
SwapBank ==
  /\ Step("copy", "free")
  /\ ~MoreToCopy
  /\ first[current] = last[current]
  /\ first' = [first EXCEPT ![current] = 0]
  /\ current' = 1 - current
  /\ UNCHANGED <<call, want, room, rx, shared, isr, hw, hist>>

\* The ring buffer is full before the bank is drained.
StopCopy ==
  /\ Step("copy", "body")
  /\ ~MoreToCopy
  /\ first[current] # last[current]
  /\ UNCHANGED <<call, want, room, current, first, rx, shared, isr, hw, hist>>

\* Faulty variant: the sketch does not release an endpoint that waits for it.
FreeBankForgets ==
  /\ Step("free", "body")
  /\ ready' = ready \ {1 - current}
  /\ notify' = 0
  /\ UNCHANGED <<call, want, room, current, first, rx, last, incoming, isr, hw, hist>>

\* synchronized { ready = false; if (notify) { notify = false; release(); } }
FreeBank ==
  /\ Step("free", "body")
  /\ ready' = ready \ {1 - current}
  /\ notify' = 0
  /\ IF notify = 1 THEN Release ELSE UNCHANGED <<byteCount, bk0rdy>>
  /\ UNCHANGED <<call, want, room, current, first, rx, last, incoming, isr,
                 data, addr, trcpt, bus, fill, hist>>

MinOf(m, n) == IF m <= n THEN m ELSE n

RecvBody ==
  /\ Step("body", "app")
  /\ call = "recv"
  /\ LET k == MinOf(want, Len(rx)) IN
       /\ out' = SubSeq(rx, 1, k)
       /\ rx' = SubSeq(rx, k + 1, Len(rx))
       /\ got' = got + k
  /\ UNCHANGED <<call, want, room, current, first, shared, isr, hw, sent>>

AvailableBody ==
  /\ Step("body", "app")
  /\ call = "available"
  /\ out' = <<Len(rx)>>
  /\ UNCHANGED <<call, want, room, current, first, rx, shared, isr, hw, sent, got>>

PeekBody ==
  /\ Step("body", "app")
  /\ call = "peek"
  /\ out' = IF rx = <<>> THEN <<>> ELSE <<Head(rx)>>
  /\ UNCHANGED <<call, want, room, current, first, rx, shared, isr, hw, sent, got>>

InCall == \/ ReadLen \/ CheckReady \/ CopyByte \/ SwapBank \/ StopCopy
          \/ FreeBank \/ RecvBody \/ AvailableBody \/ PeekBody

-----------------------------------------------------------------------------
(* handleEndpoint(), up to the acknowledgement and the acknowledgement.    *)

IsrZlp ==
  /\ isr = "idle" /\ trcpt = 1
  /\ byteCount = 0
  /\ Release
  /\ isr' = "ack"
  /\ UNCHANGED <<sketch, shared, data, addr, trcpt, bus, fill, hist>>

\* Faulty variant: the endpoint is released even if the next bank is full.
IsrPacketReleases ==
  /\ isr = "idle" /\ trcpt = 1
  /\ byteCount # 0
  /\ last' = [last EXCEPT ![incoming] = byteCount]
  /\ incoming' = 1 - incoming
  /\ addr' = 1 - incoming
  /\ ready' = ready \cup {incoming}
  /\ notify' = IF 1 - incoming \in ready THEN 1 ELSE 0
  /\ Release
  /\ isr' = "ack"
  /\ UNCHANGED <<sketch, data, trcpt, bus, fill, hist>>

\* Faulty variant: the sketch is not told that the endpoint waits for it.
IsrPacketNotNotified ==
  /\ isr = "idle" /\ trcpt = 1
  /\ byteCount # 0
  /\ last' = [last EXCEPT ![incoming] = byteCount]
  /\ incoming' = 1 - incoming
  /\ addr' = 1 - incoming
  /\ ready' = ready \cup {incoming}
  /\ notify' = 0
  /\ IF 1 - incoming \in ready THEN UNCHANGED <<byteCount, bk0rdy>> ELSE Release
  /\ isr' = "ack"
  /\ UNCHANGED <<sketch, data, trcpt, bus, fill, hist>>

IsrPacket ==
  /\ isr = "idle" /\ trcpt = 1
  /\ byteCount # 0
  /\ last' = [last EXCEPT ![incoming] = byteCount]
  /\ incoming' = 1 - incoming
  /\ addr' = 1 - incoming
  /\ ready' = ready \cup {incoming}
  /\ notify' = IF 1 - incoming \in ready THEN 1 ELSE 0
  /\ IF notify' = 1 THEN UNCHANGED <<byteCount, bk0rdy>> ELSE Release
  /\ isr' = "ack"
  /\ UNCHANGED <<sketch, data, trcpt, bus, fill, hist>>

IsrAck ==
  /\ isr = "ack"
  /\ isr' = "idle"
  /\ trcpt' = 0
  /\ UNCHANGED <<sketch, shared, data, addr, byteCount, bk0rdy, bus, fill, hist>>

-----------------------------------------------------------------------------
(* The peripheral and the host.  A packet is written to memory byte by     *)
(* byte while it arrives; its length is known at its end; a packet with a  *)
(* bad CRC leaves no trace but the bytes written, and the host repeats it. *)

BusStart ==
  /\ bus = "idle" /\ bk0rdy = 0
  /\ bus' = "filling" /\ fill' = 0
  /\ UNCHANGED <<sketch, shared, isr, data, addr, byteCount, bk0rdy, trcpt, hist>>

BusByte ==
  /\ bus = "filling"
  /\ fill < Size /\ sent + fill < MaxSent
  /\ data' = [data EXCEPT ![addr][fill] = sent + fill + 1]
  /\ fill' = fill + 1
  /\ UNCHANGED <<sketch, shared, isr, addr, byteCount, bk0rdy, trcpt, bus, hist>>

BusDone ==
  /\ bus = "filling"
  /\ isr = "idle" \/ AckWindow
  /\ bus' = "idle" /\ fill' = 0
  /\ byteCount' = fill
  /\ bk0rdy' = 1 /\ trcpt' = 1
  /\ sent' = sent + fill
  /\ UNCHANGED <<sketch, shared, isr, data, addr, got, out>>

BusError ==
  /\ bus = "filling"
  /\ bus' = "idle" /\ fill' = 0
  /\ UNCHANGED <<sketch, shared, isr, data, addr, byteCount, bk0rdy, trcpt, hist>>

Bus == BusStart \/ BusByte \/ BusDone \/ BusError

Next == CallRecv \/ CallOther \/ InCall \/ IsrZlp \/ IsrPacket \/ IsrAck \/ Bus

Spec == Init /\ [][Next]_vars

\* The processor runs the handler, and the sketch between two interrupts (a
\* packet takes longer on the bus than in the handler: strong fairness); the
\* sketch keeps polling with recv(), whatever other calls it makes; packets
\* are not corrupted every time.
Fairness ==
  /\ SF_vars(InCall)
  /\ SF_vars(CallRecv)
  /\ WF_vars(IsrZlp \/ IsrPacket) /\ WF_vars(IsrAck)
  /\ SF_vars(BusDone)

FairSpec == Spec /\ Fairness

-----------------------------------------------------------------------------
(* Properties. *)

\* SAMD21_USBDevice.h:308 and 329, "when ready0==true the buffer is not being
\* filled": the peripheral never writes to a bank the sketch may be reading.
NotFilledWhileReady == bus = "filling" => addr \notin ready

\* The same comment, "... and last0 is constant": while a bank stays ready,
\* neither its length nor its bytes change.
ReadyBankStable ==
  [][\A b \in Bank : b \in ready /\ b \in ready' =>
        last'[b] = last[b] /\ data'[b] = data[b]]_vars

\* The bank being drained, also between SwapBank and FreeBank.
Draining == IF pc = "free" THEN 1 - current ELSE current

\* notify is the promise of the sketch to release the endpoint: it is set
\* exactly when both banks are full, and then the endpoint refuses packets.
NotifyExact == /\ notify = 1 <=> ready = Bank
               /\ notify = 1 => bk0rdy = 1 /\ bus = "idle"

\* The sketch drains the banks in the order the handler filled them: it is at
\* the older of two ready banks, at the only ready one, or at the one that
\* comes next.
BanksInOrder ==
  IF notify = 1 THEN Draining = incoming
            ELSE /\ incoming \notin ready
                 /\ 1 - incoming \in ready <=> Draining = 1 - incoming

\* Bytes of the bank b that are handed to the sketch and not yet copied.
Unread(b) == IF b \in ready /\ ~(pc = "free" /\ b = Draining)
             THEN last[b] - first[b] ELSE 0

\* Bytes of a packet the handler has not seen yet.
Pending == IF bk0rdy = 1 /\ notify = 0 THEN byteCount ELSE 0

\* Every acknowledged byte is in exactly one place: read by the sketch, in
\* the ring buffer, in a ready bank, or in a packet the handler has not seen.
NothingLost ==
  sent = got + Len(rx) + Unread(0) + Unread(1) + Pending

\* The endpoint implements the byte stream of UsbStream.
Stream == INSTANCE UsbStream
StreamSpec == Stream!StreamSpec

\* The sketch catches up with the host, which stops at MaxSent bytes: every byte
\* it got acknowledged is read, and the endpoint takes packets again.
CatchesUp == []<>(got = sent /\ bk0rdy = 0)
=============================================================================
