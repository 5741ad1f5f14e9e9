------------------------------ MODULE UsbSerial ------------------------------
(***************************************************************************)
(* The sketch's side of the SerialUSB port: read(), peek(), readBytes()    *)
(* and readBreak() of Serial_ (cores/arduino/USB/CDC.cpp) on top of        *)
(* USBDeviceClass::recv() (USBCore.cpp).  The endpoint below is the byte   *)
(* stream of UsbStream, which UsbOutEndpoint implements: a recv() of n     *)
(* bytes answers the next k of them, for any k up to n and what was sent.  *)
(* The host may reset the bus, which leaves the device without a           *)
(* configuration, and select one again, at any point of a call.            *)
(***************************************************************************)
EXTENDS Integers, Sequences

CONSTANTS
  MaxSent,    \* bound: bytes the host sends
  MaxLen,     \* bound: bytes asked of one readBytes()
  MaxResets,  \* bound: bus resets after the first configuration
  MaxBreaks,  \* bound: SEND_BREAK requests
  Word        \* values of a size_t (2^32)

SerialAssumption ==
  /\ {MaxSent, MaxLen, MaxResets, MaxBreaks} \subseteq Nat
  /\ Word \in Nat /\ Word > MaxLen + 1

None == 0   \* -1 in the code; bytes and break requests are numbered from 1

VARIABLES
  configured,        \* _usbConfiguration is not 0
  sent, got,         \* the stream: see UsbStream
  peeked,            \* _serialPeek
  pc,                \* where the sketch is
  len, count, expired, buffer,   \* readBytes(): its locals and the caller's buffer
  breakValue, masked, ret,       \* readBreak(): PRIMASK and its local
  resets,
  taken,             \* history: every byte returned by read() and readBytes()
  dropped,           \* history: bytes of a configuration that is over
  disturbed,         \* history: recv() answered -1 after readBytes() placed a byte
  breaks, returned   \* history: number of the last break request, and of the
                     \* last one readBreak() returned

stream == <<configured, sent, got, resets, dropped>>
bytes  == <<len, count, expired, buffer, disturbed>>
brk    == <<breakValue, masked, ret, breaks, returned>>
vars   == <<stream, peeked, pc, bytes, brk, taken>>

Byte == 1..MaxSent

TypeOK ==
  /\ configured \in BOOLEAN /\ resets \in 0..MaxResets
  /\ sent \in 0..MaxSent /\ got \in 0..sent
  /\ peeked \in Byte \cup {None}
  /\ pc \in {"app", "bytes", "break", "clear"}
  /\ len \in 0..MaxLen /\ count \in 0..Word-1 /\ expired \in BOOLEAN
  /\ buffer \in [0..MaxLen-1 -> Byte \cup {None}]
  /\ {breakValue, ret, breaks, returned} \subseteq 0..MaxBreaks
  /\ masked \in BOOLEAN
  /\ taken \in Seq(Byte) /\ dropped \subseteq Byte /\ disturbed \in BOOLEAN

Init ==
  /\ configured = FALSE /\ resets = 0
  /\ sent = 0 /\ got = 0 /\ peeked = None
  /\ pc = "app"
  /\ len = 0 /\ count = 0 /\ expired = FALSE
  /\ buffer = [i \in 0..MaxLen-1 |-> None]
  /\ breakValue = None /\ masked = FALSE /\ ret = None
  /\ taken = <<>> /\ dropped = {} /\ disturbed = FALSE
  /\ breaks = 0 /\ returned = 0

-----------------------------------------------------------------------------
(* The host. *)

HostSends ==
  /\ configured /\ sent < MaxSent
  /\ sent' = sent + 1
  /\ UNCHANGED <<configured, got, resets, dropped, peeked, pc, bytes, brk, taken>>

\* End-Of-Reset: _usbConfiguration = 0.
BusReset ==
  /\ configured /\ resets < MaxResets
  /\ configured' = FALSE
  /\ resets' = resets + 1
  /\ UNCHANGED <<sent, got, dropped, peeked, pc, bytes, brk, taken>>

\* SET_CONFIGURATION constructs the endpoint's handler, with empty buffers.
Configure ==
  /\ ~configured
  /\ configured' = TRUE
  /\ dropped' = dropped \cup (got+1 .. sent)
  /\ got' = sent
  /\ UNCHANGED <<sent, resets, peeked, pc, bytes, brk, taken>>

\* SEND_BREAK, handled in the USB interrupt.
SendBreak ==
  /\ breaks < MaxBreaks /\ ~masked
  /\ breaks' = breaks + 1
  /\ breakValue' = breaks + 1
  /\ UNCHANGED <<stream, peeked, pc, bytes, masked, ret, returned, taken>>

-----------------------------------------------------------------------------
(* The sketch. *)

\* usb.recv(ep, n) of a configured device that answers k bytes.
Recv(n, k) ==
  /\ configured
  /\ k <= n /\ k <= sent - got
  /\ got' = got + k
  /\ UNCHANGED <<configured, sent, resets, dropped>>

\* usb.recv(ep), the byte or None: no byte yet, or no configuration.
RecvByte(c) ==
  \/ c = got + 1 /\ Recv(1, 1)
  \/ c = None /\ UNCHANGED stream

\* Faulty variant: _serialPeek is not reset.
ReadKeepsPeeked ==
  /\ pc = "app"
  /\ \E c \in Byte \cup {None} :
       /\ IF peeked # None THEN c = peeked /\ UNCHANGED stream ELSE RecvByte(c)
       /\ taken' = IF c = None THEN taken ELSE Append(taken, c)
  /\ UNCHANGED <<pc, bytes, brk, peeked>>

Read ==
  /\ pc = "app"
  /\ \E c \in Byte \cup {None} :
       /\ IF peeked # None THEN c = peeked /\ UNCHANGED stream ELSE RecvByte(c)
       /\ taken' = IF c = None THEN taken ELSE Append(taken, c)
  /\ peeked' = None
  /\ UNCHANGED <<pc, bytes, brk>>

Peek ==
  /\ pc = "app"
  /\ IF peeked # None THEN UNCHANGED <<peeked, stream>> ELSE RecvByte(peeked')
  /\ UNCHANGED <<pc, bytes, brk, taken>>

ReadBytes(n) ==
  /\ pc = "app"
  /\ pc' = "bytes"
  /\ len' = n /\ count' = 0 /\ expired' = FALSE
  /\ buffer' = [i \in 0..MaxLen-1 |-> None]
  /\ UNCHANGED <<stream, peeked, disturbed, brk, taken>>

CallReadBytes == \E n \in 1..MaxLen : ReadBytes(n)

\* millis() - _startMillis >= _timeout
Expire ==
  /\ pc = "bytes" /\ ~expired
  /\ expired' = TRUE
  /\ UNCHANGED <<stream, peeked, pc, len, count, buffer, disturbed, brk, taken>>

\* One turn of the loop: n > 0 bytes are placed at buffer + count.
BytesReceived ==
  /\ pc = "bytes" /\ count < len
  /\ \E n \in 1..MaxLen :
       /\ Recv(len - count, n)
       /\ buffer' = [i \in 0..MaxLen-1 |->
                       IF i \in count..(count + n - 1) THEN got + 1 + (i - count)
                                                       ELSE buffer[i]]
       /\ count' = count + n
  /\ UNCHANGED <<peeked, pc, len, expired, disturbed, brk, taken>>

\* n = (uint32_t)-1: count += n, in the width of size_t.
BytesUnconfigured ==
  /\ pc = "bytes" /\ count < len
  /\ ~configured
  /\ count' = (count + Word - 1) % Word
  /\ disturbed' = (disturbed \/ count > 0)
  /\ UNCHANGED <<stream, peeked, pc, len, expired, buffer, brk, taken>>

\* The bytes of the caller's buffer that the returned count covers: those placed there, which
\* leave no gap, without the places behind them that nothing was written to.
Covered == {i \in 1..(IF count < len THEN count ELSE len) : buffer[i-1] # None}
Delivered == [i \in Covered |-> buffer[i-1]]

\* count = length, or recv() answered 0 after the timeout.
BytesReturn ==
  /\ pc = "bytes"
  /\ count >= len \/ (configured /\ expired)
  /\ pc' = "app"
  /\ taken' = taken \o Delivered
  /\ UNCHANGED <<stream, peeked, bytes, brk>>

\* readBreak(): the interrupts are masked from the read to the reset.
ReadBreak ==
  /\ pc = "app"
  /\ pc' = "break" /\ masked' = TRUE
  /\ UNCHANGED <<stream, peeked, bytes, breakValue, ret, breaks, returned, taken>>

BreakRead ==
  /\ pc = "break"
  /\ pc' = "clear" /\ ret' = breakValue
  /\ UNCHANGED <<stream, peeked, bytes, breakValue, masked, breaks, returned, taken>>

\* Faulty variant: breakValue is not reset.
BreakClearKeeps ==
  /\ pc = "clear"
  /\ pc' = "app"
  /\ masked' = FALSE
  /\ returned' = IF ret = None THEN returned ELSE ret
  /\ UNCHANGED <<stream, peeked, bytes, breakValue, ret, breaks, taken>>

BreakClear ==
  /\ pc = "clear"
  /\ pc' = "app"
  /\ breakValue' = None /\ masked' = FALSE
  /\ returned' = IF ret = None THEN returned ELSE ret
  /\ UNCHANGED <<stream, peeked, bytes, ret, breaks, taken>>

Host == HostSends \/ BusReset \/ Configure \/ SendBreak

InCall == \/ Expire \/ BytesReceived \/ BytesUnconfigured \/ BytesReturn
          \/ BreakRead \/ BreakClear

Next == Host \/ Read \/ Peek \/ CallReadBytes \/ ReadBreak \/ InCall

Spec == Init /\ [][Next]_vars

\* Time passes, and the sketch runs.
FairSpec == Spec /\ WF_vars(Expire)
                 /\ WF_vars(InCall)

-----------------------------------------------------------------------------
(* Properties. *)

\* No byte is returned twice, through peek(), timeouts and bus resets, and the
\* one byte that may come after a later one is the one peek() kept (or one left
\* in the buffer when bus resets inside readBytes() took the count back).
OnceAndInOrder ==
  [][\A i \in 1..Len(taken'), j \in Len(taken)+1..Len(taken') :
       i < j => /\ taken'[i] # taken'[j]
                /\ taken'[i] < taken'[j] \/ taken'[j] = peeked \/ disturbed]_taken

\* Bytes a readBytes() in progress holds.
InBuffer == IF pc = "bytes" THEN {buffer[i] : i \in 0..MaxLen-1} \ {None} ELSE {}

\* Every byte taken from the endpoint reaches the sketch, or waits in
\* _serialPeek or in the buffer of the call in progress, or belongs to a
\* configuration that is over; only a bus reset inside readBytes() loses more.
NothingSkipped ==
  disturbed \/
    1..got = {taken[i] : i \in 1..Len(taken)} \cup ({peeked} \ {None})
             \cup InBuffer \cup dropped

\* USBAPI.h:128, "return the value of the most recent break request, but will
\* return it at most once": an older request never follows a newer one, and
\* the most recent one stays until it is returned.
MostRecentBreak == /\ breakValue # None => breakValue = breaks
                   /\ breakValue = None => returned = breaks
BreakAtMostOnce == [][pc = "clear" /\ ret # None /\ pc' = "app" => ret > returned]_vars

\* readBytes() returns, whatever the host does.
ReadBytesEnds == pc = "bytes" ~> pc = "app"

\* api/Stream.h:100, "returns the number of characters placed in the buffer".
CountOfBytesPlaced == pc = "bytes" => count <= Len(Delivered)
=============================================================================
