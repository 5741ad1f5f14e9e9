---------------------------- MODULE UsbInEndpoint ----------------------------
(***************************************************************************)
(* The bulk IN endpoint of the SerialUSB port: USBDeviceClass::send() and  *)
(* clear() (cores/arduino/USB/USBCore.cpp) against the peripheral, which   *)
(* sends the buffer when the host polls, and the USB interrupt, which runs *)
(* at least every millisecond (start of frame) and acknowledges whatever   *)
(* flags an endpoint without a handler object has pending.                 *)
(* A byte is represented by its position among the bytes put in the        *)
(* endpoint's buffer.                                                      *)
(***************************************************************************)
EXTENDS Integers, Sequences

CONSTANTS
  Size,       \* bytes of a packet (EPX_SIZE, 64)
  MaxLen,     \* bound: bytes of one send()
  MaxBytes,   \* bound: bytes put in the buffer
  Timeout,    \* iterations of the waiting loop (TX_TIMEOUT_MS)
  Clears,     \* bound: calls of clear()
  FrameAck    \* TRUE: the interrupt finds the endpoint's flags pending

InAssumption == /\ {Size, MaxLen} \subseteq Nat \ {0}
                /\ {MaxBytes, Timeout, Clears} \subseteq Nat
                /\ FrameAck \in BOOLEAN

VARIABLES
  pc, len, timeout,  \* send() or clear(): where it is, bytes left, iterations left
  timedOut,          \* LastTransmitTimedOut[ep]
  result,            \* of the last call: "none", "ok" or "failed" (-1)
  cache,             \* udd_ep_in_cache_buffer[ep]
  byteCount, bk1rdy, trcpt1,   \* descriptor and flags of bank 1
  onBus,             \* bytes the peripheral is sending, or Idle
  clears,            \* calls of clear() made
  armed, received, dropped,  \* history: bytes put in the buffer, position of
                     \* the last byte the host has, bytes given up
  raced              \* history: a transfer completed inside clear(), after its
                     \* acknowledgement: the ZLP it makes ready looks complete

send  == <<pc, len, timeout, timedOut, result>>
hw    == <<byteCount, bk1rdy, trcpt1, onBus>>
hist  == <<armed, received, dropped, raced>>
vars  == <<send, cache, hw, clears, hist>>

Idle == <<-1>>
Positions == 0..MaxBytes
Packets == UNION {[1..n -> Positions] : n \in 0..Size}

TypeOK ==
  /\ pc \in {"idle", "loop", "wait", "copy", "count", "ack", "ready",
            "clearAck", "clearReady"}
  /\ len \in 0..MaxLen /\ timeout \in 0..Timeout /\ timedOut \in {0, 1}
  /\ result \in {"none", "ok", "failed"}
  /\ cache \in [1..Size -> Positions]
  /\ byteCount \in 0..Size /\ bk1rdy \in {0, 1} /\ trcpt1 \in {0, 1}
  /\ onBus \in Packets \cup {Idle}
  /\ clears \in 0..Clears
  /\ armed \in Positions /\ received \in Positions /\ dropped \in Nat
  /\ raced \in BOOLEAN

Init ==
  /\ pc = "idle" /\ len = 0 /\ timeout = 0 /\ timedOut = 0 /\ result = "none"
  /\ cache = [i \in 1..Size |-> 0]
  /\ byteCount = 0 /\ bk1rdy = 0 /\ trcpt1 = 0 /\ onBus = Idle
  /\ clears = 0
  /\ armed = 0 /\ received = 0 /\ dropped = 0 /\ raced = FALSE

-----------------------------------------------------------------------------
(* send(), called by the sketch. *)

Step(from, to) == pc = from /\ pc' = to

Send(n) ==
  /\ Step("idle", "loop")
  /\ armed + n <= MaxBytes
  /\ len' = n
  /\ UNCHANGED <<timeout, timedOut, result, cache, hw, clears, hist>>

Return ==
  /\ Step("loop", "idle")
  /\ len = 0
  /\ result' = "ok"
  /\ UNCHANGED <<len, timeout, timedOut, cache, hw, clears, hist>>

\* Faulty variant: the previous packet is not waited for.
NextPacketNow ==
  /\ len # 0
  /\ Step("loop", "copy")
  /\ UNCHANGED <<len, timeout, timedOut, result, cache, hw, clears, hist>>

\* while (len != 0): wait only if the previous packet is still in the bank.
NextPacket ==
  /\ len # 0
  /\ \/ bk1rdy = 1 /\ Step("loop", "wait") /\ timeout' = Timeout
     \/ bk1rdy = 0 /\ Step("loop", "copy") /\ UNCHANGED timeout
  /\ UNCHANGED <<len, timedOut, result, cache, hw, clears, hist>>

Waited ==
  /\ Step("wait", "copy")
  /\ trcpt1 = 1
  /\ UNCHANGED <<len, timeout, timedOut, result, cache, hw, clears, hist>>

WaitMore ==
  /\ Step("wait", "wait")
  /\ trcpt1 = 0 /\ timedOut = 0 /\ timeout # 0
  /\ timeout' = timeout - 1
  /\ UNCHANGED <<len, timedOut, result, cache, hw, clears, hist>>

\* Bytes of the bank that no packet on the bus carries.
Waiting == IF bk1rdy = 1 /\ onBus = Idle THEN byteCount ELSE 0

GiveUp ==
  /\ Step("wait", "idle")
  /\ trcpt1 = 0 /\ (timedOut = 1 \/ timeout = 0)
  /\ timedOut' = 1
  /\ byteCount' = 0
  /\ result' = "failed"
  /\ dropped' = dropped + Waiting
  /\ UNCHANGED <<len, timeout, cache, bk1rdy, trcpt1, onBus, clears, armed, received, raced>>

\* Faulty variant: the packet size is not respected.
ChunkWhole == len

Chunk == IF len >= Size THEN Size ELSE len

Copy ==
  /\ Step("copy", "count")
  /\ timedOut' = 0
  /\ cache' = [i \in 1..Size |-> IF i <= Chunk THEN armed + i ELSE cache[i]]
  /\ UNCHANGED <<len, timeout, result, hw, clears, hist>>

SetByteCount ==
  /\ Step("count", "ack")
  /\ byteCount' = Chunk
  /\ UNCHANGED <<len, timeout, timedOut, result, cache, bk1rdy, trcpt1, onBus, clears, hist>>

AckComplete ==
  /\ Step("ack", "ready")
  /\ trcpt1' = 0
  /\ UNCHANGED <<len, timeout, timedOut, result, cache, byteCount, bk1rdy, onBus, clears, hist>>

SetReady ==
  /\ Step("ready", "loop")
  /\ bk1rdy' = 1
  /\ len' = len - Chunk
  /\ armed' = armed + Chunk
  /\ UNCHANGED <<timeout, timedOut, result, cache, byteCount, trcpt1, onBus, clears,
                 received, dropped, raced>>

InSend == \/ Return \/ NextPacket \/ Waited \/ WaitMore \/ GiveUp
          \/ Copy \/ SetByteCount \/ AckComplete \/ SetReady

\* clear(): a ZLP is made ready, in place of what the bank holds.
Clear ==
  /\ Step("idle", "clearAck")
  /\ clears < Clears
  /\ clears' = clears + 1
  /\ dropped' = dropped + Waiting
  /\ byteCount' = 0
  /\ UNCHANGED <<len, timeout, timedOut, result, cache, trcpt1, bk1rdy, onBus, armed, received, raced>>

ClearAck ==
  /\ Step("clearAck", "clearReady")
  /\ trcpt1' = 0
  /\ UNCHANGED <<len, timeout, timedOut, result, cache, byteCount, bk1rdy, onBus, clears, hist>>

ClearReady ==
  /\ Step("clearReady", "idle")
  /\ bk1rdy' = 1
  /\ raced' = (raced \/ trcpt1 = 1)
  /\ UNCHANGED <<len, timeout, timedOut, result, cache, byteCount, trcpt1, onBus, clears,
                 armed, received, dropped>>

-----------------------------------------------------------------------------
(* ISRHandler(): the endpoint has no handler object. *)

FrameInterrupt ==
  /\ FrameAck
  /\ trcpt1 = 1
  /\ trcpt1' = 0
  /\ UNCHANGED <<send, cache, byteCount, bk1rdy, onBus, clears, hist>>

(* The peripheral and the host. *)

BusIn ==
  /\ bk1rdy = 1 /\ onBus = Idle
  /\ onBus' = SubSeq(cache, 1, byteCount)
  /\ UNCHANGED <<send, cache, byteCount, bk1rdy, trcpt1, clears, hist>>

BusInDone ==
  /\ onBus # Idle
  /\ onBus' = Idle
  /\ bk1rdy' = 0 /\ trcpt1' = 1
  /\ received' = IF onBus = <<>> THEN received ELSE onBus[Len(onBus)]
  /\ UNCHANGED <<send, cache, byteCount, clears, armed, dropped, raced>>

\* The host did not acknowledge the packet: the bank stays ready.
BusInError ==
  /\ onBus # Idle
  /\ onBus' = Idle
  /\ dropped' = IF byteCount = 0 THEN dropped + Len(onBus) ELSE dropped
  /\ UNCHANGED <<send, cache, byteCount, bk1rdy, trcpt1, clears, armed, received, raced>>

Bus == BusIn \/ BusInDone \/ BusInError

Next == \/ \E n \in 1..MaxLen : Send(n)
        \/ InSend \/ Clear \/ ClearAck \/ ClearReady
        \/ FrameInterrupt \/ Bus

Spec == Init /\ [][Next]_vars

\* The sketch keeps sending, the host keeps polling and does not reject every
\* packet.
FairSpec == /\ Spec
            /\ WF_vars(\E n \in 1..MaxLen : Send(n)) /\ WF_vars(InSend)
            /\ WF_vars(ClearAck) /\ WF_vars(ClearReady)
            /\ WF_vars(BusIn) /\ SF_vars(BusInDone)

-----------------------------------------------------------------------------
(* Properties. *)

\* The buffer is not rewritten under a packet that is ready or on the bus.
CacheStable == [][bk1rdy = 1 /\ ~raced => cache' = cache]_vars

\* The host never gets a byte twice, nor an earlier byte after a later one,
\* whatever times out or is cleared, but for the race inside clear().
InOrder ==
  [][onBus' # Idle /\ onBus' # <<>> /\ ~raced => onBus'[1] > received]_onBus

\* A byte put in the buffer is received, still in the bank, or was given up
\* by a timeout or a clear(): there is no other loss, and a transfer that
\* succeeds after all is not counted as a loss.
Accounted ==
  raced \/
    armed - received <= dropped + (IF bk1rdy = 0 THEN 0
                                   ELSE IF onBus = Idle THEN byteCount ELSE Len(onBus))

\* A host that reads again ends the fast failures of LastTransmitTimedOut.
Recovers == timedOut = 1 ~> timedOut = 0 \/ armed = MaxBytes

\* USBCore.cpp:637, "Wait for (previous) transfer to complete": a transfer
\* that completes while send() waits for it ends the waiting.
WaitSeesCompletion == pc = "wait" /\ bk1rdy = 0 => trcpt1 = 1
=============================================================================
