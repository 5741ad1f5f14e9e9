----------------------------- MODULE WireMaster -----------------------------
(***************************************************************************)
(* The I2C master: TwoWire::endTransmission() and requestFrom()            *)
(* (libraries/Wire/Wire.cpp) over SERCOM::startTransmissionWIRE(),         *)
(* sendDataMasterWIRE() and readDataWIRE() (cores/arduino/SERCOM.cpp).     *)
(* Another master takes the bus when it is idle, and can win it while this *)
(* one sends; the slave acknowledges, refuses or holds the clock.          *)
(***************************************************************************)
EXTENDS Integers, Sequences

CONSTANTS
  BufSize,    \* elements of rxBuffer and of txBuffer (256)
  MaxBytes,   \* bound: bytes of a transfer
  MaxCalls,   \* bound: calls of the sketch
  MaxLost     \* bound: arbitrations lost

WireAssumption == BufSize \in Nat \ {0} /\ {MaxBytes, MaxCalls, MaxLost} \subseteq Nat

VARIABLES
  bus,                \* STATUS.BUSSTATE: "idle", "owner" (this one) or "busy"
  ARBLOST, RXNACK,    \* STATUS
  MB, SB,             \* INTFLAG
  hw,                 \* what the hardware does: "none", "address", "data", "read"
  timeoutOccurred,
  pc,                 \* "sketch", "start", "address", "check", "data", "wait", "stop"
  again,              \* startTransmissionWIRE() was called by itself
  flag, length, stop, \* the call: "write" or "read", bytes, stopBit
  txBuffer,           \* bytes left in it
  rxBuffer,           \* per byte: received, or read from the register all the same
  byteRead, busOwner,
  result,             \* of the last call
  calls, losses,
  acked, delivered,   \* history: address acknowledged, bytes acknowledged
  lost                \* history: "none", or where arbitration was lost: "address", "data"

status  == <<bus, ARBLOST, RXNACK, MB, SB, hw>>
sketch  == <<flag, length, stop, calls>>
buffers == <<txBuffer, rxBuffer, byteRead, busOwner>>
history == <<acked, delivered, lost>>
vars    == <<status, timeoutOccurred, pc, again, sketch, buffers, result, losses, history>>

TypeOK ==
  /\ bus \in {"idle", "owner", "busy"} /\ {ARBLOST, RXNACK, MB, SB, timeoutOccurred, again} \subseteq BOOLEAN
  /\ hw \in {"none", "address", "data", "read"}
  /\ pc \in {"sketch", "start", "address", "check", "data", "wait", "stop"}
  /\ flag \in {"write", "read"} /\ length \in 0..MaxBytes /\ stop \in BOOLEAN
  /\ txBuffer \in 0..MaxBytes /\ Len(rxBuffer) <= BufSize /\ byteRead \in 0..MaxBytes
  /\ busOwner \in BOOLEAN /\ result \in 0..5 \cup 0..MaxBytes
  /\ calls \in 0..MaxCalls /\ losses \in 0..MaxLost
  /\ acked \in BOOLEAN /\ delivered \in 0..MaxBytes /\ lost \in {"none", "address", "data"}

Init ==
  /\ bus = "idle" /\ ARBLOST = FALSE /\ RXNACK = FALSE /\ MB = FALSE /\ SB = FALSE /\ hw = "none"
  /\ timeoutOccurred = FALSE /\ pc = "sketch" /\ again = FALSE
  /\ flag = "write" /\ length = 0 /\ stop = TRUE
  /\ txBuffer = 0 /\ rxBuffer = <<>> /\ byteRead = 0 /\ busOwner = FALSE
  /\ result = 0 /\ calls = 0 /\ losses = 0
  /\ acked = FALSE /\ delivered = 0 /\ lost = "none"

-----------------------------------------------------------------------------
(* The hardware, the slave and the other master. *)

Flags(mb, sb, nack) == MB' = mb /\ SB' = sb /\ RXNACK' = nack /\ hw' = "none"

Acknowledged ==
  /\ hw \in {"address", "data"}
  /\ Flags(hw = "data" \/ flag = "write", hw = "address" /\ flag = "read", FALSE)
  /\ acked' = TRUE /\ delivered' = IF hw = "data" THEN delivered + 1 ELSE delivered
  /\ UNCHANGED <<bus, ARBLOST, losses, lost>>

Refused ==
  /\ hw \in {"address", "data"} /\ Flags(TRUE, FALSE, TRUE)
  /\ UNCHANGED <<bus, ARBLOST, losses, history>>

ByteReceived ==
  /\ hw = "read" /\ Flags(FALSE, TRUE, FALSE) /\ delivered' = delivered + 1
  /\ UNCHANGED <<bus, ARBLOST, losses, acked, lost>>

\* MB may not be set when data is lost.
Lost ==
  /\ hw # "none" /\ losses < MaxLost /\ losses' = losses + 1
  /\ \E mb \in {TRUE, hw = "address"} : Flags(mb, FALSE, RXNACK)
  /\ ARBLOST' = TRUE /\ bus' = "busy"
  /\ lost' = IF hw = "address" THEN "address" ELSE "data"
  /\ UNCHANGED <<acked, delivered>>

OtherMaster ==
  /\ \/ bus = "idle" /\ hw = "none" /\ bus' = "busy"
     \/ bus = "busy" /\ bus' = "idle"
  /\ UNCHANGED <<ARBLOST, RXNACK, MB, SB, hw, losses, history>>

Hardware ==
  /\ Acknowledged \/ Refused \/ ByteReceived \/ Lost \/ OtherMaster
  /\ UNCHANGED <<timeoutOccurred, pc, again, sketch, buffers, result>>

\* A write to a register clears MB and SB; only the owner of the bus sends.
Write(next) ==
  /\ MB' = FALSE /\ SB' = FALSE /\ hw' = IF bus' = "owner" THEN next ELSE "none"
  /\ UNCHANGED RXNACK

\* WIRE_MASTER_ACT_STOP.
Stop ==
  /\ bus' = IF bus = "owner" THEN "idle" ELSE bus
  /\ MB' = FALSE /\ SB' = FALSE /\ hw' = "none"
  /\ UNCHANGED <<ARBLOST, RXNACK>>

-----------------------------------------------------------------------------
(* The sketch, and startTransmissionWIRE(). *)

Call ==
  /\ pc = "sketch" /\ calls < MaxCalls /\ calls' = calls + 1 /\ pc' = "start"
  /\ flag' \in {"write", "read"} /\ stop' \in BOOLEAN
  /\ length' \in (IF flag' = "read" THEN 1 ELSE 0)..MaxBytes
  /\ flag' = "write" => length' <= BufSize
  /\ txBuffer' = (IF flag' = "write" THEN length' ELSE 0)
  /\ rxBuffer' = <<>> /\ byteRead' = 0 /\ busOwner' \in BOOLEAN
  /\ again' = FALSE /\ acked' = FALSE /\ delivered' = 0 /\ lost' = "none"
  /\ UNCHANGED <<status, timeoutOccurred, result, losses>>

Return(value) == pc' = "sketch" /\ result' = value /\ UNCHANGED <<sketch, losses, history>>

\* requestFrom() behind a timeout: setClock() starts the peripheral again, which
\* takes the bus for idle.
Reset == bus' = "idle" /\ ARBLOST' = FALSE /\ RXNACK' = FALSE /\ MB' = FALSE /\ SB' = FALSE /\ hw' = "none"

\* endTransmission() stops behind an address error.
AddressError == Stop

\* startTransmissionWIRE() has returned false.
NotStarted(timeout) ==
  /\ IF flag = "write"
     THEN AddressError /\ Return(IF timeout THEN 4 ELSE 2)
     ELSE (IF timeout THEN Reset ELSE UNCHANGED status) /\ Return(0)
  /\ UNCHANGED <<again, buffers>>

Refuses == bus # "owner" /\ (bus = "busy" \/ (ARBLOST /\ bus # "idle"))

\* The call made again after a lost arbitration: its result is not looked at.
Start ==
  /\ pc = "start"
  /\ \/ Refuses /\ ~again /\ NotStarted(timeoutOccurred) /\ UNCHANGED timeoutOccurred
     \/ /\ Refuses /\ again /\ pc' = "check"
        /\ UNCHANGED <<status, timeoutOccurred, again, sketch, buffers, result, losses, history>>
     \/ /\ ~Refuses /\ pc' = "address"
        /\ bus' = "owner" /\ ARBLOST' = FALSE /\ Write("address") /\ timeoutOccurred' = FALSE
        /\ UNCHANGED <<again, sketch, buffers, result, losses, history>>

\* while (!f && !testTimeout()).
WaitFor(f) == (f /\ UNCHANGED timeoutOccurred) \/ (~f /\ timeoutOccurred' = TRUE)

WaitAddress ==
  /\ pc = "address" /\ flag = "write" /\ WaitFor(MB)
  /\ IF bus = "owner" THEN pc' = "check" /\ UNCHANGED again ELSE pc' = "start" /\ again' = TRUE
  /\ UNCHANGED <<status, sketch, buffers, result, losses, history>>

WaitSlave ==
  /\ pc = "address" /\ flag = "read"
  /\ \/ MB /\ ~SB /\ Stop /\ Return(0) /\ UNCHANGED <<timeoutOccurred, again, buffers>>
     \/ /\ ~MB /\ WaitFor(SB) /\ pc' = "check"
        /\ UNCHANGED <<status, again, sketch, buffers, result, losses, history>>

\* Faulty variant: the acknowledge is not looked at.
CheckTimeoutOnly == timeoutOccurred

CheckFails == timeoutOccurred \/ RXNACK

Check ==
  /\ pc = "check"
  /\ \/ CheckFails /\ NotStarted(timeoutOccurred)
     \/ /\ ~CheckFails /\ pc' = "data"
        /\ IF flag = "read"
           THEN rxBuffer' = <<SB>> /\ byteRead' = 1 /\ delivered' = 1
           ELSE UNCHANGED <<rxBuffer, byteRead, delivered>>
        /\ UNCHANGED <<status, again, sketch, txBuffer, busOwner, result, losses, acked, lost>>
  /\ UNCHANGED timeoutOccurred

-----------------------------------------------------------------------------
(* endTransmission(): the bytes. *)

SendByte ==
  /\ pc = "data" /\ flag = "write" /\ txBuffer > 0
  /\ pc' = "wait" /\ txBuffer' = txBuffer - 1
  /\ UNCHANGED <<bus, ARBLOST>> /\ Write("data") /\ timeoutOccurred' = FALSE
  /\ UNCHANGED <<again, sketch, rxBuffer, byteRead, busOwner, result, losses, history>>

WaitSent ==
  /\ pc = "wait" /\ flag = "write"
  /\ \/ /\ MB /\ ~RXNACK /\ pc' = "data"
        /\ UNCHANGED <<status, timeoutOccurred, again, sketch, buffers, result, losses, history>>
     \/ /\ (MB /\ RXNACK) \/ (~MB /\ ARBLOST)
        /\ Stop /\ Return(3) /\ UNCHANGED <<timeoutOccurred, again, buffers>>
     \/ /\ ~MB /\ ~ARBLOST /\ timeoutOccurred' = TRUE
        /\ Stop /\ Return(4) /\ UNCHANGED <<again, buffers>>

EndTransmission ==
  /\ pc = "data" /\ flag = "write" /\ txBuffer = 0
  /\ IF stop THEN Stop ELSE UNCHANGED status
  /\ Return(0) /\ UNCHANGED <<timeoutOccurred, again, buffers>>

-----------------------------------------------------------------------------
(* requestFrom(): the bytes.  busOwner has no value before it is read from  *)
(* the bus.                                                                 *)

More == byteRead < length /\ ~timeoutOccurred

ReadByte ==
  /\ pc = "data" /\ flag = "read" /\ More /\ bus = "owner"
  /\ busOwner' = TRUE /\ pc' = "wait"
  /\ UNCHANGED <<bus, ARBLOST>> /\ Write("read") /\ timeoutOccurred' = FALSE
  /\ UNCHANGED <<again, sketch, txBuffer, rxBuffer, byteRead, result, losses, history>>

\* store_char().
Stored(c) == IF Len(rxBuffer) = BufSize THEN rxBuffer ELSE Append(rxBuffer, c)

\* The register is read in any case, and the byte counted although rxBuffer may have no room.
WaitReceived ==
  /\ pc = "wait" /\ flag = "read" /\ WaitFor(SB \/ MB) /\ pc' = "data"
  /\ rxBuffer' = Stored(SB) /\ byteRead' = byteRead + 1
  /\ UNCHANGED <<status, again, sketch, txBuffer, busOwner, result, losses, history>>

\* The last byte is not valid when the bus was lost before it was asked for.
ReadValid(owner) == IF owner THEN byteRead ELSE byteRead - 1

RequestFrom ==
  /\ pc = "data" /\ flag = "read" /\ ~(More /\ bus = "owner")
  /\ LET owner == IF More THEN FALSE ELSE busOwner IN
       /\ busOwner' = owner
       /\ IF timeoutOccurred THEN Reset
          ELSE IF stop /\ owner THEN Stop ELSE UNCHANGED status
       /\ Return(IF timeoutOccurred THEN 0 ELSE ReadValid(owner))
  /\ UNCHANGED <<timeoutOccurred, again, txBuffer, rxBuffer, byteRead>>

Master == \/ Start \/ WaitAddress \/ WaitSlave \/ Check
          \/ SendByte \/ WaitSent \/ EndTransmission
          \/ ReadByte \/ WaitReceived \/ RequestFrom

Next == Call \/ Hardware \/ Master

Spec == Init /\ [][Next]_vars

\* The processor runs, and millis() goes on; the slave may stop.
FairSpec == Spec /\ WF_vars(Master)

-----------------------------------------------------------------------------
(* Properties. *)

Done(f) == pc = "sketch" /\ calls > 0 /\ flag = f

\* Wire.cpp:138, "0 : Success": the slave has acknowledged its address and every
\* byte.  Arbitration lost with the last byte is not seen, and with the address
\* only when there are bytes to send.
SuccessIsDelivered ==
  Done("write") /\ result = 0 /\ lost # "data" /\ (lost = "address" => length > 0)
    => acked /\ delivered = length

\* The bytes that requestFrom() says it has read were received and can be read, as far as
\* rxBuffer holds them, unless the bus was lost with the last of them.
ReadIsReceived ==
  Done("read") /\ (lost = "data" => result < length)
    => \A n \in 1..result : n <= BufSize => n <= Len(rxBuffer) /\ rxBuffer[n]

\* Behind a call that was to stop, this master does not hold the bus, but for a
\* request of one byte, which may not stop (busOwner has no value).
BusReleased == pc = "sketch" /\ stop /\ ~(flag = "read" /\ length = 1) => bus # "owner"

\* What the master reports of a call holds, and what the call leaves of the bus.
MasterSound == SuccessIsDelivered /\ ReadIsReceived /\ BusReleased

\* Every call returns, whatever the slave and the other master do.
CallsReturn == pc # "sketch" ~> pc = "sketch"
=============================================================================
