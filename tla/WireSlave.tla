------------------------------ MODULE WireSlave ------------------------------
(***************************************************************************)
(* The I2C slave: TwoWire::onService() (libraries/Wire/Wire.cpp), called   *)
(* by the interrupt of the SERCOM.  The clock is held from an address or a *)
(* data flag until the handler answers; a stop is not held, so with a slow *)
(* handler the flags of a stop and of the next address come together.  A   *)
(* byte is the number of the transfer that it belongs to.                  *)
(***************************************************************************)
EXTENDS Integers, Sequences

CONSTANTS
  BufSize,     \* elements of rxBuffer and of txBuffer (256)
  MaxLen,      \* bound: bytes of a transfer
  MaxTransfers \* bound: transfers of the master

SlaveAssumption == BufSize \in Nat \ {0} /\ {MaxLen, MaxTransfers} \subseteq Nat

VARIABLES
  PREC, AMATCH, DRDY, \* INTFLAG: stop, address match, data ready
  SR, DIR,            \* STATUS: repeated start, the master reads
  bus,                \* the master: "idle", "address", "write" or "read"
  len,                \* bytes of the transfer so far
  refused,            \* the slave did not acknowledge the last byte
  rxBuffer, txBuffer,
  transfer,           \* the number of the transfer
  accepted,           \* history: bytes acknowledged and not yet reported, in order
  reported,           \* history: what the last onReceive() found, and what it had to find
  stale,              \* history: this transfer sent a byte of an earlier request
  joined              \* history: a stop and the address of this transfer were served as one

flags   == <<PREC, AMATCH, DRDY, SR, DIR>>
master  == <<bus, len, transfer>>
history == <<accepted, reported, stale, joined>>
vars    == <<flags, master, refused, rxBuffer, txBuffer, history>>

Init ==
  /\ PREC = FALSE /\ AMATCH = FALSE /\ DRDY = FALSE /\ SR = FALSE /\ DIR = FALSE
  /\ bus = "idle" /\ len = 0 /\ transfer = 0 /\ refused = FALSE
  /\ rxBuffer = <<>> /\ txBuffer = <<>>
  /\ accepted = <<>> /\ reported = [found |-> <<>>, due |-> <<>>]
  /\ stale = FALSE /\ joined = FALSE

-----------------------------------------------------------------------------
(* The master and the peripheral (external).                               *)

Held == AMATCH \/ DRDY

\* A start, or a repeated start, with the address of this slave.
MasterAddresses ==
  /\ ~Held /\ transfer < MaxTransfers
  /\ AMATCH' = TRUE /\ SR' = (bus # "idle") /\ DIR' \in BOOLEAN
  /\ bus' = "address" /\ transfer' = transfer + 1 /\ len' = 0
  /\ refused' = FALSE /\ stale' = FALSE /\ joined' = FALSE
  /\ UNCHANGED <<PREC, DRDY, rxBuffer, txBuffer, accepted, reported>>

\* A byte has come in, or the one before was acknowledged and the next is wanted.
NextByte ==
  /\ bus \in {"write", "read"} /\ ~Held /\ ~refused /\ len < MaxLen
  /\ DRDY' = TRUE /\ len' = len + 1
  /\ UNCHANGED <<PREC, AMATCH, SR, DIR, bus, transfer, refused, rxBuffer, txBuffer, history>>

MasterStops ==
  /\ bus \in {"write", "read"} /\ ~Held
  /\ PREC' = TRUE /\ bus' = "idle"
  /\ UNCHANGED <<AMATCH, DRDY, SR, DIR, len, transfer, refused, rxBuffer, txBuffer, history>>

-----------------------------------------------------------------------------
(* onService().  A command of the handler clears the flags it answers.     *)

ClearFlags == PREC' = FALSE /\ AMATCH' = FALSE /\ DRDY' = FALSE

Acknowledge ==
  /\ ClearFlags /\ UNCHANGED <<SR, DIR, len, transfer>>
  /\ bus' = IF AMATCH THEN (IF DIR THEN "read" ELSE "write") ELSE bus

\* A stop, or a repeated start to write: the bytes are reported and dropped.
StopOrRestart == PREC \/ (AMATCH /\ SR /\ ~DIR)

Report ==
  /\ StopOrRestart
  /\ Acknowledge
  /\ reported' = [found |-> rxBuffer, due |-> accepted] /\ accepted' = <<>>
  /\ rxBuffer' = <<>>
  /\ joined' = (joined \/ AMATCH)
  /\ UNCHANGED <<txBuffer, refused, stale>>

Appended ==                      \* mutant: txBuffer.clear() forgotten
  {txBuffer \o s : s \in {a \in {[i \in 1..n |-> transfer] : n \in 0..BufSize} :
                              Len(a) <= BufSize - Len(txBuffer)}}

\* txBuffer.clear(), and onRequest() writes any number of bytes that fit.
Answers == {[i \in 1..n |-> transfer] : n \in 0..BufSize}

AddressMatch ==
  /\ ~StopOrRestart /\ AMATCH
  /\ Acknowledge
  /\ IF DIR THEN txBuffer' \in Answers ELSE UNCHANGED txBuffer
  /\ UNCHANGED <<rxBuffer, refused, history>>

\* read_char(), or 0xff when there is nothing.
SendByte ==
  /\ ~StopOrRestart /\ ~AMATCH /\ DRDY /\ DIR
  /\ Acknowledge
  /\ IF txBuffer = <<>> THEN UNCHANGED <<txBuffer, stale>>
     ELSE txBuffer' = Tail(txBuffer) /\ stale' = (stale \/ Head(txBuffer) # transfer)
  /\ UNCHANGED <<rxBuffer, refused, accepted, reported, joined>>

RoomForOneMore == Len(rxBuffer) <= BufSize   \* mutant: the byte behind the last one is taken too

\* A byte that does not fit is refused and stays in DATA.
Room == Len(rxBuffer) < BufSize

StoreByte ==
  /\ ~StopOrRestart /\ ~AMATCH /\ DRDY /\ ~DIR
  /\ Acknowledge
  /\ refused' = ~Room
  /\ IF Room THEN rxBuffer' = Append(rxBuffer, transfer) /\ accepted' = Append(accepted, transfer)
             ELSE UNCHANGED <<rxBuffer, accepted>>
  /\ UNCHANGED <<txBuffer, reported, stale, joined>>

OnService == Report \/ AddressMatch \/ SendByte \/ StoreByte

Next == MasterAddresses \/ NextByte \/ MasterStops \/ OnService

\* The handler runs while a flag is set.
Fairness == WF_vars(OnService)

Spec == Init /\ [][Next]_vars

FairSpec == Spec /\ Fairness

-----------------------------------------------------------------------------
TypeOK ==
  /\ {PREC, AMATCH, DRDY, SR, DIR, refused, stale, joined} \subseteq BOOLEAN
  /\ bus \in {"idle", "address", "write", "read"} /\ (bus = "address" <=> AMATCH)
  /\ len \in 0..MaxLen /\ transfer \in 0..MaxTransfers
  /\ Len(rxBuffer) <= BufSize /\ Len(txBuffer) <= BufSize

\* onReceive() finds exactly the bytes of one write that the slave has acknowledged, also
\* when the write ends in a repeated start and when the stop is served late
\* (Wire.cpp onService): the bytes of two writes are never reported as one.
ReportsOneWrite ==
  /\ reported.found = reported.due
  /\ \A i, j \in DOMAIN reported.found : reported.found[i] = reported.found[j]

\* The master never gets a byte of an earlier request, unless the stop before its address
\* was still unserved: then onRequest() is not called for it at all.
FreshAnswers == stale => joined

\* The slave reports what one write brought, and answers with what the request wrote.
SlaveSound == ReportsOneWrite /\ FreshAnswers

\* The clock is never held for good: the handler answers an address and a byte, also with
\* a full buffer.
ClockReleased == Held ~> ~Held
=============================================================================
