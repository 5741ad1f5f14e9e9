------------------------------- MODULE UartTx -------------------------------
(***************************************************************************)
(* The transmitter of a hardware serial port: write() and flush() of Uart  *)
(* (cores/arduino/Uart.cpp) against its interrupt handler and the USART.   *)
(* One context writes, the sketch; it may do so with the interrupts masked *)
(* (or, the same to write(), from a handler of a higher priority), when    *)
(* write() calls IrqHandler() itself.  The handler is never preempted by   *)
(* the sketch, the sketch is at any point, also by an interrupt for a      *)
(* received byte.  A byte is represented by its position among those       *)
(* passed to write().                                                      *)
(***************************************************************************)
EXTENDS Integers, Sequences

CONSTANTS
  BufSize,    \* elements of txBuffer (SERIAL_BUFFER_SIZE, 64)
  MaxBytes    \* bound: bytes written

TxAssumption == BufSize \in Nat \ {0} /\ MaxBytes \in Nat

VARIABLES
  pc, byte, masked,    \* the sketch: where it is, the byte it writes, PRIMASK
  txBuffer,
  dreInt,              \* the data register empty interrupt is enabled
  dataReg, shift, txc, \* the USART: DATA and shift register, and TXC
  line,                \* history: the bytes on the line
  flushed              \* history: bytes written when flush() last returned

usart == <<dataReg, shift, txc, line>>
vars  == <<pc, byte, masked, txBuffer, dreInt, usart, flushed>>

None == 0

TypeOK ==
  /\ pc \in {"app", "empty", "direct", "full", "store", "enable", "flush", "flushDre", "txc"}
  /\ byte \in 0..MaxBytes /\ masked \in BOOLEAN
  /\ txBuffer \in Seq(1..MaxBytes) /\ Len(txBuffer) <= BufSize
  /\ dreInt \in BOOLEAN /\ txc \in BOOLEAN
  /\ {dataReg, shift} \subseteq 0..MaxBytes
  /\ line \in Seq(1..MaxBytes) /\ flushed \in 0..MaxBytes

Init ==
  /\ pc = "app" /\ byte = 0 /\ masked = FALSE
  /\ txBuffer = <<>> /\ dreInt = FALSE
  /\ dataReg = None /\ shift = None /\ txc = FALSE
  /\ line = <<>> /\ flushed = 0

\* isDataRegisterEmptyUART()
Dre == dataReg = None

\* A write of DATA clears TXC.
SetData(c) == dataReg' = c /\ txc' = FALSE /\ UNCHANGED <<shift, line>>

Step(from, to) == pc = from /\ pc' = to

-----------------------------------------------------------------------------
(* IrqHandler(), its part for the transmitter. *)

IrqHandler ==
  IF ~Dre THEN UNCHANGED <<txBuffer, dreInt, usart>>
  ELSE IF txBuffer # <<>>
       THEN txBuffer' = Tail(txBuffer) /\ SetData(Head(txBuffer)) /\ UNCHANGED dreInt
       ELSE dreInt' = FALSE /\ UNCHANGED <<txBuffer, usart>>

\* DRE is one of the causes of the interrupt; a received byte is another.
Interrupt ==
  /\ ~masked
  /\ IrqHandler
  /\ UNCHANGED <<pc, byte, masked, flushed>>

DreInterrupt == Dre /\ dreInt /\ Interrupt

-----------------------------------------------------------------------------
(* The sketch. *)

Mask ==
  /\ pc = "app"
  /\ masked' = ~masked
  /\ UNCHANGED <<pc, byte, txBuffer, dreInt, usart, flushed>>

\* if (isDataRegisterEmptyUART() ...
Write ==
  /\ byte < MaxBytes
  /\ byte' = byte + 1
  /\ \/ Dre /\ Step("app", "empty")
     \/ ~Dre /\ Step("app", "full")
  /\ UNCHANGED <<masked, txBuffer, dreInt, usart, flushed>>

\* Faulty variant: bytes in the buffer are overtaken.
BufferNotChecked ==
  /\ Step("empty", "direct")
  /\ UNCHANGED <<byte, masked, txBuffer, dreInt, usart, flushed>>

\* ... && txBuffer.available() == 0)
BufferEmpty ==
  /\ \/ txBuffer = <<>> /\ Step("empty", "direct")
     \/ txBuffer # <<>> /\ Step("empty", "full")
  /\ UNCHANGED <<byte, masked, txBuffer, dreInt, usart, flushed>>

\* writeDataUART() waits until the data register is empty.
WriteDirect ==
  /\ Step("direct", "app")
  /\ Dre
  /\ SetData(byte)
  /\ UNCHANGED <<byte, masked, txBuffer, dreInt, flushed>>

\* while (txBuffer.isFull()): an interrupt makes room, or IrqHandler() called
\* from here does.
NotFull ==
  /\ Step("full", "store")
  /\ Len(txBuffer) < BufSize
  /\ UNCHANGED <<byte, masked, txBuffer, dreInt, usart, flushed>>

\* Faulty variant: write() always leaves it to the interrupt to make room.
CallIrqHandlerNever ==
  /\ Step("full", "full")
  /\ ~masked /\ Dre
  /\ UNCHANGED <<byte, masked, txBuffer, dreInt, usart, flushed>>

CallIrqHandler ==
  /\ Step("full", "full")
  /\ Len(txBuffer) = BufSize
  /\ masked /\ Dre
  /\ IrqHandler
  /\ UNCHANGED <<byte, masked, flushed>>

Store ==
  /\ Step("store", "enable")
  /\ txBuffer' = IF Len(txBuffer) = BufSize THEN txBuffer ELSE Append(txBuffer, byte)
  /\ UNCHANGED <<byte, masked, dreInt, usart, flushed>>

EnableDreInterrupt ==
  /\ Step("enable", "app")
  /\ dreInt' = TRUE
  /\ UNCHANGED <<byte, masked, txBuffer, usart, flushed>>

\* flush(), called with the interrupts on: with them masked it never returns
\* from a buffer that is not empty.
Flush ==
  /\ Step("app", "flush")
  /\ ~masked
  /\ UNCHANGED <<byte, masked, txBuffer, dreInt, usart, flushed>>

FlushBuffer ==
  /\ Step("flush", "flushDre")
  /\ txBuffer = <<>>
  /\ UNCHANGED <<byte, masked, txBuffer, dreInt, usart, flushed>>

\* flushUART()
FlushDre ==
  /\ \/ ~Dre /\ Step("flushDre", "txc") /\ UNCHANGED flushed
     \/ Dre /\ Step("flushDre", "app") /\ flushed' = byte
  /\ UNCHANGED <<byte, masked, txBuffer, dreInt, usart>>

FlushTxc ==
  /\ Step("txc", "app")
  /\ txc
  /\ flushed' = byte
  /\ UNCHANGED <<byte, masked, txBuffer, dreInt, usart>>

InCall == \/ BufferEmpty \/ WriteDirect \/ NotFull \/ CallIrqHandler \/ Store
          \/ EnableDreInterrupt \/ FlushBuffer \/ FlushDre \/ FlushTxc

-----------------------------------------------------------------------------
(* The USART. *)

StartShift ==
  /\ dataReg # None /\ shift = None
  /\ shift' = dataReg /\ dataReg' = None
  /\ UNCHANGED <<pc, byte, masked, txBuffer, dreInt, txc, line, flushed>>

EndShift ==
  /\ shift # None
  /\ line' = Append(line, shift)
  /\ shift' = None
  /\ txc' = (txc \/ dataReg = None)
  /\ UNCHANGED <<pc, byte, masked, txBuffer, dreInt, dataReg, flushed>>

Usart == StartShift \/ EndShift

Next == Mask \/ Write \/ Flush \/ InCall \/ Interrupt \/ Usart

Spec == Init /\ [][Next]_vars

\* The USART shifts; a pending interrupt is taken as soon as the interrupts
\* are on, and the sketch does not keep them masked for ever; a call goes on
\* between two interrupts.
FairSpec == /\ Spec
            /\ WF_vars(StartShift) /\ WF_vars(EndShift)
            /\ SF_vars(DreInterrupt) /\ SF_vars(Mask /\ masked)
            /\ SF_vars(InCall)

-----------------------------------------------------------------------------
(* Properties. *)

One(c) == IF c = None THEN <<>> ELSE <<c>>

\* The byte of a write() in progress that is in no register or buffer yet.
InWrite == IF pc \in {"empty", "direct", "full", "store"} THEN <<byte>> ELSE <<>>

\* The bytes go out in the order they are written, each of them once: line,
\* shift register, data register, buffer and the call hold all of them.
InOrder == line \o One(shift) \o One(dataReg) \o txBuffer \o InWrite = [i \in 1..byte |-> i]

\* Bytes are never left in the buffer with nobody to send them: the interrupt
\* is enabled, or the call that stored the byte is about to enable it.
SomebodySends == txBuffer # <<>> => dreInt \/ pc = "enable"

\* flush() has let every byte reach the USART's shift register when it returns.
FlushReachesUsart == Len(line) + (IF shift = None THEN 0 ELSE 1) >= flushed

\* The three together: what the transmitter promises to the sketch.
TransmitterSound == InOrder /\ SomebodySends /\ FlushReachesUsart

\* write() returns, also with the interrupts masked, and flush() does.
CallsReturn == pc # "app" ~> pc = "app"

\* The line catches up with the sketch, which stops at MaxBytes bytes.
AllSent == []<>(Len(line) = byte)
=============================================================================
