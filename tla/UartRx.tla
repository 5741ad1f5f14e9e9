------------------------------- MODULE UartRx -------------------------------
(***************************************************************************)
(* The receiver of a hardware serial port with an RTS pin: IrqHandler()    *)
(* and read() of Uart (cores/arduino/Uart.cpp), the two-character receive  *)
(* FIFO of the USART, and a sender that stops when RTS is de-asserted, but *)
(* only after Slack more characters.  The handler preempts the sketch      *)
(* anywhere but inside read_char(); higher interrupts delay the handler by *)
(* any time.  A character is its position in the sender's stream, with the *)
(* framing error the line may have caused.                                 *)
(***************************************************************************)
EXTENDS Integers, Sequences

CONSTANTS
  BufSize,     \* elements of rxBuffer (SERIAL_BUFFER_SIZE, 64)
  Threshold,   \* RTS_RX_THRESHOLD (10)
  Slack,       \* characters sent after RTS is de-asserted
  Stall,       \* runs of the handler between the check and the assertion of
               \* RTS in read(): as many as the FIFO holds characters, since a
               \* few instructions take far less than a character on the line
  MaxChars,    \* bound: characters sent
  MaxErrors    \* bound: characters with a framing error

RxAssumption ==
  /\ {BufSize, Threshold, Slack, Stall, MaxChars, MaxErrors} \subseteq Nat
  /\ Threshold < BufSize

FifoSize == 2

VARIABLES
  pc,            \* the sketch: "app", or after the first part of read()
  rxBuffer,
  rts,           \* the pin is low: the sender may send
  fifo,          \* the USART's receive FIFO
  sent, slack, errors,   \* the sender
  stall,         \* runs of the handler since the check
  got,           \* history: the last character read() returned
  overrun, dropped, discarded   \* history: characters lost in the FIFO, for
                 \* want of space in rxBuffer, and for a framing error

sender == <<sent, slack, errors>>
hist   == <<got, overrun, dropped, discarded>>
vars   == <<pc, rxBuffer, rts, fifo, sender, stall, hist>>

Char == [n : 1..MaxChars, bad : BOOLEAN]

TypeOK ==
  /\ pc \in {"app", "check", "assert"}
  /\ rxBuffer \in Seq(Char) /\ Len(rxBuffer) <= BufSize
  /\ rts \in BOOLEAN
  /\ fifo \in Seq(Char) /\ Len(fifo) <= FifoSize
  /\ sent \in 0..MaxChars /\ slack \in 0..Slack /\ errors \in 0..MaxErrors
  /\ stall \in 0..Stall /\ got \in 0..MaxChars
  /\ overrun \subseteq 1..MaxChars /\ dropped \subseteq 1..MaxChars
  /\ discarded \subseteq Char

\* begin() asserts RTS.
Init ==
  /\ pc = "app" /\ rxBuffer = <<>> /\ rts = TRUE
  /\ fifo = <<>>
  /\ sent = 0 /\ slack = Slack /\ errors = 0
  /\ stall = 0
  /\ got = 0 /\ overrun = {} /\ dropped = {} /\ discarded = {}

\* Faulty variant: one element too many.
AvailableForStoreOneMore(s) == BufSize - Len(s) + 1

AvailableForStore(s) == BufSize - Len(s)

-----------------------------------------------------------------------------
(* The line. *)

Arrive(bad) ==
  /\ sent < MaxChars
  /\ bad => errors < MaxErrors
  /\ rts \/ slack > 0
  /\ sent' = sent + 1
  /\ slack' = IF rts THEN Slack ELSE slack - 1
  /\ errors' = IF bad THEN errors + 1 ELSE errors
  /\ IF Len(fifo) < FifoSize
     THEN fifo' = Append(fifo, [n |-> sent + 1, bad |-> bad]) /\ UNCHANGED overrun
     ELSE overrun' = overrun \cup {sent + 1} /\ UNCHANGED fifo
  /\ UNCHANGED <<pc, rxBuffer, rts, stall, got, dropped, discarded>>

ArriveAny == \E bad \in BOOLEAN : Arrive(bad)

-----------------------------------------------------------------------------
(* IrqHandler(), its part for the receiver. *)

\* if (isFrameErrorUART()): the next byte is read and discarded.
FrameError == fifo # <<>> /\ Head(fifo).bad

\* What is left in the FIFO for the second part of the handler.
AfterDiscard == IF FrameError THEN Tail(fifo) ELSE fifo

\* Faulty variant: RTS is left alone.
StoreNextKeepsRts ==
  LET c == Head(AfterDiscard) IN
    /\ fifo' = Tail(AfterDiscard)
    /\ IF AvailableForStore(rxBuffer) > 0
       THEN rxBuffer' = Append(rxBuffer, c) /\ UNCHANGED dropped
       ELSE dropped' = dropped \cup {c.n} /\ UNCHANGED rxBuffer
    /\ UNCHANGED rts

\* A byte is stored whatever its own state, and RTS follows the space left.
StoreNext ==
  LET c == Head(AfterDiscard) IN
    /\ fifo' = Tail(AfterDiscard)
    /\ IF AvailableForStore(rxBuffer) > 0
       THEN rxBuffer' = Append(rxBuffer, c) /\ UNCHANGED dropped
       ELSE dropped' = dropped \cup {c.n} /\ UNCHANGED rxBuffer
    /\ rts' = (rts /\ AvailableForStore(rxBuffer') >= Threshold)

IrqHandler ==
  /\ fifo # <<>>
  /\ pc = "assert" => stall < Stall
  /\ stall' = IF pc = "assert" THEN stall + 1 ELSE 0
  /\ discarded' = IF FrameError THEN discarded \cup {Head(fifo)} ELSE discarded
  /\ IF AfterDiscard # <<>> THEN StoreNext
     ELSE fifo' = <<>> /\ UNCHANGED <<rxBuffer, rts, dropped>>
  /\ UNCHANGED <<pc, sender, got, overrun>>

-----------------------------------------------------------------------------
(* The sketch: read(). *)

ReadChar ==
  /\ pc = "app"
  /\ pc' = "check"
  /\ IF rxBuffer = <<>> THEN UNCHANGED <<got, rxBuffer>>
     ELSE got' = Head(rxBuffer).n /\ rxBuffer' = Tail(rxBuffer)
  /\ UNCHANGED <<rts, fifo, sender, stall, overrun, dropped, discarded>>

CheckSpace ==
  /\ pc = "check"
  /\ pc' = IF AvailableForStore(rxBuffer) > Threshold THEN "assert" ELSE "app"
  /\ stall' = 0
  /\ UNCHANGED <<rxBuffer, rts, fifo, sender, hist>>

AssertRts ==
  /\ pc = "assert"
  /\ pc' = "app"
  /\ rts' = TRUE
  /\ slack' = Slack
  /\ stall' = 0
  /\ UNCHANGED <<rxBuffer, fifo, sent, errors, hist>>

Read == ReadChar \/ CheckSpace \/ AssertRts

Next == ArriveAny \/ IrqHandler \/ Read

Spec == Init /\ [][Next]_vars

\* The sketch keeps reading, the handler is not delayed for ever.
FairSpec == Spec /\ WF_vars(IrqHandler) /\ SF_vars(Read)

-----------------------------------------------------------------------------
(* Properties. *)

Numbers(s) == {s[i].n : i \in 1..Len(s)}

\* The sender stops in time: rxBuffer never overflows, although read() may
\* assert RTS on a check that is stale by then.
NoOverflow == dropped = {}

\* A character with a framing error reaches the sketch only when it is right
\* behind another one in the FIFO: the handler checks the first one only.
BadOnlyBehindBad ==
  \A i \in 1..Len(rxBuffer) : rxBuffer[i].bad =>
    \E c \in discarded : c.n < rxBuffer[i].n /\ (c.n + 1)..(rxBuffer[i].n - 1) \subseteq overrun

\* Characters arrive in order, and every one that is not lost in the FIFO is
\* read, waiting, dropped or discarded for its own framing error.
NoneVanishes ==
  /\ \A c \in discarded : c.bad
  /\ \A n \in (got + 1)..sent :
        n \in Numbers(rxBuffer) \cup Numbers(fifo) \cup overrun \cup dropped
              \cup {c.n : c \in discarded}
  /\ LET all == rxBuffer \o fifo IN
       \A i \in 1..Len(all) : all[i].n > (IF i = 1 THEN got ELSE all[i-1].n)

\* rxBuffer never overflows, characters are read in order and without an unexplained gap, and
\* a framing error passes only right behind another one.
RxSound == NoOverflow /\ NoneVanishes /\ BadOnlyBehindBad

\* A sender that was stopped may go on in the end.
RtsComesBack == ~rts ~> rts
=============================================================================
