---------------------------- MODULE Uart_proofs ------------------------------
(***************************************************************************)
(* Proofs about a serial port (Core) for every size of its buffers and     *)
(* number of characters: the receiver, with any sender that stops Slack    *)
(* characters after RTS is de-asserted, and the transmitter, with          *)
(* interrupts at any point and masked whenever the sketch likes.           *)
(***************************************************************************)
EXTENDS Core, SequenceTheorems, TLAPS

\* What the threshold has to cover: the characters that are in the FIFO or on
\* their way when the handler de-asserts RTS, and those that come in while
\* read() goes from its check to the assertion.
Enough == FifoSize + Slack <= Threshold /\ Stall + Slack + 1 <= Threshold

-----------------------------------------------------------------------------
(* The invariant of the receiver. *)

\* The numbers grow from the last character read to the last one sent.
Grows(s) == \A a, b \in 1..Len(s) : a < b => s[a].n < s[b].n

Within(s) == \A a \in 1..Len(s) : got < s[a].n /\ s[a].n <= sent

InSequence ==
  /\ got <= sent
  /\ Grows(rxBuffer) /\ Within(rxBuffer)
  /\ Grows(fifo) /\ Within(fifo)
  /\ \A a \in 1..Len(rxBuffer), b \in 1..Len(fifo) : rxBuffer[a].n < fifo[b].n

Lost(n) == n \in overrun \/ n \in dropped \/ \E c \in discarded : c.n = n

Here(s, n) == \E a \in 1..Len(s) : s[a].n = n

\* Where each character is that was not read yet.
AllThere ==
  /\ \A n \in (got + 1)..sent : Here(rxBuffer, n) \/ Here(fifo, n) \/ Lost(n)
  /\ \A c \in discarded : c.bad

\* Between two characters of the FIFO, and behind the last, only those are
\* missing that it had no room for.
NoGap ==
  /\ \A a \in 1..Len(fifo) : a + 1 \in 1..Len(fifo) =>
       (fifo[a].n + 1)..(fifo[a + 1].n - 1) \subseteq overrun
  /\ Len(fifo) > 0 => (fifo[Len(fifo)].n + 1)..sent \subseteq overrun

RxInv == TypeOK /\ InSequence /\ AllThere /\ NoGap /\ BadOnlyBehindBad

\* There is room for all that can still come before the sender stops.
StopsInTime ==
  /\ dropped = {}
  /\ rts => slack = Slack /\ Len(rxBuffer) + FifoSize + Slack <= BufSize
  /\ Len(rxBuffer) + Len(fifo) + slack <= BufSize
  /\ pc = "assert" => Len(rxBuffer) + Threshold + 1 <= BufSize + stall

-----------------------------------------------------------------------------
(* Types.  The provers reason apart about the pin and the rest. *)

Fields ==
  /\ pc \in {"app", "check", "assert"}
  /\ rxBuffer \in Seq(Char) /\ Len(rxBuffer) <= BufSize
  /\ fifo \in Seq(Char) /\ Len(fifo) <= 2
  /\ sent \in 0..MaxChars /\ slack \in 0..Slack /\ errors \in 0..MaxErrors
  /\ stall \in 0..Stall /\ got \in 0..MaxChars
  /\ overrun \subseteq 1..MaxChars /\ dropped \subseteq 1..MaxChars
  /\ discarded \subseteq Char

\* Type correctness, split for the provers.
LEMMA TypeParts == TypeOK <=> rts \in BOOLEAN /\ Fields
BY DEF TypeOK, Fields, FifoSize

\* The constants are numbers.
LEMMA RxConstants ==
  ASSUME RxAssumption
  PROVE  /\ BufSize \in Nat /\ Threshold \in Nat /\ Slack \in Nat /\ Stall \in Nat
         /\ MaxChars \in Nat /\ MaxErrors \in Nat /\ Threshold < BufSize
BY DEF RxAssumption

\* A character has a number and may have a framing error.
LEMMA Characters ==
  /\ \A c \in Char : c.n \in 1..MaxChars /\ c.bad \in BOOLEAN
  /\ \A m \in 1..MaxChars, e \in BOOLEAN :
       [n |-> m, bad |-> e] \in Char /\ [n |-> m, bad |-> e].n = m /\ [n |-> m, bad |-> e].bad = e
<1>1. \A c \in Char : c.n \in 1..MaxChars /\ c.bad \in BOOLEAN
  BY Zenon DEF Char
<1>2. \A m \in 1..MaxChars, e \in BOOLEAN :
        [n |-> m, bad |-> e] \in Char /\ [n |-> m, bad |-> e].n = m /\ [n |-> m, bad |-> e].bad = e
  BY Zenon DEF Char
<1> QED
  BY <1>1, <1>2, Zenon

\* What is in a buffer is a character.
LEMMA InBuffer ==
  ASSUME NEW s \in Seq(Char), NEW a \in 1..Len(s), MaxChars \in Nat
  PROVE  s[a] \in Char /\ s[a].n \in Int /\ s[a].n >= 1 /\ s[a].n <= MaxChars
<1>1. s[a] \in Char
  BY ElementOfSeq
<1>2. s[a].n \in 1..MaxChars
  BY <1>1, Characters
<1> QED
  BY <1>1, <1>2

\* One more character at the end of a buffer.
LEMMA OneMore ==
  ASSUME NEW s \in Seq(Char), NEW c \in Char
  PROVE  /\ Append(s, c) \in Seq(Char) /\ Len(Append(s, c)) = Len(s) + 1 /\ Len(s) \in Nat
         /\ \A a \in 1..Len(s) : Append(s, c)[a] = s[a]
         /\ Append(s, c)[Len(s) + 1] = c
BY AppendProperties, LenProperties

\* A buffer without its first character.
LEMMA OneLess ==
  ASSUME NEW s \in Seq(Char), s # <<>>
  PROVE  /\ Tail(s) \in Seq(Char) /\ Len(Tail(s)) = Len(s) - 1 /\ Len(s) \in Nat /\ Len(s) >= 1
         /\ Head(s) = s[1] /\ s[1] \in Char
         /\ \A a \in 1..Len(Tail(s)) : Tail(s)[a] = s[a + 1]
<1>1. Len(s) \in Nat \ {0}
  BY EmptySeq
<1>2. /\ Tail(s) \in Seq(Char) /\ Len(Tail(s)) = Len(s) - 1
      /\ \A a \in 1..Len(Tail(s)) : Tail(s)[a] = s[a + 1]
  BY HeadTailProperties
<1>3. 1 \in 1..Len(s)
  BY <1>1
<1>4. s[1] \in Char
  BY <1>3, ElementOfSeq
<1>5. Head(s) = s[1]
  BY <1>1
<1> QED
  BY <1>1, <1>2, <1>4, <1>5

-----------------------------------------------------------------------------
(* What the handler does with the FIFO. *)

\* The character c goes into the buffer, or is dropped.
Stores(c) ==
  /\ \/ Len(rxBuffer) < BufSize /\ rxBuffer' = Append(rxBuffer, c) /\ dropped' = dropped
     \/ Len(rxBuffer) >= BufSize /\ rxBuffer' = rxBuffer /\ dropped' = dropped \cup {c.n}
  /\ rts' \in BOOLEAN /\ (rts' => rts /\ BufSize - Len(rxBuffer') >= Threshold)

\* The first k characters are taken, the last of them stored.
Takes(k) ==
  /\ k \in 1..Len(fifo)
  /\ fifo' \in Seq(Char) /\ Len(fifo') = Len(fifo) - k
  /\ \A a \in 1..Len(fifo') : fifo'[a] = fifo[a + k]
  /\ Stores(fifo[k])

DiscardsOnly ==
  /\ Len(fifo) = 1 /\ fifo' = <<>> /\ UNCHANGED <<rxBuffer, rts, dropped>>

\* The handler stores the first character, or the one behind it when the first
\* has a framing error, or discards the only one.
LEMMA HandlerCases ==
  ASSUME RxAssumption, rts \in BOOLEAN, Fields, IrqHandler
  PROVE  /\ UNCHANGED <<pc, sent, slack, errors, got, overrun>>
         /\ Len(fifo) > 0
         /\ \/ Takes(1) /\ ~fifo[1].bad /\ discarded' = discarded
            \/ Takes(2) /\ fifo[1].bad /\ discarded' = discarded \cup {fifo[1]}
            \/ DiscardsOnly /\ fifo[1].bad /\ discarded' = discarded \cup {fifo[1]}
<1>1. UNCHANGED <<pc, sent, slack, errors, got, overrun>> /\ fifo # <<>>
  BY DEF IrqHandler, sender
<1>2. fifo \in Seq(Char) /\ rxBuffer \in Seq(Char) /\ Len(fifo) <= 2
  BY DEF Fields
<1>3. /\ Tail(fifo) \in Seq(Char) /\ Len(Tail(fifo)) = Len(fifo) - 1 /\ Len(fifo) \in Nat
      /\ Len(fifo) >= 1 /\ Head(fifo) = fifo[1] /\ fifo[1] \in Char
      /\ \A a \in 1..Len(Tail(fifo)) : Tail(fifo)[a] = fifo[a + 1]
  BY <1>1, <1>2, OneLess
<1>4. BufSize \in Nat /\ Threshold \in Nat /\ Len(rxBuffer) \in Nat
  BY <1>2, RxConstants, LenProperties
<1>5. ASSUME StoreNext PROVE Stores(Head(AfterDiscard)) /\ fifo' = Tail(AfterDiscard)
  <2>1. rts' \in BOOLEAN /\ (rts' => rts /\ AvailableForStore(rxBuffer') >= Threshold)
    BY <1>5, Zenon DEF StoreNext
  <2>2. \/ /\ Len(rxBuffer) < BufSize /\ rxBuffer' = Append(rxBuffer, Head(AfterDiscard))
           /\ dropped' = dropped
        \/ /\ Len(rxBuffer) >= BufSize /\ rxBuffer' = rxBuffer
           /\ dropped' = dropped \cup {Head(AfterDiscard).n}
    BY <1>4, <1>5 DEF StoreNext, AvailableForStore
  <2>3. fifo' = Tail(AfterDiscard)
    BY <1>5 DEF StoreNext
  <2> QED
    BY <2>1, <2>2, <2>3 DEF Stores, AvailableForStore
<1>6. CASE ~FrameError
  <2>1. AfterDiscard = fifo /\ ~fifo[1].bad /\ discarded' = discarded /\ StoreNext
    BY <1>1, <1>3, <1>6 DEF AfterDiscard, FrameError, IrqHandler
  <2>2. Stores(Head(AfterDiscard)) /\ fifo' = Tail(fifo)
    BY <1>5, <2>1
  <2>3. Stores(fifo[1])
    BY <1>3, <2>1, <2>2
  <2>4. Takes(1)
    BY <1>3, <2>2, <2>3 DEF Takes
  <2> QED
    BY <1>1, <1>3, <2>1, <2>4
<1>7. CASE FrameError
  <2>1. /\ AfterDiscard = Tail(fifo) /\ fifo[1].bad /\ discarded' = discarded \cup {fifo[1]}
    BY <1>1, <1>3, <1>7 DEF AfterDiscard, FrameError, IrqHandler
  <2>2. CASE Tail(fifo) = <<>>
    <3>1. fifo' = <<>> /\ UNCHANGED <<rxBuffer, rts, dropped>>
      BY <2>1, <2>2 DEF IrqHandler
    <3>2. Len(fifo) = 1
      BY <1>3, <2>2
    <3> QED
      BY <1>1, <1>3, <2>1, <3>1, <3>2 DEF DiscardsOnly
  <2>3. CASE Tail(fifo) # <<>>
    <3>1. StoreNext
      BY <2>1, <2>3 DEF IrqHandler
    <3>2. /\ Tail(Tail(fifo)) \in Seq(Char) /\ Len(Tail(Tail(fifo))) = Len(Tail(fifo)) - 1
          /\ Len(Tail(fifo)) >= 1 /\ Head(Tail(fifo)) = Tail(fifo)[1]
          /\ \A a \in 1..Len(Tail(Tail(fifo))) : Tail(Tail(fifo))[a] = Tail(fifo)[a + 1]
      BY <1>3, <2>3, OneLess
    <3>3. Head(Tail(fifo)) = fifo[2] /\ 2 \in 1..Len(fifo)
      BY <1>3, <3>2
    <3>4. /\ fifo' = Tail(Tail(fifo)) /\ Len(Tail(Tail(fifo))) = Len(fifo) - 2
          /\ Stores(fifo[2])
      <4>1. fifo' = Tail(AfterDiscard) /\ Stores(Head(AfterDiscard))
        BY <1>5, <3>1
      <4>2. fifo' = Tail(Tail(fifo)) /\ Stores(fifo[2])
        BY <2>1, <3>3, <4>1
      <4>3. Len(Tail(Tail(fifo))) = Len(fifo) - 2
        BY <1>3, <3>2
      <4> QED
        BY <4>2, <4>3
    <3>5. ASSUME NEW a \in 1..Len(fifo') PROVE fifo'[a] = fifo[a + 2]
      <4>1. a + 1 \in 1..Len(Tail(fifo)) /\ fifo'[a] = Tail(fifo)[a + 1]
        BY <1>3, <3>2, <3>4
      <4>2. Tail(fifo)[a + 1] = fifo[(a + 1) + 1]
        BY <1>3, <4>1
      <4> QED
        BY <1>3, <3>4, <4>1, <4>2
    <3>6. Takes(2)
      BY <3>2, <3>3, <3>4, <3>5 DEF Takes
    <3> QED
      BY <1>1, <1>3, <2>1, <3>6
  <2> QED
    BY <2>2, <2>3
<1> QED
  BY <1>6, <1>7

-----------------------------------------------------------------------------
(* The steps. *)

Sound == InSequence /\ AllThere /\ NoGap /\ BadOnlyBehindBad

\* What each step keeps.
Kept ==
  /\ Fields' /\ rts' \in BOOLEAN /\ Sound'
  /\ Enough /\ StopsInTime => StopsInTime'

\* What lies behind the characters of a buffer excuses one with a framing error.
Excused(c) == \E x \in discarded : x.n < c.n /\ (x.n + 1)..(c.n - 1) \subseteq overrun

\* The lengths and the constants are numbers.
LEMMA Numeric ==
  ASSUME RxAssumption, Fields
  PROVE  /\ BufSize \in Nat /\ Threshold \in Nat /\ Slack \in Nat /\ Stall \in Nat
         /\ MaxChars \in Nat /\ MaxErrors \in Nat /\ Threshold < BufSize
         /\ Len(rxBuffer) \in Nat /\ Len(fifo) \in Nat
         /\ sent \in Nat /\ got \in Nat /\ slack \in Nat /\ stall \in Nat /\ errors \in Nat
BY RxConstants, LenProperties DEF Fields

\* The characters of both buffers.
LEMMA Contents ==
  ASSUME RxAssumption, Fields
  PROVE  /\ \A a \in 1..Len(rxBuffer) : rxBuffer[a] \in Char /\ rxBuffer[a].n \in Int
         /\ \A a \in 1..Len(fifo) :
              fifo[a] \in Char /\ fifo[a].n \in Int /\ fifo[a].n >= 1 /\ fifo[a].n <= MaxChars
<1>1. MaxChars \in Nat /\ rxBuffer \in Seq(Char) /\ fifo \in Seq(Char)
  BY RxConstants DEF Fields
<1>2. ASSUME NEW a \in 1..Len(rxBuffer) PROVE rxBuffer[a] \in Char /\ rxBuffer[a].n \in Int
  BY <1>1, <1>2, InBuffer
<1>3. ASSUME NEW a \in 1..Len(fifo)
      PROVE  fifo[a] \in Char /\ fifo[a].n \in Int /\ fifo[a].n >= 1 /\ fifo[a].n <= MaxChars
  BY <1>1, <1>3, InBuffer
<1> QED
  BY <1>2, <1>3

\* Nothing has been sent after begin().
LEMMA RxStart ==
  ASSUME RxAssumption, Init
  PROVE  Fields /\ rts \in BOOLEAN /\ Sound /\ (Enough => StopsInTime)
<1>1. /\ rxBuffer = <<>> /\ fifo = <<>> /\ pc = "app" /\ sent = 0 /\ got = 0 /\ errors = 0
      /\ stall = 0 /\ slack = Slack /\ dropped = {} /\ overrun = {} /\ discarded = {}
  BY DEF Init
<1>2. <<>> \in Seq(Char) /\ Len(<<>>) = 0
  BY EmptySeq
<1>3. rts \in BOOLEAN
  BY Zenon DEF Init
<1>4. Fields
  BY <1>1, <1>2, RxConstants DEF Fields
<1>5. InSequence /\ AllThere
  BY <1>1, <1>2 DEF InSequence, Grows, Within, AllThere
<1>6. NoGap /\ BadOnlyBehindBad
  BY <1>1, <1>2 DEF NoGap, BadOnlyBehindBad
<1>7. Enough => StopsInTime
  BY <1>1, <1>2, RxConstants DEF StopsInTime, Enough, FifoSize
<1> QED
  BY <1>3, <1>4, <1>5, <1>6, <1>7 DEF Sound

\* What an arrival does to the sender and leaves alone.
LEMMA ArriveFacts ==
  ASSUME RxAssumption, Fields, rts \in BOOLEAN, NEW bad \in BOOLEAN, Arrive(bad)
  PROVE  /\ sent' = sent + 1 /\ sent + 1 \in 1..MaxChars
         /\ (rts /\ slack' = Slack) \/ (~rts /\ slack > 0 /\ slack' = slack - 1)
         /\ slack' \in 0..Slack /\ errors' \in 0..MaxErrors
         /\ UNCHANGED <<pc, rxBuffer, rts, stall, got, dropped, discarded>>
<1>1. /\ sent < MaxChars /\ (rts \/ slack > 0) /\ sent' = sent + 1
      /\ UNCHANGED <<pc, rxBuffer, rts, stall, got, dropped, discarded>>
  BY DEF Arrive
<1>2. (rts /\ slack' = Slack) \/ (~rts /\ slack > 0 /\ slack' = slack - 1)
  BY <1>1 DEF Arrive
<1>3. errors' = errors \/ (errors < MaxErrors /\ errors' = errors + 1)
  BY DEF Arrive
<1>4. sent + 1 \in 1..MaxChars
  BY <1>1, Numeric
<1>5. slack' \in 0..Slack
  BY <1>2, RxConstants DEF Fields
<1>6. errors' \in 0..MaxErrors
  BY <1>3, RxConstants DEF Fields
<1> QED
  BY <1>1, <1>2, <1>4, <1>5, <1>6

\* A character comes in while the FIFO has room for it.
LEMMA ArriveStored ==
  ASSUME RxAssumption, Fields, rts \in BOOLEAN, Sound, NEW bad \in BOOLEAN, Arrive(bad),
         Len(fifo) < FifoSize
  PROVE  Kept
<1> DEFINE c == [n |-> sent + 1, bad |-> bad]
<1>0. /\ MaxChars \in Nat /\ Len(rxBuffer) \in Nat /\ Len(fifo) \in Nat /\ sent \in Nat
      /\ got \in Nat
  BY Numeric
<1>1. Len(fifo) < 2 /\ fifo' = Append(fifo, c) /\ overrun' = overrun
  BY DEF Arrive, FifoSize
<1>2. /\ sent' = sent + 1 /\ sent + 1 \in 1..MaxChars
      /\ (rts /\ slack' = Slack) \/ (~rts /\ slack > 0 /\ slack' = slack - 1)
      /\ slack' \in 0..Slack /\ errors' \in 0..MaxErrors
      /\ UNCHANGED <<pc, rxBuffer, rts, stall, got, dropped, discarded>>
  BY ArriveFacts
<1>3. c \in Char /\ c.n = sent + 1
  BY <1>2, Characters, Zenon
<1> HIDE DEF c
<1>4. /\ fifo' \in Seq(Char) /\ Len(fifo') = Len(fifo) + 1
      /\ \A a \in 1..Len(fifo) : fifo'[a] = fifo[a]
      /\ fifo'[Len(fifo) + 1] = c
  BY <1>1, <1>3, OneMore DEF Fields
<1>5. \A a \in 1..Len(fifo') : a \in 1..Len(fifo) \/ a = Len(fifo) + 1
  BY <1>0, <1>4
<1>6. Fields' /\ rts' \in BOOLEAN
  <2>1. sent' \in 0..MaxChars /\ Len(fifo') <= 2
    BY <1>0, <1>0, <1>1, <1>2, <1>4
  <2> QED
    BY <1>0, <1>1, <1>2, <1>4, <2>1 DEF Fields
<1>7. InSequence'
  <2>1. Grows(fifo')
    <3> SUFFICES ASSUME NEW a \in 1..Len(fifo'), NEW b \in 1..Len(fifo'), a < b
                 PROVE  fifo'[a].n < fifo'[b].n
      BY DEF Grows
    <3>1. a \in 1..Len(fifo)
      BY <1>4
    <3>2. CASE b \in 1..Len(fifo)
      BY <1>4, <3>1, <3>2 DEF Sound, InSequence, Grows
    <3>3. CASE b = Len(fifo) + 1
      BY <1>3, <1>4, <3>1, <3>3, <1>0, Contents DEF Sound, InSequence, Within
    <3> QED
      BY <1>5, <3>2, <3>3
  <2>2. Within(fifo)'
    BY <1>0, <1>1, <1>2, <1>3, <1>4, <1>5, Contents DEF Sound, InSequence, Within
  <2>3. Grows(rxBuffer)' /\ Within(rxBuffer)'
    BY <1>0, <1>1, <1>2, <1>0, Contents DEF Sound, InSequence, Grows, Within
  <2>4. \A a \in 1..Len(rxBuffer), b \in 1..Len(fifo') : rxBuffer[a].n < fifo'[b].n
    <3> SUFFICES ASSUME NEW a \in 1..Len(rxBuffer), NEW b \in 1..Len(fifo')
                 PROVE  rxBuffer[a].n < fifo'[b].n
      OBVIOUS
    <3>1. CASE b \in 1..Len(fifo)
      BY <1>4, <3>1 DEF Sound, InSequence
    <3>2. CASE b = Len(fifo) + 1
      <4>1. rxBuffer[a].n \in Int /\ rxBuffer[a].n <= sent
        BY Contents DEF Sound, InSequence, Within
      <4>2. fifo'[b].n = sent + 1 /\ sent \in Nat
        BY <1>0, <1>3, <1>4, <3>2
      <4>. QED
        BY <4>1, <4>2
    <3> QED
      BY <1>5, <3>1, <3>2
  <2> QED
    BY <1>0, <1>1, <1>2, <2>1, <2>2, <2>3, <2>4, <1>0 DEF Sound, InSequence, Grows
<1>8. AllThere'
  <2> SUFFICES ASSUME NEW m \in (got + 1)..(sent + 1)
               PROVE  Here(rxBuffer, m) \/ Here(fifo', m) \/ Lost(m)
    BY <1>1, <1>2 DEF Sound, AllThere, Here, Lost
  <2>1. CASE m = sent + 1
    <3>1. Len(fifo) + 1 \in 1..Len(fifo') /\ fifo'[Len(fifo) + 1].n = m
      BY <1>3, <1>4, <2>1, <1>0
    <3> QED
      BY <3>1 DEF Here
  <2>2. CASE m \in (got + 1)..sent
    <3>1. Here(fifo, m) => Here(fifo', m)
      BY <1>4, <1>0 DEF Here
    <3> QED
      BY <2>2, <3>1 DEF Sound, AllThere
  <2> QED
    BY <2>1, <2>2, <1>0
<1>9. NoGap'
  <2>1. ASSUME NEW a \in 1..Len(fifo'), a + 1 \in 1..Len(fifo')
        PROVE  (fifo'[a].n + 1)..(fifo'[a + 1].n - 1) \subseteq overrun
    <3>1. a \in 1..Len(fifo) /\ fifo'[a] = fifo[a]
      BY <1>4, <2>1, <1>0
    <3>2. CASE a + 1 \in 1..Len(fifo)
      BY <1>4, <3>1, <3>2 DEF Sound, NoGap
    <3>3. CASE a = Len(fifo)
      <4>1. fifo'[a + 1].n - 1 = sent /\ Len(fifo) > 0
        BY <1>3, <1>4, <3>1, <3>3, <1>0
      <4> QED
        BY <3>1, <3>3, <4>1 DEF Sound, NoGap
    <3> QED
      BY <1>4, <2>1, <3>1, <3>2, <3>3, <1>0
  <2>2. (fifo'[Len(fifo')].n + 1)..sent' = {}
    BY <1>0, <1>1, <1>2, <1>3, <1>4
  <2> QED
    BY <1>0, <1>1, <1>2, <2>1, <2>2 DEF NoGap
<1>10. BadOnlyBehindBad'
  BY <1>1, <1>2 DEF Sound, BadOnlyBehindBad
<1>11. ASSUME Enough, StopsInTime PROVE StopsInTime'
  <2>1. /\ BufSize \in Nat /\ Slack \in Nat /\ slack \in Nat /\ Threshold \in Nat
        /\ stall \in Nat
    BY Numeric
  <2> QED
    BY <1>0, <1>1, <1>2, <1>4, <1>11, <2>1 DEF StopsInTime, FifoSize
<1> QED
  BY <1>6, <1>7, <1>8, <1>9, <1>10, <1>11 DEF Kept, Sound

\* A character comes in that the FIFO has no room for.
LEMMA ArriveLost ==
  ASSUME RxAssumption, Fields, rts \in BOOLEAN, Sound, NEW bad \in BOOLEAN, Arrive(bad),
         ~(Len(fifo) < FifoSize)
  PROVE  Kept
<1>0. /\ MaxChars \in Nat /\ Len(rxBuffer) \in Nat /\ Len(fifo) \in Nat /\ sent \in Nat
      /\ got \in Nat
  BY Numeric
<1>1. Len(fifo) >= 2 /\ fifo' = fifo /\ overrun' = overrun \cup {sent + 1}
  BY <1>0 DEF Arrive, FifoSize
<1>2. /\ sent' = sent + 1 /\ sent + 1 \in 1..MaxChars
      /\ (rts /\ slack' = Slack) \/ (~rts /\ slack > 0 /\ slack' = slack - 1)
      /\ slack' \in 0..Slack /\ errors' \in 0..MaxErrors
      /\ UNCHANGED <<pc, rxBuffer, rts, stall, got, dropped, discarded>>
  BY ArriveFacts
<1>3. Fields' /\ rts' \in BOOLEAN
  <2>1. sent' \in 0..MaxChars
    BY <1>0, <1>2
  <2> QED
    BY <1>1, <1>2, <2>1 DEF Fields
<1>4. InSequence'
  BY <1>0, <1>1, <1>2, Contents DEF Sound, InSequence, Grows, Within
<1>5. AllThere'
  <2> SUFFICES ASSUME NEW m \in (got + 1)..(sent + 1)
               PROVE  Here(rxBuffer, m) \/ Here(fifo, m) \/ Lost(m)'
    BY <1>1, <1>2 DEF Sound, AllThere, Here
  <2>1. Lost(m) \/ m = sent + 1 => Lost(m)'
    BY <1>1, <1>2 DEF Lost
  <2> QED
    BY <2>1, <1>0 DEF Sound, AllThere
<1>6. NoGap'
  <2>1. ASSUME Len(fifo) > 0, NEW m \in (fifo[Len(fifo)].n + 1)..(sent + 1) PROVE m \in overrun'
    <3>1. Len(fifo) \in 1..Len(fifo)
      BY <2>1, <1>0
    <3>2. fifo[Len(fifo)].n \in Int
      BY <3>1, Contents
    <3>3. m = sent + 1 \/ m \in (fifo[Len(fifo)].n + 1)..sent
      BY <2>1, <3>2, <1>0
    <3> QED
      BY <1>1, <2>1, <3>3 DEF Sound, NoGap
  <2> QED
    BY <1>1, <1>2, <2>1 DEF Sound, NoGap
<1>7. BadOnlyBehindBad'
  BY <1>1, <1>2 DEF Sound, BadOnlyBehindBad
<1>8. ASSUME Enough, StopsInTime PROVE StopsInTime'
  <2>1. /\ BufSize \in Nat /\ Slack \in Nat /\ slack \in Nat /\ Threshold \in Nat
        /\ stall \in Nat
    BY Numeric
  <2> QED
    BY <1>0, <1>1, <1>2, <1>8, <2>1 DEF StopsInTime, FifoSize
<1> QED
  BY <1>3, <1>4, <1>5, <1>6, <1>7, <1>8 DEF Kept, Sound

\* What becomes of the counter of these runs.
Counts == stall' \in 0..Stall /\ (pc = "assert" => stall' = stall + 1)

\* The handler counts its runs behind the check, and only those.
LEMMA HandlerCounts ==
  ASSUME RxAssumption, Fields, IrqHandler
  PROVE  Counts
<1>1. \/ pc = "assert" /\ stall < Stall /\ stall' = stall + 1
      \/ pc # "assert" /\ stall' = 0
  BY DEF IrqHandler
<1> QED
  BY <1>1, RxConstants DEF Counts, Fields

\* Which character is taken, and what becomes of the one before it.
Chosen(k) ==
  \/ k = 1 /\ ~fifo[1].bad /\ discarded' = discarded
  \/ k = 2 /\ fifo[1].bad /\ discarded' = discarded \cup {fifo[1]}

\* The handler stores or drops a character.
LEMMA TakesStep ==
  ASSUME RxAssumption, Fields, rts \in BOOLEAN, Sound, NEW k \in {1, 2}, Takes(k), Chosen(k),
         UNCHANGED <<pc, sent, slack, errors, got, overrun>>, Counts
  PROVE  Kept
<1>0. /\ MaxChars \in Nat /\ Len(rxBuffer) \in Nat /\ Len(fifo) \in Nat /\ sent \in Nat
      /\ got \in Nat
  BY Numeric
<1>1. k \in 1..Len(fifo) /\ fifo[k] \in Char /\ fifo[k].n \in 1..MaxChars
  BY Contents, Characters DEF Takes
<1>2. /\ fifo' \in Seq(Char) /\ Len(fifo') = Len(fifo) - k
      /\ \A a \in 1..Len(fifo') : fifo'[a] = fifo[a + k] /\ a + k \in 1..Len(fifo)
  BY <1>0, <1>1 DEF Takes
<1>3. \/ Len(rxBuffer) < BufSize /\ rxBuffer' = Append(rxBuffer, fifo[k]) /\ dropped' = dropped
      \/ Len(rxBuffer) >= BufSize /\ rxBuffer' = rxBuffer /\ dropped' = dropped \cup {fifo[k].n}
  BY DEF Takes, Stores
<1>4. /\ Append(rxBuffer, fifo[k]) \in Seq(Char)
      /\ Len(Append(rxBuffer, fifo[k])) = Len(rxBuffer) + 1
      /\ \A a \in 1..Len(rxBuffer) : Append(rxBuffer, fifo[k])[a] = rxBuffer[a]
      /\ Append(rxBuffer, fifo[k])[Len(rxBuffer) + 1] = fifo[k]
  BY <1>1, OneMore DEF Fields
<1>5. /\ \A a \in 1..Len(rxBuffer) : a \in 1..Len(rxBuffer') /\ rxBuffer'[a] = rxBuffer[a]
      /\ \A a \in 1..Len(rxBuffer') :
           \/ a \in 1..Len(rxBuffer) /\ rxBuffer'[a] = rxBuffer[a]
           \/ a = Len(rxBuffer) + 1 /\ rxBuffer'[a] = fifo[k]
      /\ Here(rxBuffer', fifo[k].n) \/ fifo[k].n \in dropped'
      /\ rxBuffer' \in Seq(Char) /\ Len(rxBuffer') <= Len(rxBuffer) + 1
  <2>1. CASE Len(rxBuffer) < BufSize /\ rxBuffer' = Append(rxBuffer, fifo[k])
    <3>1. Len(rxBuffer) + 1 \in 1..Len(rxBuffer') /\ rxBuffer'[Len(rxBuffer) + 1] = fifo[k]
      BY <1>0, <1>4, <2>1
    <3> QED
      BY <1>0, <1>4, <2>1, <3>1 DEF Here
  <2>2. CASE rxBuffer' = rxBuffer /\ dropped' = dropped \cup {fifo[k].n}
    BY <1>0, <2>2 DEF Fields
  <2> QED
    BY <1>3, <2>1, <2>2
<1>6. dropped \subseteq dropped' /\ discarded \subseteq discarded' /\ discarded' \subseteq Char
  <2>1. fifo[1] \in Char
    BY <1>0, <1>1, Contents
  <2> QED
    BY <1>3, <2>1 DEF Chosen, Fields
<1>7. rts' \in BOOLEAN
  BY DEF Takes, Stores
<1>8. Fields'
  <2>1. Len(rxBuffer') <= BufSize
    BY <1>0, <1>3, <1>4, RxConstants DEF Fields
  <2>2. dropped' \subseteq 1..MaxChars
    BY <1>1, <1>3 DEF Fields
  <2>3. Len(fifo') <= 2
    BY <1>0, <1>2 DEF Fields
  <2> QED
    BY <1>2, <1>5, <1>6, <2>1, <2>2, <2>3 DEF Fields, Counts
<1>9. InSequence'
  <2>1. Grows(fifo)' /\ Within(fifo)'
    <3>1. ASSUME NEW a \in 1..Len(fifo'), NEW b \in 1..Len(fifo'), a < b
          PROVE  fifo'[a].n < fifo'[b].n
      <4>1. a + k < b + k
        BY <1>0, <1>2, <3>1
      <4> QED
        BY <1>2, <4>1 DEF Sound, InSequence, Grows
    <3>2. ASSUME NEW a \in 1..Len(fifo') PROVE got < fifo'[a].n /\ fifo'[a].n <= sent
      BY <1>2 DEF Sound, InSequence, Within
    <3> QED
      BY <3>1, <3>2 DEF Grows, Within
  <2>2. Grows(rxBuffer)'
    <3> SUFFICES ASSUME NEW a \in 1..Len(rxBuffer'), NEW b \in 1..Len(rxBuffer'), a < b
                 PROVE  rxBuffer'[a].n < rxBuffer'[b].n
      BY DEF Grows
    <3>1. a \in 1..Len(rxBuffer) /\ rxBuffer'[a] = rxBuffer[a]
      BY <1>0, <1>5
    <3>2. CASE b \in 1..Len(rxBuffer) /\ rxBuffer'[b] = rxBuffer[b]
      BY <3>1, <3>2 DEF Sound, InSequence, Grows
    <3>3. CASE rxBuffer'[b] = fifo[k]
      BY <1>1, <3>1, <3>3 DEF Sound, InSequence
    <3> QED
      BY <1>5, <3>2, <3>3
  <2>3. Within(rxBuffer)'
    BY <1>1, <1>5 DEF Sound, InSequence, Within
  <2>4. ASSUME NEW a \in 1..Len(rxBuffer'), NEW b \in 1..Len(fifo')
        PROVE  rxBuffer'[a].n < fifo'[b].n
    <3>1. CASE a \in 1..Len(rxBuffer) /\ rxBuffer'[a] = rxBuffer[a]
      BY <1>2, <3>1 DEF Sound, InSequence
    <3>2. CASE rxBuffer'[a] = fifo[k]
      <4>1. k < b + k
        BY <1>0, <1>2
      <4> QED
        BY <1>1, <1>2, <3>2, <4>1 DEF Sound, InSequence, Grows
    <3> QED
      BY <1>5, <3>1, <3>2
  <2> QED
    BY <2>1, <2>2, <2>3, <2>4 DEF Sound, InSequence
<1>10. AllThere'
  <2>1. ASSUME NEW m \in (got + 1)..sent PROVE (Here(rxBuffer, m) \/ Here(fifo, m) \/ Lost(m))'
    <3>1. Lost(m) => Lost(m)'
      BY <1>6 DEF Lost
    <3>2. Here(rxBuffer, m) => Here(rxBuffer, m)'
      BY <1>5 DEF Here
    <3>3. ASSUME NEW a \in 1..Len(fifo), fifo[a].n = m
          PROVE  (Here(rxBuffer, m) \/ Here(fifo, m) \/ Lost(m))'
      <4>1. CASE a = k
        BY <1>5, <3>3, <4>1 DEF Lost, Here
      <4>2. CASE a > k
        <5>1. a - k \in 1..Len(fifo') /\ (a - k) + k = a
          BY <1>0, <1>2, <4>2
        <5> QED
          BY <1>2, <3>3, <5>1 DEF Here
      <4>3. CASE a < k
        <5>1. a = 1 /\ k = 2
          BY <1>0, <4>3
        <5>2. fifo[1] \in discarded'
          BY <5>1 DEF Chosen
        <5> QED
          BY <3>3, <5>1, <5>2 DEF Lost
      <4> QED
        BY <1>0, <4>1, <4>2, <4>3
    <3> QED
      BY <3>1, <3>2, <3>3 DEF Sound, AllThere, Here
  <2>2. \A c \in discarded' : c.bad
    BY DEF Chosen, Sound, AllThere
  <2> QED
    BY <2>1, <2>2 DEF AllThere
<1>11. NoGap'
  <2>1. ASSUME NEW a \in 1..Len(fifo'), a + 1 \in 1..Len(fifo')
        PROVE  (fifo'[a].n + 1)..(fifo'[a + 1].n - 1) \subseteq overrun
    <3>1. /\ a + k \in 1..Len(fifo) /\ (a + k) + 1 \in 1..Len(fifo)
          /\ fifo'[a] = fifo[a + k] /\ fifo'[a + 1] = fifo[(a + k) + 1]
      <4>1. (a + 1) + k = (a + k) + 1
        BY <1>0, <1>2
      <4>2. fifo'[a + 1] = fifo[(a + 1) + k] /\ (a + 1) + k \in 1..Len(fifo)
        BY <1>2, <2>1
      <4> QED
        BY <1>2, <4>1, <4>2
    <3> QED
      BY <3>1 DEF Sound, NoGap
  <2>2. Len(fifo') > 0 => fifo'[Len(fifo')] = fifo[Len(fifo)] /\ Len(fifo) > 0
    <3>1. Len(fifo') > 0 => Len(fifo') \in 1..Len(fifo') /\ Len(fifo') + k = Len(fifo)
      BY <1>0, <1>2
    <3> QED
      BY <1>0, <1>2, <3>1
  <2> QED
    BY <2>1, <2>2 DEF Sound, NoGap
<1>12. BadOnlyBehindBad'
  <2> SUFFICES ASSUME NEW a \in 1..Len(rxBuffer'), rxBuffer'[a].bad
               PROVE  Excused(rxBuffer[a])'
    BY Zenon DEF BadOnlyBehindBad, Excused
  <2>1. CASE a \in 1..Len(rxBuffer) /\ rxBuffer'[a] = rxBuffer[a]
    <3>1. Excused(rxBuffer[a])
      BY <2>1 DEF Sound, BadOnlyBehindBad, Excused
    <3> QED
      BY <1>6, <2>1, <3>1 DEF Excused
  <2>2. CASE rxBuffer'[a] = fifo[k]
    <3>1. k = 2 /\ fifo[1] \in discarded'
      BY <2>2 DEF Chosen
    <3>2. 1 \in 1..Len(fifo) /\ 1 + 1 \in 1..Len(fifo) /\ 1 + 1 = 2
      BY <1>0, <1>1, <3>1
    <3>3. fifo[1].n < fifo[2].n
      BY <3>2 DEF Sound, InSequence, Grows
    <3>4. (fifo[1].n + 1)..(fifo[2].n - 1) \subseteq overrun
      BY <3>2 DEF Sound, NoGap
    <3> QED
      BY <2>2, <3>1, <3>3, <3>4 DEF Excused
  <2> QED
    BY <1>5, <2>1, <2>2
<1>13. ASSUME Enough, StopsInTime PROVE StopsInTime'
  <2>1. /\ BufSize \in Nat /\ Slack \in Nat /\ slack \in Nat /\ Threshold \in Nat
        /\ stall \in Nat
    BY Numeric
  <2>2. rts' => rts /\ BufSize - Len(rxBuffer') >= Threshold
    BY DEF Takes, Stores
  <2>3. Len(rxBuffer) < BufSize
    BY <1>0, <1>1, <1>13, <2>1 DEF StopsInTime
  <2>4. Len(rxBuffer') = Len(rxBuffer) + 1 /\ dropped' = dropped
    BY <1>3, <1>4, <2>1, <2>3, <1>0
  <2>5. FifoSize + Slack <= Threshold /\ FifoSize = 2
    BY <1>13 DEF Enough, FifoSize
  <2>6. pc' = pc /\ slack' = slack /\ (pc = "assert" => stall' = stall + 1)
    BY DEF Counts
  <2>7. rts' => slack' = Slack /\ Len(rxBuffer') + FifoSize + Slack <= BufSize
    BY <1>0, <1>13, <2>1, <2>2, <2>4, <2>5, <2>6 DEF StopsInTime
  <2>8. Len(rxBuffer') + Len(fifo') + slack' <= BufSize
    BY <1>0, <1>2, <1>13, <2>1, <2>4, <2>6 DEF StopsInTime
  <2>9. pc' = "assert" => Len(rxBuffer') + Threshold + 1 <= BufSize + stall'
    BY <1>0, <1>13, <2>1, <2>4, <2>6 DEF StopsInTime
  <2> QED
    BY <1>13, <2>4, <2>7, <2>8, <2>9 DEF StopsInTime
<1> QED
  BY <1>7, <1>8, <1>9, <1>10, <1>11, <1>12, <1>13 DEF Kept, Sound

\* The handler discards the only character.
LEMMA DiscardStep ==
  ASSUME RxAssumption, Fields, rts \in BOOLEAN, Sound, DiscardsOnly, fifo[1].bad,
         discarded' = discarded \cup {fifo[1]},
         UNCHANGED <<pc, sent, slack, errors, got, overrun>>, Counts
  PROVE  Kept
<1>0. /\ Len(rxBuffer) \in Nat /\ sent \in Nat /\ got \in Nat /\ Len(<<>>) = 0
      /\ <<>> \in Seq(Char)
  BY Numeric, EmptySeq
<1>1. Len(fifo) = 1 /\ fifo' = <<>> /\ UNCHANGED <<rxBuffer, rts, dropped>>
  BY DEF DiscardsOnly
<1>2. fifo[1] \in Char
  BY <1>1, Contents
<1>3. Fields' /\ rts' \in BOOLEAN
  BY <1>0, <1>1, <1>2 DEF Fields, Counts
<1>4. InSequence'
  BY <1>0, <1>1 DEF Sound, InSequence, Grows, Within
<1>5. AllThere'
  <2>1. ASSUME NEW m \in (got + 1)..sent PROVE (Here(rxBuffer, m) \/ Lost(m))'
    <3>1. Here(rxBuffer, m) \/ Here(fifo, m) \/ Lost(m)
      BY DEF Sound, AllThere
    <3>2. Here(fifo, m) => fifo[1].n = m
      BY <1>1 DEF Here
    <3> QED
      BY <1>1, <3>1, <3>2 DEF Here, Lost
  <2>2. \A c \in discarded' : c.bad
    BY DEF Sound, AllThere
  <2> QED
    BY <2>1, <2>2 DEF AllThere
<1>6. NoGap'
  BY <1>0, <1>1 DEF NoGap
<1>7. BadOnlyBehindBad'
  BY <1>1 DEF Sound, BadOnlyBehindBad
<1>8. ASSUME Enough, StopsInTime PROVE StopsInTime'
  <2>1. /\ BufSize \in Nat /\ Slack \in Nat /\ slack \in Nat /\ Threshold \in Nat
        /\ stall \in Nat
    BY Numeric
  <2> QED
    BY <1>0, <1>1, <1>8, <2>1 DEF StopsInTime, Counts
<1> QED
  BY <1>3, <1>4, <1>5, <1>6, <1>7, <1>8 DEF Kept, Sound

\* read() takes the first character of the buffer.
LEMMA ReadCharStep ==
  ASSUME RxAssumption, Fields, rts \in BOOLEAN, Sound, ReadChar
  PROVE  Kept
<1>0. /\ Len(rxBuffer) \in Nat /\ Len(fifo) \in Nat /\ sent \in Nat /\ got \in Nat
      /\ MaxChars \in Nat
  BY Numeric
<1>1. /\ pc' = "check"
      /\ UNCHANGED <<rts, fifo, sent, slack, errors, stall, overrun, dropped, discarded>>
  BY DEF ReadChar, sender
<1>2. CASE rxBuffer = <<>>
  <2>1. got' = got /\ rxBuffer' = rxBuffer
    BY <1>2 DEF ReadChar
  <2>2. Fields' /\ rts' \in BOOLEAN
    BY <1>1, <2>1 DEF Fields
  <2>3. InSequence' /\ NoGap'
    BY <1>1, <2>1 DEF Sound, InSequence, Grows, Within, NoGap
  <2>4. AllThere' /\ BadOnlyBehindBad'
    BY <1>1, <2>1 DEF Sound, AllThere, Here, Lost, BadOnlyBehindBad
  <2>5. StopsInTime => StopsInTime'
    BY <1>1, <2>1 DEF StopsInTime
  <2> QED
    BY <2>2, <2>3, <2>4, <2>5 DEF Kept, Sound
<1>3. CASE rxBuffer # <<>>
  <2>1. got' = Head(rxBuffer).n /\ rxBuffer' = Tail(rxBuffer)
    BY <1>3 DEF ReadChar
  <2>2. /\ rxBuffer' \in Seq(Char) /\ Len(rxBuffer') = Len(rxBuffer) - 1 /\ Len(rxBuffer) >= 1
        /\ rxBuffer[1] \in Char /\ got' = rxBuffer[1].n
        /\ \A a \in 1..Len(rxBuffer') : rxBuffer'[a] = rxBuffer[a + 1]
    BY <1>3, <2>1, OneLess DEF Fields
  <2>3. \A a \in 1..Len(rxBuffer') : a + 1 \in 1..Len(rxBuffer) /\ 1 < a + 1
    BY <1>0, <2>2
  <2>4. 1 \in 1..Len(rxBuffer) /\ rxBuffer[1].n \in 1..MaxChars
    BY <1>0, <2>2, Characters
  <2>5. got < got' /\ got' <= sent
    BY <2>2, <2>4 DEF Sound, InSequence, Within
  <2>6. Fields' /\ rts' \in BOOLEAN
    <3>1. Len(rxBuffer') <= BufSize
      BY <1>0, <2>2, RxConstants DEF Fields
    <3> QED
      BY <1>0, <1>1, <2>2, <2>4, <3>1 DEF Fields
  <2>7. InSequence'
    <3>1. Grows(rxBuffer)'
      <4> SUFFICES ASSUME NEW a \in 1..Len(rxBuffer'), NEW b \in 1..Len(rxBuffer'), a < b
                   PROVE  rxBuffer'[a].n < rxBuffer'[b].n
        BY DEF Grows
      <4>1. a + 1 < b + 1
        BY <1>0, <2>2
      <4> QED
        BY <2>2, <2>3, <4>1 DEF Sound, InSequence, Grows
    <3>2. Within(rxBuffer)'
      BY <1>1, <2>2, <2>3, <2>4 DEF Sound, InSequence, Grows, Within
    <3>3. Grows(fifo)'
      BY <1>1 DEF Sound, InSequence, Grows
    <3>4. Within(fifo)'
      BY <1>1, <2>2, <2>4 DEF Sound, InSequence, Within
    <3>5. \A a \in 1..Len(rxBuffer'), b \in 1..Len(fifo') : rxBuffer'[a].n < fifo'[b].n
      BY <1>1, <2>2, <2>3 DEF Sound, InSequence
    <3> QED
      BY <1>1, <2>5, <3>1, <3>2, <3>3, <3>4, <3>5 DEF InSequence
  <2>8. AllThere'
    <3>1. ASSUME NEW m \in (got' + 1)..sent
          PROVE  (Here(rxBuffer, m) \/ Here(fifo, m) \/ Lost(m))'
      <4>1. m \in (got + 1)..sent /\ m # rxBuffer[1].n
        BY <1>0, <2>2, <2>4, <2>5
      <4>2. Here(rxBuffer, m) \/ Here(fifo, m) \/ Lost(m)
        BY <4>1 DEF Sound, AllThere
      <4>3. Lost(m) => Lost(m)'
        BY <1>1 DEF Lost
      <4>4. Here(fifo, m) => Here(fifo, m)'
        BY <1>1 DEF Here
      <4>5. ASSUME NEW a \in 1..Len(rxBuffer), rxBuffer[a].n = m PROVE Here(rxBuffer, m)'
        <5>1. a # 1
          BY <4>1, <4>5
        <5>2. a - 1 \in 1..Len(rxBuffer') /\ (a - 1) + 1 = a
          BY <1>0, <2>2, <5>1
        <5> QED
          BY <2>2, <4>5, <5>2 DEF Here
      <4> QED
        BY <4>2, <4>3, <4>4, <4>5 DEF Here
    <3> QED
      BY <1>1, <3>1 DEF Sound, AllThere
  <2>9. NoGap'
    BY <1>1 DEF Sound, NoGap
  <2>10. BadOnlyBehindBad'
    <3> SUFFICES ASSUME NEW a \in 1..Len(rxBuffer'), rxBuffer'[a].bad
                 PROVE  Excused(rxBuffer[a])'
      BY Zenon DEF BadOnlyBehindBad, Excused
    <3>1. a + 1 \in 1..Len(rxBuffer) /\ rxBuffer'[a] = rxBuffer[a + 1]
      BY <2>2, <2>3
    <3>2. Excused(rxBuffer[a + 1])
      BY <3>1 DEF Sound, BadOnlyBehindBad, Excused
    <3> QED
      BY <1>1, <3>1, <3>2 DEF Excused
  <2>11. ASSUME StopsInTime PROVE StopsInTime'
    <3>1. BufSize \in Nat /\ Slack \in Nat /\ slack \in Nat
      BY Numeric
    <3> QED
      BY <1>0, <1>1, <2>2, <2>11, <3>1 DEF StopsInTime, FifoSize
  <2> QED
    BY <2>6, <2>7, <2>8, <2>9, <2>10, <2>11 DEF Kept, Sound
<1> QED
  BY <1>2, <1>3

\* The rest of read() looks at the space and asserts RTS.
LEMMA ReadRtsStep ==
  ASSUME RxAssumption, Fields, rts \in BOOLEAN, Sound, CheckSpace \/ AssertRts
  PROVE  Kept
<1>0. /\ Len(rxBuffer) \in Nat /\ Len(fifo) \in Nat /\ BufSize \in Nat /\ Slack \in Nat
      /\ slack \in Nat /\ Threshold \in Nat /\ stall \in Nat /\ Stall \in Nat
  BY Numeric
<1>1. /\ stall' = 0 /\ pc' \in {"app", "assert"}
      /\ UNCHANGED <<rxBuffer, fifo, sent, errors, got, overrun, dropped, discarded>>
  BY DEF CheckSpace, AssertRts, sender, hist
<1>2. \/ /\ rts' = rts /\ slack' = slack
         /\ pc' = "assert" => BufSize - Len(rxBuffer) > Threshold
      \/ rts' = TRUE /\ slack' = Slack /\ pc = "assert" /\ pc' = "app"
  BY DEF CheckSpace, AssertRts, sender, AvailableForStore
<1>3. rts' \in BOOLEAN
  BY <1>2, Zenon
<1>4. Fields'
  BY <1>0, <1>1, <1>2 DEF Fields
<1>5. InSequence' /\ NoGap'
  BY <1>1 DEF Sound, InSequence, Grows, Within, NoGap
<1>6. AllThere' /\ BadOnlyBehindBad'
  BY <1>1 DEF Sound, AllThere, Here, Lost, BadOnlyBehindBad
<1>7. ASSUME Enough, StopsInTime PROVE StopsInTime'
  <2>1. stall <= Stall /\ Len(fifo) <= 2
    BY <1>0 DEF Fields
  <2> QED
    BY <1>0, <1>1, <1>2, <1>7, <2>1 DEF StopsInTime, Enough, FifoSize
<1> QED
  BY <1>3, <1>4, <1>5, <1>6, <1>7 DEF Kept, Sound

\* Every step of the line, the handler and the sketch.
LEMMA RxStep ==
  ASSUME RxAssumption, Fields, rts \in BOOLEAN, Sound, [Next]_vars
  PROVE  Kept
<1>1. ASSUME ArriveAny PROVE Kept
  <2>1. PICK bad \in BOOLEAN : Arrive(bad)
    BY <1>1 DEF ArriveAny
  <2> QED
    BY <2>1, ArriveStored, ArriveLost
<1>2. ASSUME IrqHandler PROVE Kept
  <2>1. /\ UNCHANGED <<pc, sent, slack, errors, got, overrun>> /\ Counts
        /\ \/ Takes(1) /\ Chosen(1)
           \/ Takes(2) /\ Chosen(2)
           \/ DiscardsOnly /\ fifo[1].bad /\ discarded' = discarded \cup {fifo[1]}
    BY <1>2, HandlerCases, HandlerCounts DEF Chosen
  <2> QED
    BY <2>1, TakesStep, DiscardStep
<1>3. ASSUME UNCHANGED vars PROVE Kept
  <2>1. /\ UNCHANGED <<pc, rxBuffer, rts, fifo, sent, slack, errors, stall, got>>
        /\ UNCHANGED <<overrun, dropped, discarded>>
    BY <1>3 DEF vars, sender, hist
  <2>2. Fields' /\ rts' \in BOOLEAN
    BY <2>1 DEF Fields
  <2>3. InSequence' /\ NoGap'
    BY <2>1 DEF Sound, InSequence, Grows, Within, NoGap
  <2>4. AllThere' /\ BadOnlyBehindBad'
    BY <2>1 DEF Sound, AllThere, Here, Lost, BadOnlyBehindBad
  <2>5. StopsInTime => StopsInTime'
    BY <2>1 DEF StopsInTime
  <2> QED
    BY <2>2, <2>3, <2>4, <2>5 DEF Kept, Sound
<1> QED
  BY <1>1, <1>2, <1>3, ReadCharStep, ReadRtsStep DEF Next, Read

\* The order and the places of the invariant are what NoneVanishes says.
LEMMA SequenceIsWhole ==
  ASSUME RxAssumption, Fields, InSequence, AllThere
  PROVE  NoneVanishes
<1>0. /\ Len(rxBuffer) \in Nat /\ Len(fifo) \in Nat /\ sent \in Nat /\ got \in Nat
      /\ rxBuffer \in Seq(Char) /\ fifo \in Seq(Char)
  BY Numeric DEF Fields
<1>1. ASSUME NEW m \in (got + 1)..sent
      PROVE  m \in Numbers(rxBuffer) \cup Numbers(fifo) \cup overrun \cup dropped
                     \cup {c.n : c \in discarded}
  BY DEF AllThere, Here, Lost, Numbers
<1> DEFINE all == rxBuffer \o fifo
<1>2. /\ Len(all) = Len(rxBuffer) + Len(fifo)
      /\ \A a \in 1..Len(rxBuffer) : all[a] = rxBuffer[a]
      /\ \A a \in 1..Len(all) : a > Len(rxBuffer) =>
           a - Len(rxBuffer) \in 1..Len(fifo) /\ all[a] = fifo[a - Len(rxBuffer)]
  BY <1>0
<1> HIDE DEF all
<1>3. ASSUME NEW a \in 1..Len(all) PROVE all[a].n > got
  <2>1. CASE a \in 1..Len(rxBuffer)
    BY <1>0, <1>2, <2>1, Contents DEF InSequence, Within
  <2>2. CASE a > Len(rxBuffer)
    BY <1>0, <1>2, <2>2, Contents DEF InSequence, Within
  <2> QED
    BY <1>0, <1>2, <2>1, <2>2
<1>4. ASSUME NEW a \in 1..Len(all), a # 1 PROVE all[a].n > all[a - 1].n
  <2>1. a - 1 \in 1..Len(all)
    BY <1>0, <1>2, <1>4
  <2>2. CASE a \in 1..Len(rxBuffer)
    <3>1. a - 1 \in 1..Len(rxBuffer) /\ a - 1 < a
      BY <1>0, <1>4, <2>2
    <3>2. rxBuffer[a - 1].n < rxBuffer[a].n
      BY <2>2, <3>1 DEF InSequence, Grows
    <3> QED
      BY <1>2, <2>2, <3>1, <3>2, Contents
  <2>3. CASE a > Len(rxBuffer) /\ a - 1 \in 1..Len(rxBuffer)
    <3>1. a - Len(rxBuffer) \in 1..Len(fifo) /\ all[a] = fifo[a - Len(rxBuffer)]
      BY <1>2, <2>3
    <3>2. rxBuffer[a - 1].n < fifo[a - Len(rxBuffer)].n
      BY <2>3, <3>1 DEF InSequence
    <3> QED
      BY <1>2, <2>3, <3>1, <3>2, Contents
  <2>4. CASE a - 1 > Len(rxBuffer)
    <3>1. /\ a - Len(rxBuffer) \in 1..Len(fifo) /\ all[a] = fifo[a - Len(rxBuffer)]
          /\ (a - 1) - Len(rxBuffer) \in 1..Len(fifo)
          /\ all[a - 1] = fifo[(a - 1) - Len(rxBuffer)]
      BY <1>0, <1>2, <2>1, <2>4
    <3>2. (a - 1) - Len(rxBuffer) < a - Len(rxBuffer)
      BY <1>0, <1>2
    <3>3. fifo[(a - 1) - Len(rxBuffer)].n < fifo[a - Len(rxBuffer)].n
      BY <3>1, <3>2 DEF InSequence, Grows
    <3> QED
      BY <3>1, <3>3, Contents
  <2> QED
    BY <1>0, <1>2, <2>1, <2>2, <2>3, <2>4
<1>5. \A a \in 1..Len(all) : all[a].n > (IF a = 1 THEN got ELSE all[a - 1].n)
  BY <1>3, <1>4
<1> QED
  BY <1>1, <1>5 DEF NoneVanishes, AllThere, all

-----------------------------------------------------------------------------
(* The theorems about the receiver. *)

\* The invariant, for a sketch and a sender that do what they like: which
\* characters are where, and which are missing between them.
THEOREM RxInvariance == Spec => []RxInv
<1>1. Init => RxInv
  BY UartAssumption, RxStart, TypeParts DEF RxInv, Sound
<1>2. RxInv /\ [Next]_vars => RxInv'
  <2> SUFFICES ASSUME RxInv, [Next]_vars PROVE RxInv'
    OBVIOUS
  <2>1. Fields /\ rts \in BOOLEAN /\ Sound
    BY TypeParts DEF RxInv, Sound
  <2>2. Kept
    BY UartAssumption, <2>1, RxStep
  <2>3. TypeOK'
    BY <2>2 DEF Kept, Fields, TypeOK, FifoSize
  <2> QED
    BY <2>2, <2>3 DEF Kept, RxInv, Sound
<1> QED
  BY <1>1, <1>2, PTL DEF Spec

\* The buffer never holds more than its size and the FIFO two characters.
THEOREM RxTypes == Spec => []TypeOK
<1>1. RxInv => TypeOK
  BY DEF RxInv
<1> QED
  BY <1>1, RxInvariance, PTL

\* Uart::IrqHandler() and read(): characters reach the sketch in the order they
\* were sent, and each that does not was lost in the FIFO, dropped for want of
\* space, or discarded for its own framing error; one with a framing error
\* reaches the sketch only behind another one.
THEOREM ReadsInOrder == Spec => [](NoneVanishes /\ BadOnlyBehindBad)
<1>1. RxInv => NoneVanishes /\ BadOnlyBehindBad
  BY UartAssumption, TypeParts, SequenceIsWhole DEF RxInv
<1> QED
  BY <1>1, RxInvariance, PTL

\* With a threshold that covers what a stopped sender still sends, the FIFO and
\* the gap between read()'s check and its assertion, rxBuffer never overflows
\* either (RTS_RX_THRESHOLD is 10): what is lost was lost in the FIFO, or was
\* discarded for a framing error.
THEOREM NeverOverflows == ASSUME Enough PROVE Spec => []RxSound
<1>1. Init => RxInv /\ StopsInTime
  BY UartAssumption, RxStart, TypeParts DEF RxInv, Sound
<1>2. (RxInv /\ StopsInTime) /\ [Next]_vars => (RxInv /\ StopsInTime)'
  <2> SUFFICES ASSUME RxInv, StopsInTime, [Next]_vars PROVE (RxInv /\ StopsInTime)'
    OBVIOUS
  <2>1. Fields /\ rts \in BOOLEAN /\ Sound
    BY TypeParts DEF RxInv, Sound
  <2>2. Kept
    BY UartAssumption, <2>1, RxStep
  <2>3. TypeOK'
    BY <2>2 DEF Kept, Fields, TypeOK, FifoSize
  <2> QED
    BY <2>2, <2>3 DEF Kept, RxInv, Sound
<1>3. RxInv /\ StopsInTime => RxSound
  BY UartAssumption, TypeParts, SequenceIsWhole DEF RxInv, StopsInTime, NoOverflow, RxSound
<1> QED
  BY <1>1, <1>2, <1>3, PTL DEF Spec

-----------------------------------------------------------------------------
(* The transmitter. *)

\* The constants of the transmitter are numbers.
LEMMA TxConstants == TxSize \in Nat \ {0} /\ MaxBytes \in Nat
BY UartAssumption DEF Tx!TxAssumption

Held(c) == IF c = Tx!None THEN 0 ELSE 1

Calling == IF tx_pc \in {"empty", "direct", "full", "store"} THEN 1 ELSE 0

-----------------------------------------------------------------------------
(* The invariant of the transmitter. *)

\* Where each byte is: the line has the first ones, then come the shift
\* register, the data register, the buffer and the call.
Places ==
  /\ \A i \in 1..Len(line) : line[i] = i
  /\ shift # Tx!None => shift = Len(line) + 1
  /\ dataReg # Tx!None => dataReg = Len(line) + Held(shift) + 1
  /\ \A i \in 1..Len(txBuffer) : txBuffer[i] = Len(line) + Held(shift) + Held(dataReg) + i
  /\ byte = Len(line) + Held(shift) + Held(dataReg) + Len(txBuffer) + Calling

\* What the checks of write() and flush() are still good for when they are used.
Checked ==
  /\ tx_pc \in {"direct", "flushDre", "txc"} => txBuffer = <<>>
  /\ tx_pc = "store" => Len(txBuffer) < TxSize
  /\ txc => dataReg = Tx!None

TxInv == Tx!TypeOK /\ Places /\ Checked /\ Tx!SomebodySends /\ Tx!FlushReachesUsart

-----------------------------------------------------------------------------
(* Runs of consecutive bytes. *)

\* The n bytes after the first m.
Run(s, m, n) == s \in Seq(Nat) /\ Len(s) = n /\ \A i \in 1..n : s[i] = m + i

\* A run of numbers and the run behind it are one run.
LEMMA RunConcat ==
  ASSUME NEW s, NEW t, NEW m \in Nat, NEW n \in Nat, NEW k \in Nat, Run(s, m, n), Run(t, m + n, k)
  PROVE  Run(s \o t, m, n + k)
<1>1. s \in Seq(Nat) /\ Len(s) = n /\ t \in Seq(Nat) /\ Len(t) = k
  BY DEF Run
<1>2. s \o t \in Seq(Nat) /\ Len(s \o t) = n + k
  BY <1>1
<1>3. ASSUME NEW i \in 1..(n + k) PROVE (s \o t)[i] = m + i
  <2>1. CASE i <= n
    BY <1>1, <2>1 DEF Run
  <2>2. CASE i > n
    <3>1. (s \o t)[i] = t[i - n] /\ i - n \in 1..k
      BY <1>1, <2>2
    <3> QED
      BY <3>1 DEF Run
  <2>3. i <= n \/ i > n
    OBVIOUS
  <2> QED
    BY <2>1, <2>2, <2>3
<1> QED
  BY <1>2, <1>3 DEF Run

\* The run of the first n numbers.
LEMMA RunAll ==
  ASSUME NEW s, NEW n \in Nat, Run(s, 0, n)
  PROVE  s = [i \in 1..n |-> i]
BY DEF Run

\* The places of the invariant, put one behind the other, are what InOrder says.
LEMMA PlacesInOrder == ASSUME Tx!TypeOK, Places PROVE Tx!InOrder
<1> DEFINE L == Len(line)
           S == Held(shift)
           D == Held(dataReg)
           B == Len(txBuffer)
<1>1. L \in Nat /\ S \in Nat /\ D \in Nat /\ B \in Nat /\ Calling \in Nat
  BY DEF Tx!TypeOK, Held, Calling
<1>2. Run(line, 0, L)
  BY TxConstants DEF Tx!TypeOK, Places, Run
<1>3. Run(Tx!One(shift), L, S)
  BY <1>1, TxConstants DEF Tx!TypeOK, Places, Run, Tx!One, Held, Tx!None
<1>4. Run(Tx!One(dataReg), L + S, D)
  BY <1>1, TxConstants DEF Tx!TypeOK, Places, Run, Tx!One, Held, Tx!None
<1>5. Run(txBuffer, L + S + D, B)
  BY TxConstants DEF Tx!TypeOK, Places, Run
<1>6. Run(Tx!InWrite, L + S + D + B, Calling)
  BY <1>1, TxConstants DEF Tx!TypeOK, Places, Run, Tx!InWrite, Calling
<1>7. byte = L + S + D + B + Calling
  BY DEF Places
<1> HIDE DEF L, S, D, B
<1>8. Run(line \o Tx!One(shift), 0, L + S)
  BY <1>1, <1>2, <1>3, RunConcat
<1>9. Run(line \o Tx!One(shift) \o Tx!One(dataReg), 0, L + S + D)
  BY <1>1, <1>4, <1>8, RunConcat
<1>10. Run(line \o Tx!One(shift) \o Tx!One(dataReg) \o txBuffer, 0, L + S + D + B)
  BY <1>1, <1>5, <1>9, RunConcat
<1>11. Run(line \o Tx!One(shift) \o Tx!One(dataReg) \o txBuffer \o Tx!InWrite, 0, byte)
  BY <1>1, <1>6, <1>7, <1>10, RunConcat
<1>12. byte \in Nat
  BY <1>1, <1>7
<1> QED
  BY <1>11, <1>12, RunAll, Zenon DEF Tx!InOrder
-----------------------------------------------------------------------------
(* The steps.  The provers reason apart about the flags and the rest. *)

TxFlags == masked \in BOOLEAN /\ dreInt \in BOOLEAN /\ txc \in BOOLEAN

TxFields ==
  /\ tx_pc \in {"app", "empty", "direct", "full", "store", "enable", "flush", "flushDre", "txc"}
  /\ byte \in 0..MaxBytes /\ dataReg \in 0..MaxBytes /\ shift \in 0..MaxBytes
  /\ txBuffer \in Seq(1..MaxBytes) /\ Len(txBuffer) <= TxSize
  /\ line \in Seq(1..MaxBytes) /\ flushed \in 0..MaxBytes

\* The types, split for the provers.
LEMMA TxTypeParts == Tx!TypeOK <=> TxFlags /\ TxFields
BY DEF Tx!TypeOK, TxFlags, TxFields

\* The lengths that Places adds up are numbers.
LEMMA TxNumbers ==
  ASSUME TxFields
  PROVE  /\ Len(line) \in Nat /\ Len(txBuffer) \in Nat /\ byte \in Nat
         /\ Held(shift) \in {0, 1} /\ Held(dataReg) \in {0, 1} /\ Calling \in {0, 1}
BY TxConstants DEF TxFields, Held, Calling

TxParts == Places /\ Checked /\ Tx!SomebodySends /\ Tx!FlushReachesUsart

\* The invariant holds when the port is begun.
LEMMA TxStart == Tx!Init => TxInv
<1> SUFFICES ASSUME Tx!Init PROVE TxInv
  OBVIOUS
<1>1. TxFlags
  BY Zenon DEF Tx!Init, TxFlags
<1>2. TxFields
  BY TxConstants DEF Tx!Init, TxFields, Tx!None
<1>3. TxParts
  BY DEF Tx!Init, TxParts, Places, Checked, Tx!SomebodySends, Tx!FlushReachesUsart, Held,
     Calling, Tx!None
<1> QED
  BY <1>1, <1>2, <1>3, TxTypeParts DEF TxInv, TxParts

\* The handler moves the first byte of the buffer into the data register, or
\* finds nothing to send and disables its interrupt.
LEMMA HandlerStep ==
  ASSUME TxFlags, TxFields, TxParts, Tx!IrqHandler, UNCHANGED <<byte, masked, flushed, tx_pc>>
  PROVE  TxFlags' /\ TxFields' /\ TxParts'
<1>1. CASE UNCHANGED <<txBuffer, dreInt, Tx!usart>>
  BY <1>1 DEF Tx!usart, TxFlags, TxFields, TxParts, Places, Checked, Tx!SomebodySends,
     Tx!FlushReachesUsart, Held, Calling
<1>2. CASE Tx!Dre /\ txBuffer # <<>>
  <2>1. /\ txBuffer' = Tail(txBuffer) /\ dataReg' = Head(txBuffer) /\ txc' = FALSE
        /\ shift' = shift /\ line' = line /\ dreInt' = dreInt /\ dataReg = Tx!None
    BY <1>2 DEF Tx!IrqHandler, Tx!SetData, Tx!Dre
  <2>2. /\ Len(txBuffer) \in Nat /\ Len(txBuffer) >= 1 /\ Head(txBuffer) = txBuffer[1]
        /\ Tail(txBuffer) \in Seq(1..MaxBytes) /\ Len(Tail(txBuffer)) = Len(txBuffer) - 1
        /\ \A i \in 1..Len(Tail(txBuffer)) : Tail(txBuffer)[i] = txBuffer[i + 1]
        /\ txBuffer[1] \in 1..MaxBytes
    <3>1. txBuffer \in Seq(1..MaxBytes) /\ txBuffer # <<>>
      BY <1>2 DEF TxFields
    <3>2. Len(txBuffer) \in Nat \ {0}
      BY <3>1, EmptySeq
    <3>3. /\ Tail(txBuffer) \in Seq(1..MaxBytes) /\ Len(Tail(txBuffer)) = Len(txBuffer) - 1
          /\ \A i \in 1..Len(Tail(txBuffer)) : Tail(txBuffer)[i] = txBuffer[i + 1]
      BY <3>1, HeadTailProperties
    <3>4. txBuffer[1] \in 1..MaxBytes
      <4>1. 1 \in 1..Len(txBuffer)
        BY <3>2
      <4> QED
        BY <3>1, <4>1, ElementOfSeq
    <3>5. Head(txBuffer) = txBuffer[1]
      BY <3>1, <3>2
    <3> QED
      BY <3>2, <3>3, <3>4, <3>5
  <2>3. TxFlags'
    BY <2>1, Zenon DEF TxFlags
  <2>4. TxFields'
    BY <2>1, <2>2, TxConstants DEF TxFields
  <2>5. Places'
    <3>1. /\ Held(dataReg) = 0 /\ Held(dataReg)' = 1 /\ dataReg' = txBuffer[1]
          /\ Held(shift)' = Held(shift) /\ Calling' = Calling
      BY <2>1, <2>2 DEF Held, Calling, Tx!None
    <3>2. txBuffer[1] = Len(line) + Held(shift) + 1
      BY <2>2, <3>1, TxNumbers DEF TxParts, Places
    <3>3. Len(txBuffer') = Len(txBuffer) - 1
      BY <2>1, <2>2
    <3>4. ASSUME NEW i \in 1..Len(txBuffer') PROVE txBuffer'[i] = Len(line) + Held(shift) + 1 + i
      <4>1. i + 1 \in 1..Len(txBuffer) /\ txBuffer'[i] = txBuffer[i + 1]
        BY <2>1, <2>2, <3>3
      <4>2. txBuffer[i + 1] = Len(line) + Held(shift) + Held(dataReg) + (i + 1)
        BY <4>1 DEF TxParts, Places
      <4>3. i \in Int /\ Len(line) \in Int /\ Held(shift) \in Int
        BY TxNumbers
      <4> QED
        BY <3>1, <4>1, <4>2, <4>3
    <3> QED
      BY <2>1, <3>1, <3>2, <3>3, <3>4, TxNumbers DEF TxParts, Places
  <2>6. Checked' /\ Tx!SomebodySends' /\ Tx!FlushReachesUsart'
    BY <1>2, <2>1, <2>2, TxConstants
       DEF TxFields, TxParts, Checked, Tx!SomebodySends, Tx!FlushReachesUsart
  <2> QED
    BY <2>3, <2>4, <2>5, <2>6 DEF TxParts
<1>3. CASE Tx!Dre /\ txBuffer = <<>>
  <2>1. dreInt' = FALSE /\ UNCHANGED <<txBuffer, dataReg, shift, txc, line>>
    BY <1>3 DEF Tx!IrqHandler, Tx!usart
  <2>2. TxFlags'
    BY <2>1, Zenon DEF TxFlags
  <2> QED
    BY <1>3, <2>1, <2>2
       DEF TxFields, TxParts, Places, Checked, Tx!SomebodySends, Tx!FlushReachesUsart, Held, Calling
<1> QED
  BY <1>1, <1>2, <1>3 DEF Tx!IrqHandler

\* The sketch in write(): it stores behind all that is in the buffer, or puts
\* into the data register what has nothing before it.
LEMMA WriteSteps ==
  ASSUME TxFlags, TxFields, TxParts,
         \/ Tx!Write \/ Tx!BufferEmpty \/ Tx!WriteDirect
         \/ Tx!NotFull \/ Tx!Store \/ Tx!EnableDreInterrupt
  PROVE  TxFlags' /\ TxFields' /\ TxParts'
<1> USE TxConstants
<1>1. CASE Tx!Write
  <2>1. /\ byte < MaxBytes /\ byte' = byte + 1 /\ tx_pc = "app" /\ tx_pc' \in {"empty", "full"}
        /\ UNCHANGED <<masked, dreInt, txc>>
        /\ UNCHANGED <<txBuffer, dataReg, shift, line, flushed>>
    BY <1>1 DEF Tx!Write, Tx!Step, Tx!usart
  <2>2. TxFlags' /\ TxFields'
    BY <2>1 DEF TxFlags, TxFields
  <2>3. Places'
    <3>1. /\ Held(shift)' = Held(shift) /\ Held(dataReg)' = Held(dataReg)
          /\ Calling = 0 /\ Calling' = 1
      BY <2>1 DEF Held, Calling
    <3> QED
      BY <2>1, <3>1, TxNumbers DEF TxParts, Places
  <2>4. Checked' /\ Tx!SomebodySends' /\ Tx!FlushReachesUsart'
    BY <2>1 DEF TxParts, Checked, Tx!SomebodySends, Tx!FlushReachesUsart
  <2> QED
    BY <2>2, <2>3, <2>4 DEF TxParts
<1>2. CASE Tx!BufferEmpty
  <2>1. /\ tx_pc = "empty" /\ tx_pc' \in {"direct", "full"}
        /\ tx_pc' = "direct" => txBuffer = <<>>
        /\ UNCHANGED <<masked, dreInt, txc>>
        /\ UNCHANGED <<byte, txBuffer, dataReg, shift, line, flushed>>
    BY <1>2 DEF Tx!BufferEmpty, Tx!Step, Tx!usart
  <2>2. TxFlags' /\ TxFields'
    BY <2>1 DEF TxFlags, TxFields
  <2>3. Places'
    BY <2>1 DEF TxParts, Places, Held, Calling
  <2>4. Checked' /\ Tx!SomebodySends' /\ Tx!FlushReachesUsart'
    BY <2>1 DEF TxParts, Checked, Tx!SomebodySends, Tx!FlushReachesUsart
  <2> QED
    BY <2>2, <2>3, <2>4 DEF TxParts
<1>3. CASE Tx!WriteDirect
  <2>1. /\ tx_pc = "direct" /\ tx_pc' = "app"
        /\ dataReg = Tx!None /\ dataReg' = byte /\ txc' = FALSE
        /\ masked' = masked /\ dreInt' = dreInt
        /\ UNCHANGED <<byte, txBuffer, shift, line, flushed>>
    BY <1>3 DEF Tx!WriteDirect, Tx!Step, Tx!Dre, Tx!SetData
  <2>2. TxFlags'
    BY <2>1, Zenon DEF TxFlags
  <2>3. TxFields'
    BY <2>1 DEF TxFields
  <2>4. txBuffer = <<>> /\ Len(txBuffer) = 0
    BY <2>1 DEF TxParts, Checked
  <2>5. Places'
    <3>1. /\ Held(shift)' = Held(shift) /\ Held(dataReg) = 0
          /\ Calling = 1 /\ Calling' = 0
      BY <2>1 DEF Held, Calling
    <3>2. byte = Len(line) + Held(shift) + 1
      BY <2>4, <3>1, TxNumbers DEF TxParts, Places
    <3>3. Held(dataReg)' = 1
      BY <2>1, <3>2, TxNumbers DEF Held, Tx!None
    <3> QED
      BY <2>1, <2>4, <3>1, <3>2, <3>3, TxNumbers DEF TxParts, Places
  <2>6. Checked' /\ Tx!SomebodySends' /\ Tx!FlushReachesUsart'
    BY <2>1, <2>4 DEF TxParts, Checked, Tx!SomebodySends, Tx!FlushReachesUsart
  <2> QED
    BY <2>2, <2>3, <2>5, <2>6 DEF TxParts
<1>4. CASE Tx!NotFull
  <2>1. /\ tx_pc = "full" /\ tx_pc' = "store" /\ Len(txBuffer) < TxSize
        /\ UNCHANGED <<masked, dreInt, txc>>
        /\ UNCHANGED <<byte, txBuffer, dataReg, shift, line, flushed>>
    BY <1>4 DEF Tx!NotFull, Tx!Step, Tx!usart
  <2>2. TxFlags' /\ TxFields'
    BY <2>1 DEF TxFlags, TxFields
  <2>3. Places'
    BY <2>1 DEF TxParts, Places, Held, Calling
  <2>4. Checked' /\ Tx!SomebodySends' /\ Tx!FlushReachesUsart'
    BY <2>1 DEF TxParts, Checked, Tx!SomebodySends, Tx!FlushReachesUsart
  <2> QED
    BY <2>2, <2>3, <2>4 DEF TxParts
<1>5. CASE Tx!Store
  <2>1. /\ tx_pc = "store" /\ tx_pc' = "enable" /\ UNCHANGED <<masked, dreInt, txc>>
        /\ UNCHANGED <<byte, dataReg, shift, line, flushed>>
    BY <1>5 DEF Tx!Store, Tx!Step, Tx!usart
  <2>2. Len(txBuffer) < TxSize /\ txBuffer' = Append(txBuffer, byte)
    BY <1>5, <2>1 DEF Tx!Store, TxParts, Checked, TxFields
  <2>3. /\ Len(line) \in Nat /\ Held(shift) \in Nat /\ Held(dataReg) \in Nat
        /\ Len(txBuffer) \in Nat
    BY DEF TxFields, Held
  <2>4. byte = Len(line) + Held(shift) + Held(dataReg) + Len(txBuffer) + 1
    BY <2>1 DEF TxParts, Places, Calling
  <2>5. byte \in 1..MaxBytes
    BY <2>3, <2>4 DEF TxFields
  <2>6. /\ txBuffer' \in Seq(1..MaxBytes) /\ Len(txBuffer') = Len(txBuffer) + 1
        /\ \A i \in 1..Len(txBuffer) : txBuffer'[i] = txBuffer[i]
        /\ txBuffer'[Len(txBuffer) + 1] = byte
    BY <2>2, <2>5 DEF TxFields
  <2>7. TxFlags' /\ TxFields'
    BY <2>1, <2>2, <2>3, <2>6 DEF TxFlags, TxFields
  <2>8. Places'
    <3>1. /\ Held(shift)' = Held(shift) /\ Held(dataReg)' = Held(dataReg) /\ Calling' = 0
      BY <2>1 DEF Held, Calling
    <3>2. ASSUME NEW i \in 1..Len(txBuffer')
          PROVE txBuffer'[i] = Len(line) + Held(shift) + Held(dataReg) + i
      <4>1. CASE i <= Len(txBuffer)
        BY <2>3, <2>6, <4>1 DEF TxParts, Places
      <4>2. CASE i = Len(txBuffer) + 1
        BY <2>3, <2>4, <2>6, <4>2
      <4> QED
        BY <2>3, <2>6, <4>1, <4>2
    <3>3. byte' = Len(line') + Held(shift)' + Held(dataReg)' + Len(txBuffer') + Calling'
      <4>1. line' = line /\ byte' = byte /\ Len(txBuffer') = Len(txBuffer) + 1
        BY <2>1, <2>6
      <4>2. Len(line) + Held(shift) + Held(dataReg) + (Len(txBuffer) + 1) + 0 = byte
        BY <2>3, <2>4
      <4> QED
        BY <3>1, <4>1, <4>2
    <3> QED
      BY <2>1, <3>1, <3>2, <3>3 DEF TxParts, Places
  <2>9. Checked' /\ Tx!SomebodySends' /\ Tx!FlushReachesUsart'
    BY <2>1 DEF TxParts, Checked, Tx!SomebodySends, Tx!FlushReachesUsart
  <2> QED
    BY <2>7, <2>8, <2>9 DEF TxParts
<1>6. CASE Tx!EnableDreInterrupt
  <2>1. /\ tx_pc = "enable" /\ tx_pc' = "app" /\ dreInt' = TRUE /\ masked' = masked /\ txc' = txc
        /\ UNCHANGED <<byte, txBuffer, dataReg, shift, line, flushed>>
    BY <1>6 DEF Tx!EnableDreInterrupt, Tx!Step, Tx!usart
  <2>2. TxFlags'
    BY <2>1, Zenon DEF TxFlags
  <2>3. TxFields'
    BY <2>1 DEF TxFields
  <2>4. Places'
    BY <2>1 DEF TxParts, Places, Held, Calling
  <2>5. Checked' /\ Tx!SomebodySends' /\ Tx!FlushReachesUsart'
    BY <2>1 DEF TxParts, Checked, Tx!SomebodySends, Tx!FlushReachesUsart
  <2> QED
    BY <2>2, <2>3, <2>4, <2>5 DEF TxParts
<1> QED
  BY <1>1, <1>2, <1>3, <1>4, <1>5, <1>6

\* flush() returns when nothing is left before the shift register.
LEMMA FlushSteps ==
  ASSUME TxFlags, TxFields, TxParts, Tx!Flush \/ Tx!FlushBuffer \/ Tx!FlushDre \/ Tx!FlushTxc
  PROVE  TxFlags' /\ TxFields' /\ TxParts'
<1> USE TxConstants
<1>1. /\ UNCHANGED <<masked, dreInt, txc>>
      /\ UNCHANGED <<byte, txBuffer, dataReg, shift, line>>
      /\ tx_pc \in {"app", "flush", "flushDre", "txc"}
      /\ tx_pc' \in {"app", "flush", "flushDre", "txc"}
      /\ tx_pc' \in {"flushDre", "txc"} => txBuffer = <<>>
      /\ \/ flushed' = flushed
         \/ flushed' = byte /\ dataReg = Tx!None /\ tx_pc \in {"flushDre", "txc"}
  BY DEF Tx!Flush, Tx!FlushBuffer, Tx!FlushDre, Tx!FlushTxc, Tx!Step, Tx!Dre, Tx!usart, TxParts,
     Checked
<1>2. TxFlags' /\ TxFields'
  BY <1>1 DEF TxFlags, TxFields
<1>3. Places'
  BY <1>1 DEF TxParts, Places, Held, Calling
<1>4. Checked' /\ Tx!SomebodySends'
  BY <1>1 DEF TxParts, Checked, Tx!SomebodySends
<1>5. Tx!FlushReachesUsart'
  <2>1. CASE flushed' = flushed
    BY <1>1, <2>1 DEF TxParts, Tx!FlushReachesUsart
  <2>2. CASE flushed' = byte /\ dataReg = Tx!None /\ tx_pc \in {"flushDre", "txc"}
    <3>1. Len(txBuffer) = 0
      BY <2>2 DEF TxParts, Checked
    <3>2. Held(dataReg) = 0 /\ Calling = 0
      BY <2>2 DEF Held, Calling, Tx!None
    <3>3. byte = Len(line) + Held(shift)
      BY <3>1, <3>2, TxNumbers DEF TxParts, Places
    <3>4. flushed' = Len(line') + Held(shift')
      BY <1>1, <2>2, <3>3
    <3>5. Len(line') \in Nat
      BY <1>1, TxNumbers
    <3> QED
      BY <3>4, <3>5 DEF Tx!FlushReachesUsart, Held
  <2> QED
    BY <1>1, <2>1, <2>2
<1> QED
  BY <1>2, <1>3, <1>4, <1>5 DEF TxParts

\* The steps of the peripheral keep the invariant.
LEMMA UsartSteps ==
  ASSUME TxFlags, TxFields, TxParts, Tx!Usart
  PROVE  TxFlags' /\ TxFields' /\ TxParts'
<1> USE TxConstants
<1>0. UNCHANGED <<tx_pc, byte, txBuffer, flushed>> /\ UNCHANGED <<masked, dreInt>>
  BY DEF Tx!Usart, Tx!StartShift, Tx!EndShift
<1>1. CASE Tx!StartShift
  <2>1. /\ dataReg # Tx!None /\ shift = Tx!None /\ shift' = dataReg /\ dataReg' = Tx!None
        /\ txc' = txc /\ line' = line
    BY <1>1 DEF Tx!StartShift
  <2>2. TxFlags' /\ TxFields'
    BY <1>0, <2>1 DEF TxFlags, TxFields, Tx!None
  <2>3. Places'
    BY <1>0, <2>1 DEF TxFields, TxParts, Places, Held, Calling, Tx!None
  <2>4. Checked' /\ Tx!SomebodySends' /\ Tx!FlushReachesUsart'
    BY <1>0, <2>1 DEF TxParts, TxFields, Checked, Tx!SomebodySends, Tx!FlushReachesUsart
  <2> QED
    BY <2>2, <2>3, <2>4 DEF TxParts
<1>2. CASE Tx!EndShift
  <2>1. /\ shift # Tx!None /\ line' = Append(line, shift) /\ shift' = Tx!None /\ dataReg' = dataReg
    BY <1>2 DEF Tx!EndShift
  <2>2. txc' \in BOOLEAN /\ (txc' => txc \/ dataReg = Tx!None)
    BY <1>2, Zenon DEF Tx!EndShift
  <2>3. /\ shift \in 1..MaxBytes /\ line' \in Seq(1..MaxBytes) /\ Len(line') = Len(line) + 1
        /\ \A i \in 1..Len(line') : line'[i] = IF i <= Len(line) THEN line[i] ELSE shift
    BY <2>1 DEF TxFields, Tx!None
  <2>4. TxFlags'
    BY <1>0, <2>2, Zenon DEF TxFlags
  <2>5. TxFields'
    BY <1>0, <2>1, <2>3 DEF TxFields, Tx!None
  <2>6. Places'
    BY <1>0, <2>1, <2>3 DEF TxFields, TxParts, Places, Held, Calling
  <2>7. Checked' /\ Tx!SomebodySends' /\ Tx!FlushReachesUsart'
    BY <1>0, <2>1, <2>2, <2>3 DEF TxParts, TxFields, Checked, Tx!SomebodySends, Tx!FlushReachesUsart
  <2> QED
    BY <2>4, <2>5, <2>6, <2>7 DEF TxParts
<1> QED
  BY <1>1, <1>2 DEF Tx!Usart

\* Every step of the sketch, the handler and the peripheral keeps the invariant.
LEMMA TxStep == TxInv /\ [Tx!Next]_Tx!vars => TxInv'
<1> SUFFICES ASSUME TxInv, [Tx!Next]_Tx!vars PROVE TxInv'
  OBVIOUS
<1>0. TxFlags /\ TxFields /\ TxParts
  BY TxTypeParts DEF TxInv, TxParts
<1>1. ASSUME Tx!Mask PROVE TxFlags' /\ TxFields' /\ TxParts'
  <2>1. /\ UNCHANGED <<dreInt, txc>> /\ masked' = ~masked
        /\ UNCHANGED <<tx_pc, byte, txBuffer, dataReg, shift, line, flushed>>
    BY <1>1 DEF Tx!Mask, Tx!usart
  <2>2. TxFlags'
    BY <1>0, <2>1, Zenon DEF TxFlags
  <2> QED
    BY <1>0, <2>1, <2>2
       DEF TxFields, TxParts, Places, Checked, Tx!SomebodySends, Tx!FlushReachesUsart, Held, Calling
<1>2. ASSUME Tx!Interrupt \/ Tx!CallIrqHandler PROVE TxFlags' /\ TxFields' /\ TxParts'
  <2>1. Tx!IrqHandler /\ UNCHANGED <<byte, masked, flushed, tx_pc>>
    BY <1>2 DEF Tx!Interrupt, Tx!CallIrqHandler, Tx!Step
  <2> QED
    BY <1>0, <2>1, HandlerStep
<1>3. ASSUME UNCHANGED Tx!vars PROVE TxFlags' /\ TxFields' /\ TxParts'
  BY <1>0, <1>3
     DEF Tx!vars, Tx!usart, TxFlags, TxFields, TxParts, Places, Checked, Tx!SomebodySends,
         Tx!FlushReachesUsart, Held, Calling
<1>4. TxFlags' /\ TxFields' /\ TxParts'
  BY <1>0, <1>1, <1>2, <1>3, WriteSteps, FlushSteps, UsartSteps DEF Tx!Next, Tx!InCall
<1> QED
  BY <1>4 DEF TxInv, TxParts, Tx!TypeOK, TxFlags, TxFields

-----------------------------------------------------------------------------
(* The theorems about the transmitter. *)

\* The invariant: the place of every byte, and the checks that still hold when they are used.
THEOREM TxInvariance == Tx!Spec => []TxInv
BY TxStart, TxStep, PTL DEF Tx!Spec

\* The buffer never overflows and the registers hold bytes that were written.
THEOREM TxTypes == Tx!Spec => []Tx!TypeOK
<1>1. TxInv => Tx!TypeOK
  BY DEF TxInv
<1> QED
  BY <1>1, TxInvariance, PTL

\* Uart::write(), flush() and IrqHandler(): every byte goes out once and in
\* order, none is left in the buffer with nobody to send it, and flush()
\* returns when all have reached the shift register.
THEOREM TransmitsInOrder == Tx!Spec => []TransmitterSound
<1>1. TxInv => TransmitterSound
  BY PlacesInOrder DEF TxInv, TransmitterSound, Tx!TransmitterSound
<1> QED
  BY <1>1, TxInvariance, PTL
=============================================================================
