-------------------------- MODULE Bootloader_proofs --------------------------
(***************************************************************************)
(* Proofs about the bootloader.  The life cycle of the board, for every    *)
(* size of the flash and of a row, and any number of requests and resets.  *)
(* The transfers, for every size of a packet and length of the data, any   *)
(* range of the sequence number, and however many packets and answers are  *)
(* damaged or lost: both directions implement Transfer.  The USB port, for *)
(* all addresses and any number of requests, bus resets and packets: host  *)
(* and bootloader agree, and the packets are answered once and in their    *)
(* order.  The monitor, from Monitor_proofs.                               *)
(***************************************************************************)
EXTENDS Bootloader, FoldLemmas

-----------------------------------------------------------------------------
(* The invariant. *)

\* The countdown of a request that no tick overtook: it runs only after a
\* request that closed the port at 1200 bps, and ticks, or the register of the
\* tick that is under way, say how much of the delay is left.
Countdown ==
  /\ rate \in {hostRate, 0}
  /\ power # "running" => tick = "idle"
  /\ power = "running" /\ tick = "loaded" => loaded >= 1
  /\ power = "running" => ticks # 0
  /\ power = "running" /\ ~overtaken /\ tick = "idle" /\ ticks # -1 =>
       hostRate = TouchRate /\ ~dtr /\ ticks + age = Delay
  /\ power = "running" /\ ~overtaken /\ tick = "loaded" =>
       hostRate = TouchRate /\ ~dtr /\ loaded + age = Delay + 1 /\ ticks = loaded
  /\ power # "running" /\ ~overtaken => hostRate = TouchRate /\ ~dtr /\ age = Delay

\* The mark of the first tap is in the SRAM only after a reset that was no
\* power-on, and a reset that finds it is at least the second.
Tapped ==
  /\ magic => taps >= 1
  /\ mode = "start" /\ ~power_on => taps >= 1
  /\ mode = "start" /\ ~power_on /\ magic => taps = 2

\* How far the upload has come: nothing is written before all is erased, and
\* the pages are written in order.
Uploaded ==
  /\ session \in {"begin", "erased"}
  /\ mode # "monitor" => session = "begin"
  /\ session = "begin" => last = 0 /\ erasing = Pages
  /\ session = "erased" => erased
  /\ writing > 0 => erasing = Pages
  /\ session = "erased" =>
       \A p \in Page : /\ p < writing => flash[p] = "new"
                       /\ writing <= p /\ p < erasing => flash[p] = "erased"

\* What NeverMixed says of an application that starts holds in every state.
Unmixed ==
  \/ flash[0] = "erased"
  \/ \A p \in Page : flash[p] = "old"
  \/ \A p \in Page : flash[p] \in {"new", "erased"}

LInv == LTypeOK /\ Countdown /\ Tapped /\ Uploaded /\ Unmixed

\* What the assumptions say of each constant.
LEMMA SketchConstants ==
  Delay \in Nat /\ Delay >= 1 /\ MaxRequests \in Nat /\ MaxEnds \in Nat
BY DelayAssumption

\* The rate of the touch is not the rate before any request.
LEMMA Rates == TouchRate # 0 /\ FirstRate # 0 /\ TouchRate # FirstRate
BY DEF TouchRate, FirstRate

\* The constants of the upload are numbers.
LEMMA BootConstants ==
  Pages \in Nat /\ Pages >= 1 /\ RowPages \in Nat /\ RowPages >= 1 /\ MaxResets \in Nat
BY BootAssumption

-----------------------------------------------------------------------------
(* The sketch.  The provers reason apart about the flags and the rest. *)

Flags == dtr \in BOOLEAN /\ ending \in BOOLEAN /\ hostOpen \in BOOLEAN /\ overtaken \in BOOLEAN

Counters ==
  /\ rate \in Rate \cup {0} /\ hostRate \in Rate
  /\ ticks \in -1..Delay /\ loaded \in -1..Delay /\ age \in 0..Delay
  /\ tick \in {"idle", "loaded"} /\ power \in {"running", "erased", "reset"}
  /\ requests \in 0..MaxRequests /\ ends \in 0..MaxEnds

\* The types of the countdown, split for the provers.
LEMMA TypeParts == TypeOK <=> Flags /\ Counters
BY DEF TypeOK, Flags, Counters

\* A sketch that starts has no countdown.
LEMMA SketchStarts == Init => TypeOK /\ Countdown
<1> SUFFICES ASSUME Init PROVE TypeOK /\ Countdown
  OBVIOUS
<1>1. Flags
  BY Zenon DEF Init, Flags
<1>2. Counters
  BY SketchConstants DEF Init, Counters, Rate
<1>3. Countdown
  BY SketchConstants DEF Init, Countdown
<1> QED
  BY <1>1, <1>2, <1>3, TypeParts

\* A line request that is no touch cancels the countdown, one that is starts it
\* from the whole delay; in the middle of a tick the store forgets either.
LEMMA RequestStep ==
  ASSUME Flags, Counters, Countdown, HostRequest
  PROVE  Flags' /\ Counters' /\ Countdown'
<1>1. /\ power = "running" /\ power' = power /\ tick' = tick /\ loaded' = loaded
      /\ ends' = ends /\ ending' = ending /\ requests < MaxRequests /\ requests' = requests + 1
  BY DEF HostRequest, SetLineCoding, SetControlLineState, Request, handler, sketch
<1>2. Touch
  BY DEF HostRequest, SetLineCoding, SetControlLineState
<1>3. /\ dtr' \in BOOLEAN /\ hostOpen' \in BOOLEAN
      /\ rate' \in Rate \cup {0} /\ hostRate' \in Rate
      /\ rate' \in {hostRate', 0}
  <2>1. CASE \E r \in Rate : SetLineCoding(r)
    BY <2>1, Zenon DEF SetLineCoding, Flags
  <2>2. CASE \E d \in BOOLEAN : SetControlLineState(d)
    BY <2>2, Zenon DEF SetControlLineState, Flags, Counters, Countdown
  <2> QED
    BY <2>1, <2>2 DEF HostRequest
<1>4. overtaken' \in BOOLEAN /\ (tick = "loaded" => overtaken')
  BY <1>2, Zenon DEF Touch
<1>5. CASE rate' = TouchRate /\ ~dtr'
  <2>1. ticks' = Delay /\ age' = 0
    BY <1>2, <1>5 DEF Touch
  <2>2. Flags'
    BY <1>1, <1>3, <1>4, Zenon DEF Flags
  <2>3. Counters'
    BY <1>1, <1>3, <2>1, SketchConstants DEF Counters
  <2>4. Countdown'
    BY <1>1, <1>3, <1>4, <1>5, <2>1, SketchConstants, Rates DEF Countdown, Counters
  <2> QED
    BY <2>2, <2>3, <2>4
<1>6. CASE ~(rate' = TouchRate /\ ~dtr')
  <2>1. ticks' = -1 /\ age' = age
    BY <1>2, <1>6 DEF Touch
  <2>2. Flags'
    BY <1>1, <1>3, <1>4, Zenon DEF Flags
  <2>3. Counters'
    BY <1>1, <1>3, <2>1, SketchConstants DEF Counters
  <2>4. Countdown'
    BY <1>1, <1>3, <1>4, <2>1, SketchConstants DEF Countdown, Counters
  <2> QED
    BY <2>2, <2>3, <2>4
<1> QED
  BY <1>5, <1>6

\* The calls of end(), the ticks and the reset keep the countdown.
LEMMA SketchStep ==
  ASSUME TypeOK, Countdown, [Next]_vars
  PROVE  TypeOK' /\ Countdown'
<1>0. Flags /\ Counters
  BY TypeParts
<1> USE <1>0, SketchConstants DEF line, handler, sketch, host
<1>1. ASSUME HostRequest PROVE Flags' /\ Counters' /\ Countdown'
  BY <1>1, RequestStep
<1>2. ASSUME EndRate PROVE Flags' /\ Counters' /\ Countdown'
  <2>1. Flags'
    BY <1>2, Zenon DEF EndRate, Flags
  <2>2. Counters'
    BY <1>2 DEF EndRate, Counters
  <2>3. Countdown'
    BY <1>2 DEF EndRate, Countdown
  <2> QED
    BY <2>1, <2>2, <2>3
<1>3. ASSUME EndLineState PROVE Flags' /\ Counters' /\ Countdown'
  <2>1. Flags'
    BY <1>3, Zenon DEF EndLineState, Flags
  <2>2. Counters'
    BY <1>3 DEF EndLineState, Counters
  <2>3. Countdown'
    BY <1>3 DEF EndLineState, Countdown
  <2> QED
    BY <2>1, <2>2, <2>3
<1>4. ASSUME TickLoad PROVE Flags' /\ Counters' /\ Countdown'
  <2>1. Flags'
    BY <1>4, Zenon DEF TickLoad, Flags
  <2>2. Counters'
    BY <1>4 DEF TickLoad, Counters
  <2>3. Countdown'
    BY <1>4 DEF TickLoad, Counters, Countdown
  <2> QED
    BY <2>1, <2>2, <2>3
<1>5. ASSUME TickStore PROVE Flags' /\ Counters' /\ Countdown'
  <2>1. Flags'
    BY <1>5, Zenon DEF TickStore, Flags
  <2>2. Counters'
    BY <1>5 DEF TickStore, Counters, Countdown
  <2>3. Countdown'
    BY <1>5 DEF TickStore, Counters, Countdown
  <2> QED
    BY <2>1, <2>2, <2>3
<1>6. ASSUME SystemReset PROVE Flags' /\ Counters' /\ Countdown'
  <2>1. Flags'
    BY <1>6, Zenon DEF SystemReset, Flags
  <2>2. Counters'
    BY <1>6 DEF SystemReset, Counters
  <2>3. Countdown'
    BY <1>6 DEF SystemReset, Countdown
  <2> QED
    BY <2>1, <2>2, <2>3
<1>7. ASSUME UNCHANGED vars PROVE Flags' /\ Counters' /\ Countdown'
  BY <1>7 DEF vars, Flags, Counters, Countdown
<1>8. Flags' /\ Counters' /\ Countdown'
  BY <1>1, <1>2, <1>3, <1>4, <1>5, <1>6, <1>7 DEF Next, Tick
<1> QED
  BY <1>8 DEF TypeOK, Flags, Counters

-----------------------------------------------------------------------------
(* Rows of the flash. *)

\* A multiple leaves no remainder.
LEMMA Multiple ==
  ASSUME NEW a \in Nat, NEW d \in Nat, NEW k \in Int, d >= 1, a = d * k
  PROVE  a % d = 0
OBVIOUS

\* The row after one that ends before p, a multiple of the row, ends by p.
LEMMA WholeRows ==
  ASSUME NEW a \in Nat, NEW d \in Nat, NEW p \in Nat, d >= 1, a % d = 0, p % d = 0, a < p
  PROVE  a + d <= p /\ (a + d) % d = 0
<1> DEFINE k == a \div d
           l == p \div d
<1>1. k \in Int /\ l \in Int /\ a = d * k /\ p = d * l
  OBVIOUS
<1>2. (a + d) % d = 0
  <2>1. a + d = d * (k + 1)
    BY <1>1
  <2>2. QED
    <3> HIDE DEF k, l
    <3>1. k + 1 \in Int /\ a + d \in Nat
      BY <1>1
    <3> QED
      BY <2>1, <3>1, Multiple
<1>3. a + d <= p
  <2> HIDE DEF k, l
  <2>1. d * k < d * l
    BY <1>1
  <2>2. k < l
    BY <1>1, <2>1
  <2>3. d * l >= d * k + d
    BY <1>1, <2>2
  <2> QED
    BY <1>1, <2>3
<1> QED
  BY <1>2, <1>3

\* eraseFlash() ends exactly at the end of the application.
LEMMA RowsEnd ==
  ASSUME erasing \in Rows \cup {Pages}, erasing < Pages
  PROVE  /\ erasing + RowPages \in Rows \cup {Pages}
         /\ erasing + RowPages <= Pages
<1>1. erasing \in Nat /\ erasing % RowPages = 0 /\ Pages % RowPages = 0
  BY BootAssumption, BootConstants DEF Rows, Page
<1>2. erasing + RowPages <= Pages /\ (erasing + RowPages) % RowPages = 0
  BY <1>1, WholeRows, BootConstants
<1> QED
  BY <1>1, <1>2, BootConstants DEF Rows, Page

-----------------------------------------------------------------------------
(* The bootloader. *)

BootFlags == power_on \in BOOLEAN /\ magic \in BOOLEAN /\ secure \in BOOLEAN /\ erased \in BOOLEAN

Progress ==
  /\ mode \in {"start", "wait", "app", "monitor"}
  /\ flash \in [Page -> {"erased", "old", "new", "mixed"}]
  /\ erasing \in Rows \cup {Pages} /\ writing \in 0..last /\ last \in 0..Pages
  /\ session \in {"begin", "erased", "reset"} /\ resets \in 0..MaxResets /\ taps \in 0..2

\* The types of the bootloader, split for the provers.
LEMMA BootTypeParts == BootTypeOK <=> BootFlags /\ Progress
BY DEF BootTypeOK, BootFlags, Progress

BInv == BootFlags /\ Progress /\ Tapped /\ Uploaded /\ Unmixed

\* The bootloader's part of the invariant holds at power-up.
LEMMA BootStarts == BootInit => BInv
<1> SUFFICES ASSUME BootInit PROVE BInv
  OBVIOUS
<1>1. BootFlags
  BY Zenon DEF BootInit, BootFlags
<1>2. Progress
  BY BootConstants DEF BootInit, Progress, Page
<1>3. Tapped /\ Uploaded
  BY BootConstants DEF BootInit, Tapped, Uploaded
<1>4. Unmixed
  BY BootConstants DEF BootInit, Unmixed, Page
<1> QED
  BY <1>1, <1>2, <1>3, <1>4 DEF BInv

\* A reset, of whatever cause, begins the session again and leaves the flash.
LEMMA ResetStep ==
  ASSUME BInv, NEW por \in BOOLEAN, Restart(por), magic' \in {magic, FALSE}, ~por => magic' = magic,
         flash' = flash, resets' \in 0..MaxResets
  PROVE  BInv'
<1>1. BootFlags'
  BY Zenon DEF BInv, BootFlags, Restart
<1>2. Progress'
  BY BootConstants DEF BInv, Progress, Restart
<1>3. Tapped'
  <2>0. magic' = magic \/ magic' = FALSE
    OBVIOUS
  <2>1. (~power_on' => ~por) /\ (magic' => magic)
    BY <2>0 DEF Restart
  <2>2. CASE por
    BY <2>1, <2>2 DEF BInv, Progress, Tapped, Restart
  <2>3. CASE ~por
    BY <2>1, <2>3 DEF BInv, Progress, Tapped, Restart
  <2> QED
    BY <2>2, <2>3
<1>4. Uploaded'
  BY DEF BInv, Uploaded, Restart
<1>5. Unmixed'
  BY DEF BInv, Unmixed
<1> QED
  BY <1>1, <1>2, <1>3, <1>4, <1>5 DEF BInv

\* The decision at the start: the bootloader, or the application that is whole.
LEMMA StartStep ==
  ASSUME BInv, CheckStart \/ WaitOver
  PROVE  BInv'
<1>1. /\ UNCHANGED <<power_on, flash, secure, erasing, erased, writing, last, session, resets>>
      /\ mode' \in {"wait", "app", "monitor"} /\ mode # "monitor"
      /\ mode' = "monitor" => mode = "start" /\ taps' = taps
      /\ mode' = "app" => taps' = 0 /\ magic' = FALSE
      /\ mode' = "wait" => taps' = taps /\ mode = "start" /\ ~power_on
  BY DEF CheckStart, WaitOver, PowerOn, memory, busy
<1>2. magic' \in BOOLEAN /\ (mode' = "monitor" /\ magic' => magic)
  <2>1. mode' = "monitor" /\ magic' => magic
    BY DEF CheckStart, WaitOver, MarkTaken
  <2>2. magic' \in {magic, TRUE, FALSE}
    BY Zenon DEF CheckStart, WaitOver, MarkTaken
  <2> QED
    BY <2>1, <2>2, Zenon DEF BInv, BootFlags
<1>3. BootFlags'
  BY <1>1, <1>2, Zenon DEF BInv, BootFlags
<1>4. Progress'
  BY <1>1 DEF BInv, Progress
<1>5. Tapped'
  BY <1>1, <1>2 DEF BInv, Tapped
<1>6. Uploaded' /\ Unmixed'
  BY <1>1 DEF BInv, Uploaded, Unmixed
<1> QED
  BY <1>3, <1>4, <1>5, <1>6 DEF BInv

\* The rows before `erasing` are erased and those after it are not looked at:
\* the first row goes first.
LEMMA EraseRowStep == ASSUME BInv, EraseRow PROVE BInv'
<1>1. /\ UNCHANGED <<mode, power_on, magic, secure, erased, writing, last, session, resets, taps>>
      /\ mode = "monitor" /\ erasing < Pages /\ erasing' = erasing + RowPages
      /\ flash' = [p \in Page |-> IF p \in erasing .. erasing + RowPages - 1 THEN "erased" ELSE flash[p]]
  BY DEF EraseRow, RowErased
<1>2. erasing' \in Rows \cup {Pages} /\ erasing \in Nat /\ erasing' <= Pages
  BY <1>1, RowsEnd, BootConstants DEF BInv, Progress, Rows, Page
<1>3. session = "erased" /\ writing = 0
  BY <1>1, BootConstants DEF BInv, Uploaded, Progress
<1>4. flash' \in [Page -> {"erased", "old", "new", "mixed"}]
  BY <1>1 DEF BInv, Progress
<1>5. \A p \in Page : p < erasing' => flash'[p] = "erased"
  BY <1>1, <1>2, <1>3, BootConstants DEF BInv, Uploaded, Page
<1>6. BootFlags' /\ Tapped'
  BY <1>1 DEF BInv, BootFlags, Tapped
<1>7. Progress'
  BY <1>1, <1>2, <1>4 DEF BInv, Progress
<1>8. Uploaded'
  BY <1>1, <1>2, <1>3, <1>5, BootConstants DEF BInv, Uploaded, Page
<1>9. Unmixed'
  BY <1>1, <1>2, <1>5, BootConstants DEF Unmixed, Page
<1> QED
  BY <1>6, <1>7, <1>8, <1>9 DEF BInv

\* A page is written when all that are not yet written are erased.
LEMMA WritePageStep == ASSUME BInv, WritePage PROVE BInv'
<1>1. /\ UNCHANGED <<mode, power_on, magic, secure, erasing, erased, last, session, resets, taps>>
      /\ mode = "monitor" /\ erasing = Pages /\ writing < last /\ writing' = writing + 1
  BY DEF WritePage
<1>2. session = "erased" /\ writing \in Page /\ last \in 0..Pages
  BY <1>1, BootConstants DEF BInv, Uploaded, Progress, Page
<1>3. flash[writing] = "erased"
  BY <1>1, <1>2, BootConstants DEF BInv, Uploaded, Page
<1>4. flash' = [flash EXCEPT ![writing] = "new"]
  BY <1>2, <1>3 DEF WritePage, BInv, Progress
<1>5. flash' \in [Page -> {"erased", "old", "new", "mixed"}]
  BY <1>2, <1>4 DEF BInv, Progress
<1>6. \A p \in Page : flash'[p] = IF p < writing' THEN "new" ELSE "erased"
  BY <1>1, <1>2, <1>4, BootConstants DEF BInv, Uploaded, Progress, Page
<1>7. BootFlags' /\ Tapped'
  BY <1>1 DEF BInv, BootFlags, Tapped
<1>8. Progress'
  BY <1>1, <1>2, <1>5, BootConstants DEF BInv, Progress, Page
<1>9. Uploaded'
  BY <1>1, <1>2, <1>6, BootConstants DEF BInv, Uploaded, Page
<1>10. Unmixed'
  BY <1>6 DEF Unmixed
<1> QED
  BY <1>7, <1>8, <1>9, <1>10 DEF BInv

\* The commands of the host: nothing is written in a session that has erased nothing.
LEMMA CommandStep ==
  ASSUME BInv, HostErase \/ HostWrite \/ HostGivesUp
  PROVE  BInv'
<1>1. /\ UNCHANGED <<mode, power_on, magic, secure, flash, taps>>
      /\ mode = "monitor" /\ erasing = Pages /\ writing = last
      /\ resets' \in 0..MaxResets
  BY BootConstants DEF HostErase, HostWrite, HostGivesUp, Idle, memory, BInv, Progress
<1>2. CASE HostErase
  <2>1. session' = "erased" /\ erasing' = 0 /\ erased' = TRUE /\ writing' = 0 /\ last' = 0
    BY <1>2 DEF HostErase, EraseFlash
  <2>2. BootFlags'
    BY <1>1, <2>1, Zenon DEF BInv, BootFlags
  <2>3. 0 \in Rows
    BY BootConstants, Multiple DEF Rows, Page
  <2>4. Progress'
    BY <1>1, <2>1, <2>3, BootConstants DEF BInv, Progress
  <2>5. Tapped' /\ Unmixed'
    BY <1>1 DEF BInv, Tapped, Unmixed
  <2>6. Uploaded'
    BY <1>1, <2>1 DEF Uploaded, Page
  <2> QED
    BY <2>2, <2>4, <2>5, <2>6 DEF BInv
<1>3. CASE HostWrite /\ MustErase
  <2>1. /\ session' = "erased" /\ erasing' = 0 /\ erased' = TRUE
        /\ writing' = last /\ last' \in last + 1 .. Pages
    BY <1>3 DEF HostWrite, EraseFlash
  <2>2. last = 0
    BY <1>3 DEF BInv, Uploaded, MustErase
  <2>3. BootFlags'
    BY <1>1, <2>1, Zenon DEF BInv, BootFlags
  <2>4. 0 \in Rows
    BY BootConstants, Multiple DEF Rows, Page
  <2>5. Progress'
    BY <1>1, <2>1, <2>2, <2>4, BootConstants DEF BInv, Progress
  <2>6. Tapped' /\ Unmixed'
    BY <1>1 DEF BInv, Tapped, Unmixed
  <2>7. Uploaded'
    BY <1>1, <2>1, <2>2 DEF Uploaded, Page
  <2> QED
    BY <2>3, <2>5, <2>6, <2>7 DEF BInv
<1>4. CASE HostWrite /\ ~MustErase
  <2>1. /\ session = "erased" /\ session' = "erased" /\ UNCHANGED <<erasing, erased>>
        /\ writing' = last /\ last' \in last + 1 .. Pages
    BY <1>4 DEF HostWrite
  <2>2. BootFlags'
    BY <1>1, <2>1 DEF BInv, BootFlags
  <2>3. Progress'
    BY <1>1, <2>1, BootConstants DEF BInv, Progress
  <2>4. Tapped' /\ Unmixed'
    BY <1>1 DEF BInv, Tapped, Unmixed
  <2>5. Uploaded'
    BY <1>1, <2>1 DEF BInv, Uploaded
  <2> QED
    BY <2>2, <2>3, <2>4, <2>5 DEF BInv
<1>5. CASE HostGivesUp
  <2>1. session' = "begin" /\ writing' = 0 /\ last' = 0 /\ UNCHANGED <<erasing, erased>>
    BY <1>5 DEF HostGivesUp
  <2>2. BootFlags'
    BY <1>1, <2>1 DEF BInv, BootFlags
  <2>3. Progress'
    BY <1>1, <2>1, BootConstants DEF BInv, Progress
  <2>4. Tapped' /\ Unmixed'
    BY <1>1 DEF BInv, Tapped, Unmixed
  <2>5. Uploaded'
    BY <1>1, <2>1 DEF BInv, Uploaded
  <2> QED
    BY <2>2, <2>3, <2>4, <2>5 DEF BInv
<1> QED
  BY <1>2, <1>3, <1>4, <1>5

\* Every step of the bootloader, and every reset.
LEMMA BootStepInv == ASSUME BInv, BootNext PROVE BInv'
<1>1. CASE CheckStart \/ WaitOver
  BY <1>1, StartStep
<1>2. CASE EraseRow
  BY <1>2, EraseRowStep
<1>3. CASE WritePage
  BY <1>3, WritePageStep
<1>4. CASE HostErase \/ HostWrite \/ HostGivesUp
  BY <1>4, CommandStep
<1>5. CASE HostReset
  <2>1. Restart(FALSE) /\ magic' = magic /\ flash' = flash /\ resets' = resets
    BY <1>5 DEF HostReset, SoftReset
  <2>2. resets' \in 0..MaxResets
    BY <2>1 DEF BInv, Progress
  <2> QED
    BY <2>1, <2>2, ResetStep
<1>6. CASE Press
  <2>1. Restart(FALSE) /\ magic' = magic /\ flash' = flash
    BY <1>6 DEF Press
  <2>2. resets' \in 0..MaxResets
    BY <1>6, BootConstants DEF Press, BInv, Progress
  <2> QED
    BY <2>1, <2>2, ResetStep
<1>7. CASE PowerFailure
  <2>1. Restart(TRUE) /\ magic' \in {magic, FALSE} /\ flash' = flash
    BY <1>7 DEF PowerFailure
  <2>2. resets' \in 0..MaxResets
    BY <1>7, BootConstants DEF PowerFailure, BInv, Progress
  <2> QED
    BY <2>1, <2>2, ResetStep
<1> QED
  BY <1>1, <1>2, <1>3, <1>4, <1>5, <1>6, <1>7 DEF BootNext, BootStep, Monitor

\* What the sketch does to the flash: banzai() erases the row of the vectors.
LEMMA BanzaiStep ==
  ASSUME BInv, mode = "app", flash' \in {flash, Banzai},
         UNCHANGED <<mode, power_on, magic, secure, busy, session, resets, taps>>
  PROVE  BInv'
<1>1. Banzai \in [Page -> {"erased", "old", "new", "mixed"}] /\ Banzai[0] = "erased"
  BY BootConstants DEF Banzai, BInv, Progress, Page
<1>2. session = "begin"
  BY DEF BInv, Uploaded
<1>3. BootFlags' /\ Tapped'
  BY DEF BInv, BootFlags, Tapped, busy
<1>4. Progress' /\ Unmixed'
  BY <1>1 DEF BInv, Progress, Unmixed, busy
<1>5. Uploaded'
  BY <1>2 DEF BInv, Uploaded, busy
<1> QED
  BY <1>3, <1>4, <1>5 DEF BInv

-----------------------------------------------------------------------------
(* The theorems. *)

\* The invariant is its two parts, the sketch's and the bootloader's.
LEMMA LInvParts == LInv <=> TypeOK /\ Countdown /\ BInv
BY BootTypeParts DEF LInv, LTypeOK, BInv

\* Every step of the sketch, the bootloader and the power keeps the invariant.
LEMMA LStep == LInv /\ [LNext]_lvars => LInv'
<1> SUFFICES ASSUME LInv, [LNext]_lvars PROVE LInv'
  OBVIOUS
<1>0. TypeOK /\ Countdown /\ BInv
  BY LInvParts
<1>1. ASSUME Sketch PROVE TypeOK' /\ Countdown' /\ BInv'
  <2>1. [Next]_vars
    BY <1>1 DEF Sketch, Next
  <2>2. BInv'
    BY <1>0, <1>1, BanzaiStep DEF Sketch
  <2> QED
    BY <1>0, <2>1, <2>2, SketchStep
<1>2. ASSUME TouchReset PROVE TypeOK' /\ Countdown' /\ BInv'
  <2>1. [Next]_vars
    BY <1>2 DEF TouchReset, Next
  <2>2. Restart(FALSE) /\ magic' = magic /\ flash' = flash /\ resets' = resets
    BY <1>2 DEF TouchReset, SoftReset
  <2>3. resets' \in 0..MaxResets
    BY <1>0, <2>2 DEF BInv, Progress
  <2>4. BInv'
    BY <1>0, <2>2, <2>3, ResetStep
  <2> QED
    BY <1>0, <2>1, <2>4, SketchStep
<1>3. ASSUME BootPart PROVE TypeOK' /\ Countdown' /\ BInv'
  <2>1. BInv'
    BY <1>0, <1>3, BootStepInv DEF BootPart
  <2>2. CASE StartSketch
    <3>1. Flags'
      BY <2>2, Zenon DEF StartSketch, Flags
    <3>2. Counters'
      BY <2>2, SketchConstants DEF StartSketch, Counters, Rate
    <3>3. Countdown'
      BY <2>2, SketchConstants DEF StartSketch, Countdown
    <3> QED
      BY <2>1, <3>1, <3>2, <3>3 DEF TypeOK, Flags, Counters
  <2>3. CASE UNCHANGED vars
    BY <1>0, <2>1, <2>3, SketchStep
  <2> QED
    BY <1>3, <2>2, <2>3 DEF BootPart
<1>4. ASSUME UNCHANGED lvars PROVE TypeOK' /\ Countdown' /\ BInv'
  <2>1. UNCHANGED vars /\ UNCHANGED bvars
    BY <1>4 DEF lvars
  <2>2. BInv'
    BY <1>0, <2>1 DEF bvars, memory, busy, BInv, BootFlags, Progress, Tapped, Uploaded, Unmixed
  <2> QED
    BY <1>0, <2>1, <2>2, SketchStep
<1>5. TypeOK' /\ Countdown' /\ BInv'
  BY <1>1, <1>2, <1>3, <1>4 DEF LNext
<1>6. BootTypeOK'
  BY <1>5 DEF BInv, BootFlags, Progress, BootTypeOK
<1> QED
  BY <1>5, <1>6 DEF LInv, LTypeOK, BInv

\* The invariant holds from power-up on, whatever resets come.
THEOREM CycleInvariance == LSpec => []LInv
<1>1. LInit => LInv
  BY SketchStarts, BootStarts, LInvParts DEF LInit
<1> QED
  BY <1>1, LStep, PTL DEF LSpec

\* Every variable of the sketch's countdown, of the start decision and of the
\* upload stays in its type.
THEOREM CycleTypes == LSpec => []LTypeOK
<1>1. LInv => LTypeOK
  BY DEF LInv
<1> QED
  BY <1>1, CycleInvariance, PTL

\* tickReset() and Serial_::setup(): the application is erased only while the
\* port is closed at 1200 bps and after the whole delay, unless the last
\* request came in the middle of a tick.
THEOREM ErasureWaits == LSpec => []ErasedAfterDelay
<1>1. LInv => ErasedAfterDelay
  <2> SUFFICES ASSUME LInv PROVE ErasedAfterDelay
    OBVIOUS
  <2>1. Flags /\ Countdown
    BY TypeParts DEF LInv, LTypeOK
  <2>2. ErasedOnlyIfClosed
    BY <2>1 DEF Countdown, ErasedOnlyIfClosed, Closed
  <2>3. WholeDelay
    BY <2>1 DEF Countdown, WholeDelay
  <2> QED
    BY <2>2, <2>3 DEF ErasedAfterDelay
<1> QED
  BY <1>1, CycleInvariance, PTL

\* eraseFlash() takes the vectors first and Y writes in order: wherever a reset
\* interrupts an upload, an application that starts is not a mixture.
THEOREM ApplicationWhole == LSpec => []NeverMixed
<1>1. LInv => NeverMixed
  BY DEF LInv, Unmixed, NeverMixed, Vectors
<1> QED
  BY <1>1, CycleInvariance, PTL

\* check_start_application(): with an application in flash the bootloader stays
\* only after a second reset, whatever the SRAM still holds.
THEOREM TwoTaps == LSpec => OnlyTwoTaps
<1>1. LInv /\ [LNext]_lvars => [mode = "start" /\ mode' = "monitor" /\ Vectors => taps = 2]_bvars
  <2> SUFFICES ASSUME LInv, [LNext]_lvars, mode = "start", mode' = "monitor", Vectors
               PROVE  taps = 2
    OBVIOUS
  <2>1. BootNext
    BY DEF LNext, lvars, bvars, Sketch, TouchReset, SoftReset, Restart, BootPart
  <2>2. CheckStart
    BY <2>1 DEF BootNext, BootStep, WaitOver, Monitor, EraseRow, WritePage, HostErase, HostWrite,
                HostReset, HostGivesUp, Idle, Press, PowerFailure, Restart
  <2>3. ~power_on /\ magic
    BY <2>2 DEF CheckStart, PowerOn
  <2> QED
    BY <2>3 DEF LInv, Tapped
<1> QED
  BY <1>1, CycleInvariance, PTL DEF LSpec, OnlyTwoTaps

-----------------------------------------------------------------------------
(* Sending: the invariant of XmodemSend. *)

\* n is a number of bytes that makes whole blocks.
Whole(n) == n = (n \div PktLen) * PktLen

\* The host has what the device knows it has, or one packet more, and the
\* sequence numbers of the two say which.
OneBehind ==
  /\ put_received \in Seq(Nat) /\ Whole(put_ptr_data) /\ Whole(Len(put_received))
  /\ put_ptr_data + put_length = Put!Rounded(Total)
  /\ \/ Len(put_received) = put_ptr_data /\ put_seq = put_sno
     \/ Len(put_received) = put_ptr_data + PktLen /\ put_seq = (put_sno + 1) % SnoMod
            /\ put_length > 0

\* What can be on the line at each place of serial_putdata_xmd().
OnTheLine ==
  /\ put_pc = "sync" => put_ptr_data = 0 /\ put_received = <<>> /\ put_toHost.kind = "none"
  /\ put_pc = "packet" => put_length > 0
  /\ put_pc = "eot" \/ (put_pc = "return" /\ put_result = 1) => put_length = 0
  /\ put_hostState = "idle" => put_pc = "sync" /\ put_toDevice = "none"
  /\ put_toHost.kind = "packet" =>
       /\ put_pc = "packet" /\ put_toHost.sno = put_sno
       /\ put_toHost.data \in Seq(Nat) /\ Len(put_toHost.data) = PktLen
  /\ put_toHost.kind = "EOT" => put_pc = "eot"
  /\ put_pc = "packet" /\ put_toDevice = "ACK" => Len(put_received) # put_ptr_data
  /\ put_toDevice # "none" => put_toHost.kind = "none"

Datum(k) == IF k <= Total THEN k ELSE 0

\* What size_of_data is as long as no packet was sent twice.
Remaining(n) == IF n < Total THEN Total - n ELSE 0

\* Without a repeated packet the payload is the data, also on the line, if size_of_data holds
\* the length.
Exact ==
  put_repeated \/ ~SizeHolds \/
    /\ \A k \in 1..Len(put_received) : put_received[k] = Datum(k)
    /\ put_pc = "sync" => put_size_of_data = Remaining(put_ptr_data)
    /\ put_pc = "packet" => put_size_of_data = Remaining(put_ptr_data + PktLen)
    /\ put_toHost.kind = "packet"
           => \A k \in 1..PktLen : put_toHost.data[k] = Datum(put_ptr_data + k)

SendInv == Put!TypeOK /\ OneBehind /\ OnTheLine /\ Exact

-----------------------------------------------------------------------------
(* Whole blocks. *)

\* k blocks are k blocks.
LEMMA Blockwise ==
  ASSUME NEW p \in Nat \ {0}, NEW k \in Nat
  PROVE  (k * p) \div p = k /\ k * p \in Nat
OBVIOUS

\* One block more.
LEMMA NextBlock ==
  ASSUME PktLen \in Nat \ {0}, NEW n \in Nat, Whole(n)
  PROVE  Whole(n + PktLen) /\ (n + PktLen) \div PktLen = (n \div PktLen) + 1
<1> DEFINE k == n \div PktLen
<1>1. k \in Nat /\ n = k * PktLen
  BY DEF Whole
<1> HIDE DEF k
<1>2. n + PktLen = (k + 1) * PktLen /\ k + 1 \in Nat
  BY <1>1
<1>3. (n + PktLen) \div PktLen = k + 1
  BY <1>2, Blockwise
<1> QED
  BY <1>2, <1>3 DEF Whole, k

\* Between two whole numbers of blocks there is one block at least.
LEMMA BlocksApart ==
  ASSUME PktLen \in Nat \ {0}, NEW n \in Nat, NEW m \in Nat, Whole(n), Whole(m), n < m
  PROVE  n + PktLen <= m /\ n \div PktLen < m \div PktLen
<1> DEFINE k == n \div PktLen
           l == m \div PktLen
<1>1. k \in Nat /\ l \in Nat /\ n = k * PktLen /\ m = l * PktLen
  BY DEF Whole
<1> HIDE DEF k, l
<1>2. k < l
  BY <1>1
<1>3. l * PktLen >= k * PktLen + PktLen
  BY <1>1, <1>2
<1> QED
  BY <1>1, <1>2, <1>3 DEF k, l

\* The length is rounded up to the next whole number of blocks.
LEMMA RoundedUp ==
  ASSUME PktLen \in Nat \ {0}, NEW n \in Nat \ {0}

  PROVE  /\ Put!Rounded(n) \in Nat /\ Whole(Put!Rounded(n))
         /\ n <= Put!Rounded(n) /\ Put!Rounded(n) < n + PktLen
<1> DEFINE k == n \div PktLen
           r == n % PktLen
<1>1. k \in Nat /\ r \in Nat /\ r < PktLen /\ n = k * PktLen + r
  OBVIOUS
<1>2. Put!Rounded(n) = IF r # 0 THEN n + PktLen - r ELSE n
  BY DEF Put!Rounded
<1> HIDE DEF k, r
<1>3. CASE r = 0
  <2>1. Put!Rounded(n) = k * PktLen
    BY <1>1, <1>2, <1>3
  <2> QED
    BY <1>1, <1>2, <1>3, <2>1, Blockwise DEF Whole
<1>4. CASE r # 0
  <2>1. Put!Rounded(n) = (k + 1) * PktLen /\ k + 1 \in Nat
    BY <1>1, <1>2, <1>4
  <2>2. Put!Rounded(n) \div PktLen = k + 1
    BY <2>1, Blockwise
  <2> QED
    BY <1>1, <1>2, <1>4, <2>1, <2>2 DEF Whole
<1> QED
  BY <1>3, <1>4

\* A number below the modulus is its own remainder.
LEMMA Small == ASSUME NEW m \in Nat \ {0}, NEW n \in 0..(m - 1) PROVE n % m = n
OBVIOUS

\* The next number is another one.
LEMMA NextNumber ==
  ASSUME NEW m \in Nat, m > 1, NEW n \in 0..(m - 1)
  PROVE  (n + 1) % m \in 0..(m - 1) /\ (n + 1) % m # n
<1>1. CASE n + 1 < m
  <2>1. n + 1 \in 0..(m - 1)
    BY <1>1
  <2>2. (n + 1) % m = n + 1
    BY <2>1, Small
  <2> QED
    BY <2>1, <2>2
<1>2. CASE n + 1 = m
  <2>1. m % m = 0
    OBVIOUS
  <2> QED
    BY <1>2, <2>1
<1> QED
  BY <1>1, <1>2

\* Division is unique.
LEMMA DivMod ==
  ASSUME NEW m \in Nat \ {0}, NEW q \in Nat, NEW r \in 0..(m - 1)
  PROVE  (q * m + r) % m = r
<1> DEFINE x == q * m + r
           k == x \div m
           j == x % m
<1>1. x \in Nat
  OBVIOUS
<1> HIDE DEF x
<1>2. k \in Nat /\ j \in 0..(m - 1) /\ x = k * m + j
  BY <1>1
<1> HIDE DEF k, j
<1>3. k * m + j = q * m + r
  BY <1>2 DEF x
<1>4. k < q => k * m + m <= q * m
  BY <1>2
<1>5. q < k => q * m + m <= k * m
  BY <1>2
<1>6. k = q
  BY <1>2, <1>3, <1>4, <1>5
<1> QED
  BY <1>3, <1>6, <1>2 DEF j, x

\* The remainder of the next number is the next remainder.
LEMMA ModNext ==
  ASSUME NEW m \in Nat \ {0}, NEW n \in Nat
  PROVE  (n + 1) % m = ((n % m) + 1) % m /\ n % m \in 0..(m - 1)
<1> DEFINE q == n \div m
           r == n % m
<1>1. q \in Nat /\ r \in 0..(m - 1) /\ n = q * m + r
  OBVIOUS
<1> HIDE DEF q, r
<1>2. CASE r + 1 < m
  <2>1. r + 1 \in 0..(m - 1) /\ n + 1 = q * m + (r + 1)
    BY <1>1, <1>2
  <2>2. (n + 1) % m = r + 1
    BY <1>1, <2>1, DivMod
  <2>3. (r + 1) % m = r + 1
    BY <2>1, Small
  <2> QED
    BY <1>1, <2>2, <2>3 DEF r
<1>3. CASE r + 1 = m
  <2>1. n + 1 = (q + 1) * m + 0 /\ q + 1 \in Nat /\ 0 \in 0..(m - 1)
    BY <1>1, <1>3
  <2>2. (n + 1) % m = 0
    BY <2>1, DivMod
  <2>3. m % m = 0
    OBVIOUS
  <2> QED
    BY <1>1, <1>3, <2>2, <2>3 DEF r
<1> QED
  BY <1>1, <1>2, <1>3

-----------------------------------------------------------------------------
(* The parts of the steps. *)

Fields ==
  /\ put_pc \in {"sync", "packet", "eot", "return"} /\ put_result \in {-1, 0, 1}
  /\ put_sno \in 0..SnoMod - 1 /\ put_length \in 0..LengthMod - 1
  /\ put_ptr_data \in 0..Put!Rounded(Total) /\ put_size_of_data \in 0..SizeMod - 1
  /\ put_toDevice \in Put!Answers \cup {"none"}
  /\ put_seq \in 0..SnoMod - 1 /\ Len(put_received) <= Put!Rounded(Total)
  /\ put_hostState \in {"idle", "open", "closed"}
  /\ put_faults \in 0..MaxFaults

Sound == OneBehind /\ OnTheLine /\ Exact

\* Type correctness, split for the provers.
LEMMA SendTypeParts == Put!TypeOK <=> Fields /\ put_repeated \in BOOLEAN
BY DEF Put!TypeOK, Fields

\* The length that is rounded up fits into its type.
LEMMA SendConstants ==
  ASSUME Put!SendAssumption
  PROVE  /\ PktLen \in Nat \ {0} /\ SnoMod \in Nat /\ SnoMod > 1 /\ MaxFaults \in Nat
         /\ Total \in Nat \ {0} /\ LengthMod \in Nat \ {0} /\ SizeMod \in Nat \ {0}
         /\ Put!Rounded(Total) \in Nat /\ Whole(Put!Rounded(Total)) /\ Total <= Put!Rounded(Total)
         /\ Put!Rounded(Total) < Total + PktLen /\ Put!Rounded(Total) < LengthMod
<1>1. /\ PktLen \in Nat \ {0} /\ SnoMod \in Nat /\ SnoMod > 1 /\ MaxFaults \in Nat
      /\ Total \in Nat \ {0} /\ LengthMod \in Nat /\ LengthMod >= Total + PktLen
      /\ SizeMod \in Nat \ {0}
  BY DEF Put!SendAssumption
<1>2. /\ Put!Rounded(Total) \in Nat /\ Whole(Put!Rounded(Total)) /\ Total <= Put!Rounded(Total)
      /\ Put!Rounded(Total) < Total + PktLen
  BY <1>1, RoundedUp
<1> QED
  BY <1>1, <1>2

\* What putPacket() sends and what is left after it.
LEMMA Packet ==
  ASSUME PktLen \in Nat \ {0}, Total \in Nat, NEW p \in Nat, NEW z \in Nat
  PROVE  /\ Put!Payload(p, z) \in Seq(Nat) /\ Len(Put!Payload(p, z)) = PktLen
         /\ (IF z > PktLen THEN z - PktLen ELSE 0) \in 0..z
         /\ z = Remaining(p) =>
              /\ \A k \in 1..PktLen : Put!Payload(p, z)[k] = Datum(p + k)
              /\ (IF z > PktLen THEN z - PktLen ELSE 0) = Remaining(p + PktLen)
<1>1. \A k \in 1..PktLen : (IF k <= z THEN p + k ELSE 0) \in Nat
  OBVIOUS
<1>2. Put!Payload(p, z) \in Seq(Nat) /\ Len(Put!Payload(p, z)) = PktLen
  BY <1>1 DEF Put!Payload
<1>3. ASSUME z = Remaining(p), NEW k \in 1..PktLen PROVE Put!Payload(p, z)[k] = Datum(p + k)
  <2>1. Put!Payload(p, z)[k] = IF k <= z THEN p + k ELSE 0
    BY DEF Put!Payload
  <2>2. k <= z <=> p + k <= Total
    BY <1>3 DEF Remaining
  <2> QED
    BY <2>1, <2>2 DEF Datum
<1>4. z = Remaining(p) => (IF z > PktLen THEN z - PktLen ELSE 0) = Remaining(p + PktLen)
  BY DEF Remaining
<1>5. (IF z > PktLen THEN z - PktLen ELSE 0) \in 0..z
  OBVIOUS
<1> QED
  BY <1>2, <1>3, <1>4, <1>5

\* The packet is on the line after putPacket().
LEMMA PutPacketFacts ==
  ASSUME Put!SendAssumption, Fields, put_ptr_data' \in Nat, Put!PutPacket

  PROVE  /\ put_toHost'.kind = "packet" /\ put_toHost'.sno = put_sno'
         /\ put_pc' = "packet" /\ put_result' = put_result
         /\ put_toHost'.data \in Seq(Nat) /\ Len(put_toHost'.data) = PktLen
         /\ put_size_of_data' \in 0..SizeMod - 1
         /\ put_size_of_data = Remaining(put_ptr_data') =>
              /\ \A k \in 1..PktLen : put_toHost'.data[k] = Datum(put_ptr_data' + k)
              /\ put_size_of_data' = Remaining(put_ptr_data' + PktLen)
<1>1. /\ put_toHost'.kind = "packet" /\ put_toHost'.sno = put_sno' /\ put_pc' = "packet"
      /\ put_result' = put_result
      /\ put_toHost'.data = Put!Payload(put_ptr_data', put_size_of_data)
      /\ put_size_of_data' = IF put_size_of_data > PktLen THEN put_size_of_data - PktLen ELSE 0
  BY DEF Put!PutPacket
<1>2. /\ PktLen \in Nat \ {0} /\ Total \in Nat
      /\ SizeMod \in Nat \ {0} /\ put_size_of_data \in 0..SizeMod - 1
  BY SendConstants DEF Fields
<1> DEFINE p == put_ptr_data'
           z == put_size_of_data
<1>3. /\ Put!Payload(p, z) \in Seq(Nat) /\ Len(Put!Payload(p, z)) = PktLen
      /\ (IF z > PktLen THEN z - PktLen ELSE 0) \in 0..z
      /\ z = Remaining(p) =>
           /\ \A k \in 1..PktLen : Put!Payload(p, z)[k] = Datum(p + k)
           /\ (IF z > PktLen THEN z - PktLen ELSE 0) = Remaining(p + PktLen)
  <2>1. p \in Nat /\ z \in Nat
    BY <1>2
  <2> HIDE DEF p, z
  <2> QED
    BY <1>2, <2>1, Packet
<1>4. put_size_of_data' \in 0..SizeMod - 1
  BY <1>1, <1>2, <1>3
<1> QED
  BY <1>1, <1>3, <1>4

-----------------------------------------------------------------------------
(* The steps. *)

Kept == Fields' /\ put_repeated' \in BOOLEAN /\ Sound'

\* The transfer begins.
LEMMA SendStart == ASSUME Put!SendAssumption, Put!Init
                   PROVE  Fields /\ put_repeated \in BOOLEAN /\ Sound
<1>1. /\ put_pc = "sync" /\ put_result = -1 /\ put_sno = 1 /\ put_length = Put!Rounded(Total)
      /\ put_ptr_data = 0
      /\ put_size_of_data = Total % SizeMod /\ put_toHost.kind = "none" /\ put_toDevice = "none"
      /\ put_seq = 1
      /\ put_received = <<>> /\ put_hostState = "idle" /\ put_faults = 0
  BY DEF Put!Init, Put!Signal
<1>2. put_repeated \in BOOLEAN
  BY Zenon DEF Put!Init
<1>3. Len(<<>>) = 0 /\ <<>> \in Seq(Nat)
  BY EmptySeq
<1>4. Whole(0)
  BY SendConstants, Blockwise DEF Whole
<1>5. put_size_of_data \in 0..SizeMod - 1 /\ (SizeHolds => put_size_of_data = Total)
  <2>1. Total \in Nat \ {0} /\ SizeMod \in Nat \ {0}
    BY SendConstants
  <2>2. SizeHolds => Total \in 0..(SizeMod - 1)
    BY <2>1 DEF SizeHolds
  <2> QED
    BY <1>1, <2>1, <2>2, Small
<1>9. Fields
  BY <1>1, <1>3, <1>5, SendConstants DEF Fields, Put!Answers
<1>6. OneBehind
  BY <1>1, <1>3, <1>4, SendConstants DEF OneBehind
<1>7. OnTheLine
  BY <1>1 DEF OnTheLine
<1>8. Exact
  BY <1>1, <1>3, <1>5, SendConstants DEF Exact, Remaining
<1> QED
  BY <1>2, <1>6, <1>7, <1>8, <1>9 DEF Sound

\* The first packet, or none.
LEMMA SyncStep ==
  ASSUME Put!SendAssumption, Fields, put_repeated \in BOOLEAN, Sound, Put!Sync
  PROVE  Kept
<1>1. /\ put_pc = "sync" /\ put_toDevice' = "none"
      /\ UNCHANGED <<put_sno, put_length, put_ptr_data, put_seq, put_received, put_hostState,
                     put_faults, put_repeated>>
  BY DEF Put!Sync, Put!host
<1>2. /\ put_ptr_data = 0 /\ put_received = <<>> /\ put_toHost.kind = "none"
      /\ put_hostState # "idle"
      /\ put_length = Put!Rounded(Total) /\ put_length > 0 /\ PktLen \in Nat
      /\ Len(put_received) = 0 /\ put_received \in Seq(Nat)
  BY <1>1, SendConstants, EmptySeq DEF Put!Sync, Sound, OnTheLine, OneBehind, Fields
<1>3. CASE put_toDevice \in {"NAK", "C"}
  <2>1. Put!PutPacket /\ put_ptr_data' = 0
    BY <1>1, <1>2, <1>3 DEF Put!Sync
  <2>2. /\ put_toHost'.kind = "packet" /\ put_toHost'.sno = put_sno' /\ put_pc' = "packet"
        /\ put_result' = put_result
        /\ put_toHost'.data \in Seq(Nat) /\ Len(put_toHost'.data) = PktLen
        /\ put_size_of_data' \in 0..SizeMod - 1
        /\ put_size_of_data = Remaining(0) =>
             /\ \A k \in 1..PktLen : put_toHost'.data[k] = Datum(0 + k)
             /\ put_size_of_data' = Remaining(0 + PktLen)
    BY <2>1, PutPacketFacts
  <2>3. Fields'
    BY <1>1, <2>2 DEF Fields
  <2>4. OneBehind'
    BY <1>1 DEF Sound, OneBehind
  <2>5. OnTheLine'
    BY <1>1, <1>2, <2>2 DEF OnTheLine
  <2>6. Exact'
    BY <1>1, <1>2, <2>2 DEF Sound, Exact
  <2> QED
    BY <1>1, <2>3, <2>4, <2>5, <2>6 DEF Kept, Sound
<1>4. CASE put_toDevice \notin {"NAK", "C"}
  <2>1. /\ UNCHANGED <<put_size_of_data, put_toHost>>
        /\ (put_pc' = "return" /\ put_result' = 0)
               \/ (put_pc' = put_pc /\ put_result' = put_result)
    BY <1>4 DEF Put!Sync, Put!Return
  <2>2. Fields'
    BY <1>1, <2>1 DEF Fields
  <2>3. OneBehind'
    BY <1>1 DEF Sound, OneBehind
  <2>4. OnTheLine'
    BY <1>1, <1>2, <2>1 DEF OnTheLine
  <2>5. Exact'
    BY <1>1, <1>2, <2>1 DEF Sound, Exact
  <2> QED
    BY <1>1, <2>2, <2>3, <2>4, <2>5 DEF Kept, Sound
<1> QED
  BY <1>3, <1>4

\* The host knows the packet: the next one, or the end.
LEMMA AckStep ==
  ASSUME Put!SendAssumption, Fields, put_repeated \in BOOLEAN, Sound,
         Put!GetAnswer, put_toDevice = "ACK"
  PROVE  Kept
<1>1. /\ put_pc = "packet" /\ put_toDevice' = "none" /\ put_sno' = (put_sno + 1) % SnoMod
      /\ put_length' = (put_length - PktLen) % LengthMod /\ put_ptr_data' = put_ptr_data + PktLen
      /\ UNCHANGED <<put_seq, put_received, put_hostState, put_faults, put_repeated>>
  BY DEF Put!GetAnswer, Put!Answered, Put!host
<1>2. /\ PktLen \in Nat \ {0} /\ SnoMod \in Nat /\ SnoMod > 1 /\ LengthMod \in Nat \ {0}
      /\ Put!Rounded(Total) \in Nat /\ Whole(Put!Rounded(Total)) /\ Put!Rounded(Total) < LengthMod
      /\ Total \in Nat
  BY SendConstants
<1>3. /\ put_ptr_data \in Nat /\ Whole(put_ptr_data) /\ put_length \in Nat /\ put_length > 0
      /\ put_ptr_data + put_length = Put!Rounded(Total) /\ put_hostState # "idle"
      /\ Len(put_received) = put_ptr_data + PktLen /\ put_seq = (put_sno + 1) % SnoMod
      /\ put_received \in Seq(Nat) /\ Whole(Len(put_received))
  BY <1>1, <1>2 DEF Sound, OneBehind, OnTheLine, Fields
<1>4. put_ptr_data + PktLen <= Put!Rounded(Total)
  BY <1>2, <1>3, BlocksApart
<1>5. put_length' = put_length - PktLen /\ put_length' \in 0..LengthMod - 1
  <2>1. put_length - PktLen \in 0..(LengthMod - 1)
    BY <1>2, <1>3, <1>4
  <2> QED
    BY <1>1, <1>2, <2>1, Small
<1>6. Whole(put_ptr_data + PktLen)
  BY <1>2, <1>3, NextBlock
<1>7. OneBehind'
  <2>1. Whole(put_ptr_data)' /\ Whole(Len(put_received))'
    BY <1>1, <1>3, <1>6 DEF Whole
  <2>2. (put_received \in Seq(Nat))' /\ (Len(put_received) = put_ptr_data /\ put_seq = put_sno)'
    BY <1>1, <1>3
  <2>3. (put_ptr_data + put_length = Put!Rounded(Total))'
    BY <1>1, <1>2, <1>3, <1>5 DEF Put!Rounded
  <2> QED
    BY <2>1, <2>2, <2>3 DEF OneBehind
<1>8. put_sno' \in 0..SnoMod - 1 /\ put_ptr_data' \in Nat
          /\ put_ptr_data' \in 0..Put!Rounded(Total)
  BY <1>1, <1>2, <1>3, <1>4 DEF Fields
<1>9. CASE put_length' = 0
  <2>1. /\ put_pc' = "eot" /\ put_toHost'.kind = "EOT" /\ put_result' = put_result
        /\ put_size_of_data' = put_size_of_data
    BY <1>9 DEF Put!GetAnswer, Put!Signal
  <2>2. Fields'
    BY <1>1, <1>5, <1>8, <2>1 DEF Fields
  <2>3. OnTheLine'
    BY <1>1, <1>3, <1>9, <2>1 DEF OnTheLine
  <2>4. Exact'
    BY <1>1, <2>1 DEF Sound, Exact
  <2> QED
    BY <1>1, <1>7, <2>2, <2>3, <2>4 DEF Kept, Sound
<1>10. CASE put_length' # 0
  <2>1. Put!PutPacket
    BY <1>10 DEF Put!GetAnswer
  <2>2. /\ put_toHost'.kind = "packet" /\ put_toHost'.sno = put_sno' /\ put_pc' = "packet"
        /\ put_result' = put_result
        /\ put_toHost'.data \in Seq(Nat) /\ Len(put_toHost'.data) = PktLen
        /\ put_size_of_data' \in 0..SizeMod - 1
        /\ put_size_of_data = Remaining(put_ptr_data') =>
             /\ \A k \in 1..PktLen : put_toHost'.data[k] = Datum(put_ptr_data' + k)
             /\ put_size_of_data' = Remaining(put_ptr_data' + PktLen)
    BY <1>8, <2>1, PutPacketFacts
  <2>3. Fields'
    BY <1>1, <1>5, <1>8, <2>2 DEF Fields
  <2>4. OnTheLine'
    BY <1>1, <1>3, <1>5, <1>10, <2>2 DEF OnTheLine
  <2>5. Exact'
    <3>1. put_repeated \/ ~SizeHolds \/ put_size_of_data = Remaining(put_ptr_data')
      BY <1>1 DEF Sound, Exact
    <3> QED
      BY <1>1, <2>2, <3>1 DEF Sound, Exact
  <2> QED
    BY <1>1, <1>7, <2>3, <2>4, <2>5 DEF Kept, Sound
<1> QED
  BY <1>9, <1>10

\* The answer is not ACK: the packet is sent again, with what follows.
LEMMA NakStep ==
  ASSUME Put!SendAssumption, Fields, put_repeated \in BOOLEAN, Sound,
         Put!GetAnswer, put_toDevice # "ACK"
  PROVE  Kept
<1>1. /\ put_pc = "packet" /\ put_toDevice' = "none"
      /\ UNCHANGED <<put_sno, put_length, put_ptr_data, put_seq, put_received, put_hostState,
                     put_faults>>
      /\ put_toDevice # "none"
  BY DEF Put!GetAnswer, Put!Answered, Put!host
<1>2. put_repeated' = TRUE
  BY DEF Put!GetAnswer, Put!Answered
<1>3. put_length > 0 /\ put_hostState # "idle" /\ put_ptr_data' \in Nat
  BY <1>1, SendConstants DEF Sound, OnTheLine, Fields
<1>4. Put!PutPacket
  BY <1>1, <1>3, SendConstants DEF Put!GetAnswer, Fields
<1>5. /\ put_toHost'.kind = "packet" /\ put_toHost'.sno = put_sno' /\ put_pc' = "packet"
      /\ put_result' = put_result
      /\ put_toHost'.data \in Seq(Nat) /\ Len(put_toHost'.data) = PktLen
      /\ put_size_of_data' \in 0..SizeMod - 1
  BY <1>3, <1>4, PutPacketFacts
<1>6. Fields'
  BY <1>1, <1>5 DEF Fields
<1>7. OneBehind'
  BY <1>1 DEF Sound, OneBehind
<1>8. OnTheLine'
  BY <1>1, <1>3, <1>5 DEF OnTheLine
<1>9. Exact'
  BY <1>2 DEF Exact
<1>10. put_repeated' \in BOOLEAN
  BY <1>2, Zenon
<1> QED
  BY <1>6, <1>7, <1>8, <1>9, <1>10 DEF Kept, Sound

\* The last answer: the host has it all.
LEMMA FlushStep ==
  ASSUME Put!SendAssumption, Fields, put_repeated \in BOOLEAN, Sound, Put!FlushAck
  PROVE  Kept
<1>1. /\ put_pc = "eot" /\ put_pc' = "return" /\ put_result' = 1 /\ put_toDevice # "none"
      /\ put_toDevice' = "none"
      /\ UNCHANGED <<put_sno, put_length, put_ptr_data, put_size_of_data, put_toHost, put_seq,
                     put_received, put_hostState,
                     put_faults, put_repeated>>
  BY DEF Put!FlushAck, Put!EotAnswered, Put!Return, Put!host
<1>2. put_length = 0 /\ put_hostState # "idle" /\ put_toHost.kind = "none"
  BY <1>1 DEF Sound, OnTheLine
<1>3. Fields'
  BY <1>1 DEF Fields
<1>4. OneBehind'
  BY <1>1 DEF Sound, OneBehind
<1>5. OnTheLine'
  BY <1>1, <1>2 DEF OnTheLine
<1>6. Exact'
  BY <1>1, <1>2 DEF Sound, Exact
<1> QED
  BY <1>1, <1>3, <1>4, <1>5, <1>6 DEF Kept, Sound

\* The host answers without taking anything.
LEMMA AnswerStep ==
  ASSUME Put!SendAssumption, Fields, put_repeated \in BOOLEAN, Sound,
         UNCHANGED <<Put!device, put_faults, put_repeated, put_seq, put_received>>,
         put_toHost' = Put!Signal("none"), put_toDevice' \in Put!Answers,
         put_hostState' \in {"open", "closed"},
         put_pc = "packet" /\ put_toDevice' = "ACK" => Len(put_received) # put_ptr_data
  PROVE  Kept
<1>1. put_toHost'.kind = "none"
  BY DEF Put!Signal
<1>2. UNCHANGED <<put_pc, put_result, put_sno, put_length, put_ptr_data, put_size_of_data>>
  BY DEF Put!device
<1>3. Fields'
  BY <1>2 DEF Fields
<1>4. OneBehind'
  BY <1>2 DEF Sound, OneBehind
<1>5. OnTheLine'
  BY <1>1, <1>2 DEF Sound, OnTheLine
<1>6. Exact'
  BY <1>1, <1>2 DEF Sound, Exact
<1> QED
  BY <1>3, <1>4, <1>5, <1>6 DEF Kept, Sound

\* The host takes the packet it expects.
LEMMA TakeStep ==
  ASSUME Put!SendAssumption, Fields, put_repeated \in BOOLEAN, Sound,
         Put!HostPacket, put_toHost.sno = put_seq

  PROVE  /\ Kept /\ put_length > 0
         /\ Len(put_received) = put_ptr_data /\ Len(put_received') = put_ptr_data + PktLen
<1>1. /\ put_hostState = "open" /\ put_hostState' = "open" /\ put_toHost.kind = "packet"
      /\ put_received' = put_received \o put_toHost.data /\ put_seq' = (put_seq + 1) % SnoMod
      /\ put_toDevice' = "ACK" /\ put_toHost'.kind = "none"
      /\ UNCHANGED <<put_pc, put_result, put_sno, put_length, put_ptr_data, put_size_of_data,
                     put_faults, put_repeated>>
  BY DEF Put!HostPacket, Put!Answer, Put!Signal, Put!device
<1>2. /\ PktLen \in Nat \ {0} /\ SnoMod \in Nat /\ SnoMod > 1 /\ Total \in Nat
      /\ Put!Rounded(Total) \in Nat /\ Whole(Put!Rounded(Total))
  BY SendConstants
<1>3. /\ put_pc = "packet" /\ put_length > 0 /\ put_toHost.data \in Seq(Nat)
      /\ Len(put_toHost.data) = PktLen
      /\ put_toHost.sno = put_sno /\ put_received \in Seq(Nat) /\ Whole(put_ptr_data)
      /\ put_ptr_data \in Nat
      /\ put_length \in Nat /\ put_ptr_data + put_length = Put!Rounded(Total)
  BY <1>1, <1>2 DEF Sound, OnTheLine, OneBehind, Fields
<1>4. (put_sno + 1) % SnoMod # put_sno /\ (put_sno + 1) % SnoMod \in 0..SnoMod - 1
  BY <1>2, NextNumber DEF Fields
<1>5. Len(put_received) = put_ptr_data /\ put_seq = put_sno
  BY <1>3, <1>4 DEF Sound, OneBehind
<1>6. put_received' \in Seq(Nat) /\ Len(put_received') = put_ptr_data + PktLen
  <2> DEFINE d == put_toHost.data
  <2>1. d \in Seq(Nat) /\ Len(d) = PktLen /\ put_received' = put_received \o d
    BY <1>1, <1>3
  <2> HIDE DEF d
  <2>2. put_received \o d \in Seq(Nat) /\ Len(put_received \o d) = Len(put_received) + Len(d)
    BY <1>3, <2>1, ConcatProperties
  <2> QED
    BY <1>5, <2>1, <2>2
<1>7. put_ptr_data + PktLen <= Put!Rounded(Total)
  BY <1>2, <1>3, BlocksApart
<1>8. Whole(put_ptr_data + PktLen)
  BY <1>2, <1>3, NextBlock
<1>9. Fields'
  BY <1>1, <1>2, <1>4, <1>5, <1>6, <1>7 DEF Fields, Put!Answers
<1>10. OneBehind'
  <2>1. Whole(put_ptr_data)' /\ Whole(Len(put_received))'
    BY <1>1, <1>3, <1>6, <1>8 DEF Whole
  <2>2. /\ (put_received \in Seq(Nat))' /\ (put_ptr_data + put_length = Put!Rounded(Total))'
        /\ (Len(put_received) = put_ptr_data + PktLen /\ put_seq = (put_sno + 1) % SnoMod
               /\ put_length > 0)'
    BY <1>1, <1>3, <1>5, <1>6
  <2> QED
    BY <2>1, <2>2 DEF OneBehind
<1>11. OnTheLine'
  BY <1>1, <1>2, <1>3, <1>6 DEF OnTheLine
<1>12. Exact'
  <2>1. ASSUME SizeHolds, ~put_repeated, NEW k \in 1..Len(put_received')
        PROVE  put_received'[k] = Datum(k)
    <3> DEFINE d == put_toHost.data
    <3>0. d \in Seq(Nat) /\ Len(d) = PktLen /\ put_received' = put_received \o d
      BY <1>1, <1>3
    <3> HIDE DEF d
    <3>5. \A i \in 1..Len(put_received) + Len(d) :
            (put_received \o d)[i] = IF i <= Len(put_received) THEN put_received[i]
                ELSE d[i - Len(put_received)]
      BY <1>3, <3>0, ConcatProperties
    <3>6. k \in 1..put_ptr_data + PktLen
      BY <1>6
    <3>7. put_received'[k] = IF k <= put_ptr_data THEN put_received[k] ELSE d[k - put_ptr_data]
      BY <1>5, <3>0, <3>5, <3>6
    <3>1. k <= put_ptr_data => put_received'[k] = put_received[k] /\ k \in 1..Len(put_received)
      BY <1>3, <1>5, <3>6, <3>7
    <3>2. k > put_ptr_data => /\ put_received'[k] = d[k - put_ptr_data]
                          /\ k - put_ptr_data \in 1..PktLen
      BY <1>2, <1>3, <3>6, <3>7
    <3>3. CASE k <= put_ptr_data
      BY <2>1, <3>1, <3>3 DEF Sound, Exact
    <3>4. CASE k > put_ptr_data
      <4>1. put_toHost.data[k - put_ptr_data] = Datum(put_ptr_data + (k - put_ptr_data))
        BY <1>1, <2>1, <3>2, <3>4 DEF Sound, Exact
      <4>2. put_ptr_data + (k - put_ptr_data) = k
        BY <1>3, <1>6
      <4> QED
        BY <3>2, <3>4, <4>1, <4>2 DEF d
    <3> QED
      BY <1>3, <1>6, <3>3, <3>4
  <2> QED
    BY <1>1, <2>1 DEF Sound, Exact
<1> QED
  BY <1>1, <1>3, <1>5, <1>6, <1>9, <1>10, <1>11, <1>12 DEF Kept, Sound

\* The host does not expect the packet: it has it, and says so.
LEMMA AgainStep ==
  ASSUME Put!SendAssumption, Fields, put_repeated \in BOOLEAN, Sound,
         Put!HostPacket, put_toHost.sno # put_seq
  PROVE  Kept /\ UNCHANGED <<Put!device, put_received>>
<1>1. /\ put_hostState = "open" /\ put_hostState' = "open" /\ put_toHost.kind = "packet"
      /\ UNCHANGED <<put_seq, put_received, Put!device, put_faults, put_repeated>>
      /\ put_toHost' = Put!Signal("none") /\ put_toDevice' \in {"ACK", "NAK"}
  BY DEF Put!HostPacket, Put!Answer
<1>2. put_pc = "packet" /\ put_toHost.sno = put_sno
  BY <1>1 DEF Sound, OnTheLine
<1>3. Len(put_received) # put_ptr_data
  <2>1. PktLen \in Nat \ {0} /\ Put!Rounded(Total) \in Nat
    BY SendConstants
  <2>2. put_seq # put_sno
    BY <1>2
  <2>3. Len(put_received) = put_ptr_data + PktLen /\ put_ptr_data \in Nat
    BY <2>1, <2>2 DEF Sound, OneBehind, Fields
  <2> QED
    BY <2>1, <2>3
<1>4. /\ UNCHANGED <<Put!device, put_faults, put_repeated, put_seq, put_received>>
      /\ put_toHost' = Put!Signal("none") /\ put_toDevice' \in Put!Answers
      /\ put_hostState' \in {"open", "closed"}
  BY <1>1 DEF Put!Answers
<1>5. Kept
  BY <1>3, <1>4, AnswerStep
<1> QED
  BY <1>1, <1>5

\* The other answers of the host.
LEMMA OtherAnswers ==
  ASSUME Put!SendAssumption, Fields, put_repeated \in BOOLEAN, Sound,
         Put!HostStart \/ Put!HostEot \/ Put!HostDamaged \/ Put!HostTimeout
  PROVE  Kept /\ UNCHANGED <<Put!device, put_received>>
<1>1. /\ UNCHANGED <<put_seq, put_received, Put!device, put_faults, put_repeated>>
      /\ put_toHost' = Put!Signal("none") /\ put_toDevice' \in {"ACK", "NAK", "C", "q"}
      /\ put_hostState' \in {"open", "closed"}
  BY DEF Put!HostStart, Put!HostEot, Put!HostDamaged, Put!HostTimeout, Put!Answer, Put!host,
         Fields
<1>2. put_pc = "packet" /\ put_toDevice' = "ACK" => Len(put_received) # put_ptr_data
  BY DEF Put!HostStart, Put!HostEot, Put!HostDamaged, Put!HostTimeout, Put!Answer, Sound,
         OnTheLine
<1> QED
  BY <1>1, <1>2, AnswerStep DEF Put!Answers

\* A packet or an answer is damaged or lost.
LEMMA FaultStep ==
  ASSUME Put!SendAssumption, Fields, put_repeated \in BOOLEAN, Sound, Put!LineFault
  PROVE  Kept /\ UNCHANGED <<Put!device, put_received>>
<1>1. /\ put_faults' = put_faults + 1 /\ put_faults < MaxFaults
      /\ UNCHANGED <<put_seq, put_received, put_hostState, put_repeated, Put!device>>
      /\ UNCHANGED <<put_pc, put_result, put_sno, put_length, put_ptr_data, put_size_of_data>>
  BY DEF Put!LineFault, Put!host, Put!device
<1>2. \/ put_toHost'.kind \in {"damaged", "none"} /\ put_toDevice' = put_toDevice
             /\ put_toHost.kind # "none"
      \/ /\ put_toHost' = put_toHost /\ put_toDevice # "none"
         /\ put_toDevice' \in {"junk", "none"}
  BY DEF Put!LineFault, Put!Signal
<1>3. Fields'
  <2>1. put_toDevice' \in Put!Answers \cup {"none"}
    BY <1>2 DEF Fields, Put!Answers
  <2>2. put_faults' \in 0..MaxFaults
    BY <1>1, SendConstants DEF Fields
  <2> QED
    BY <1>1, <2>1, <2>2 DEF Fields
<1>4. OneBehind'
  BY <1>1 DEF Sound, OneBehind
<1>5. OnTheLine'
  BY <1>1, <1>2 DEF Sound, OnTheLine
<1>6. Exact'
  BY <1>1, <1>2 DEF Sound, Exact
<1> QED
  BY <1>1, <1>3, <1>4, <1>5, <1>6 DEF Kept, Sound

\* A step of the system keeps the invariant.
LEMMA SendStep ==
  ASSUME Put!SendAssumption, SendInv, [Put!Next]_Put!vars
  PROVE  SendInv'
<1>1. Fields /\ put_repeated \in BOOLEAN /\ Sound
  BY SendTypeParts DEF SendInv, Sound
<1>0. Kept => SendInv'
  BY DEF Kept, SendInv, Sound, Put!TypeOK, Fields
<1> SUFFICES Kept
  BY <1>0
<1>2. CASE Put!Device
  BY <1>1, <1>2, SyncStep, AckStep, NakStep, FlushStep DEF Put!Device
<1>3. CASE Put!Host
  BY <1>1, <1>3, TakeStep, AgainStep, OtherAnswers DEF Put!Host
<1>4. CASE Put!LineFault
  BY <1>1, <1>4, FaultStep
<1>5. CASE UNCHANGED Put!vars
  <2>1. /\ UNCHANGED <<put_pc, put_result, put_sno, put_length, put_ptr_data, put_size_of_data>>
        /\ UNCHANGED <<put_toHost, put_toDevice, put_seq, put_received, put_hostState,
                       put_faults, put_repeated>>
    BY <1>5 DEF Put!vars, Put!device, Put!host, Put!line
  <2> QED
    BY <1>1, <2>1 DEF Kept, Fields, Sound, OneBehind, OnTheLine, Exact
<1> QED
  BY <1>2, <1>3, <1>4, <1>5 DEF Put!Next

-----------------------------------------------------------------------------
(* The theorems. *)

\* The invariant of serial_putdata_xmd() and putPacket() with their host.
THEOREM SendInvariance == ASSUME Put!SendAssumption PROVE Put!Spec => []SendInv
<1>1. Put!Init => SendInv
  BY SendStart, SendTypeParts DEF SendInv, Sound
<1>2. SendInv /\ [Put!Next]_Put!vars => SendInv'
  BY SendStep
<1> QED
  BY <1>1, <1>2, PTL DEF Put!Spec

\* Type correctness: the length, which the code subtracts from without a test,
\* never goes below zero, and ptr_data never leaves the rounded buffer.
THEOREM SendTypes == ASSUME Put!SendAssumption PROVE Put!Spec => []Put!TypeOK
<1>1. SendInv => Put!TypeOK
  BY DEF SendInv
<1> QED
  BY <1>1, SendInvariance, PTL

\* As long as no packet is sent twice, what the host takes is a prefix of the
\* data, padded with zeros (putPacket), for every length that size_of_data holds.
THEOREM SendsTheData ==
  ASSUME Put!SendAssumption, SizeHolds PROVE Put!Spec => []Put!ExactUnlessRepeated
<1>1. SendInv => Put!ExactUnlessRepeated
  <2> SUFFICES ASSUME SendInv, ~put_repeated PROVE Put!IsPrefix(put_received, Put!Data)
    BY DEF Put!ExactUnlessRepeated
  <2>1. /\ put_received \in Seq(Nat) /\ Len(put_received) <= Put!Rounded(Total)
        /\ \A k \in 1..Len(put_received) : put_received[k] = Datum(k)
        /\ Put!Rounded(Total) \in Nat
    BY SendConstants DEF SendInv, Put!TypeOK, OneBehind, Exact
  <2>2. Put!Data \in Seq(Nat) /\ Len(Put!Data) = Put!Rounded(Total)
    BY <2>1 DEF Put!Data
  <2>3. \A k \in 1..Put!Rounded(Total) : Put!Data[k] = Datum(k)
    BY DEF Put!Data, Datum
  <2>4. put_received = SubSeq(Put!Data, 1, Len(put_received))
    <3>1. /\ SubSeq(Put!Data, 1, Len(put_received)) \in Seq(Nat)
          /\ Len(SubSeq(Put!Data, 1, Len(put_received))) = Len(put_received)
          /\ \A k \in 1..Len(put_received) : SubSeq(Put!Data, 1, Len(put_received))[k] = Put!Data[k]
      BY <2>1, <2>2
    <3>2. \A k \in 1..Len(put_received) :
            SubSeq(Put!Data, 1, Len(put_received))[k] = put_received[k]
      BY <2>1, <2>3, <3>1
    <3> QED
      BY <2>1, <3>1, <3>2, SeqEqual
  <2> QED
    BY <2>1, <2>2, <2>4 DEF Put!IsPrefix
<1> QED
  BY <1>1, SendInvariance, PTL

\* The sender and its host implement Transfer: the host takes each packet once
\* and in order, whatever is damaged, lost or repeated; the device is one
\* packet behind at most; and serial_putdata_xmd() returns 1 only when the host
\* has them all.
THEOREM Sends == ASSUME Put!SendAssumption PROVE Put!Spec => Put!SendTransfer
<1> DEFINE delivered == Len(put_received) \div PktLen
           confirmed == put_ptr_data \div PktLen
<1>1. Put!Init => Put!Implements!TransferInit
  <2> SUFFICES ASSUME Put!Init PROVE Put!Implements!TransferInit
    OBVIOUS
  <2>1. Len(put_received) = 0 /\ put_ptr_data = 0 /\ put_pc = "sync"
    BY EmptySeq DEF Put!Init
  <2>2. 0 \div PktLen = 0
    BY SendConstants
  <2> QED
    BY <2>1, <2>2 DEF Put!Implements!TransferInit, Put!Outcome
<1>2. SendInv /\ [Put!Next]_Put!vars =>
        [Put!Implements!TransferNext]_<<delivered, confirmed, Put!Outcome>>
  <2> SUFFICES ASSUME SendInv, [Put!Next]_Put!vars
               PROVE  [Put!Implements!TransferNext]_<<delivered, confirmed, Put!Outcome>>
    OBVIOUS
  <2>1. Fields /\ put_repeated \in BOOLEAN /\ Sound
    BY SendTypeParts DEF SendInv, Sound
  <2>2. CASE UNCHANGED <<Put!device, put_received>>
    BY <2>2 DEF Put!device, Put!Outcome
  <2>0. /\ PktLen \in Nat \ {0} /\ Put!Rounded(Total) \in Nat /\ Whole(Put!Rounded(Total))
        /\ Whole(put_ptr_data) /\ put_ptr_data \in Nat /\ put_length \in Nat
        /\ put_ptr_data + put_length = Put!Rounded(Total) /\ put_received \in Seq(Nat)
        /\ Len(put_received) = put_ptr_data \/ Len(put_received) = put_ptr_data + PktLen
    <3>1. PktLen \in Nat \ {0} /\ Put!Rounded(Total) \in Nat /\ Whole(Put!Rounded(Total))
      BY SendConstants
    <3> QED
      BY <2>1, <3>1 DEF Sound, OneBehind, Fields
  <2>3. CASE Put!HostPacket /\ put_toHost.sno = put_seq
    <3>1. /\ Len(put_received) = put_ptr_data /\ Len(put_received') = put_ptr_data + PktLen
          /\ put_length > 0
      BY <2>1, <2>3, TakeStep
    <3>2. put_pc = "packet" /\ UNCHANGED <<put_pc, put_result, put_ptr_data>>
      BY <2>1, <2>3 DEF Put!HostPacket, Put!Answer, Put!device, Sound, OnTheLine
    <3>3. put_ptr_data < Put!Rounded(Total)
      BY <2>0, <3>1
    <3>4. put_ptr_data \div PktLen < Put!Rounded(Total) \div PktLen
      BY <2>0, <3>3, BlocksApart
    <3>5. (put_ptr_data + PktLen) \div PktLen = (put_ptr_data \div PktLen) + 1
      BY <2>0, NextBlock
    <3> QED
      BY <3>1, <3>2, <3>4, <3>5
         DEF Put!Outcome, Put!Blocks, Put!Implements!TransferNext, Put!Implements!Deliver
  <2>4. CASE Put!Sync
    <3>1. put_pc = "sync" /\ UNCHANGED <<put_ptr_data, put_received>>
      BY <2>4 DEF Put!Sync, Put!host
    <3>2. put_pc' \in {"sync", "packet"} \/ (put_pc' = "return" /\ put_result' = 0)
      BY <2>4 DEF Put!Sync, Put!PutPacket, Put!Return
    <3> QED
      BY <3>1, <3>2 DEF Put!Outcome, Put!Implements!TransferNext, Put!Implements!Fail
  <2>5. CASE Put!GetAnswer /\ put_toDevice = "ACK"
    <3>1. /\ put_pc = "packet" /\ UNCHANGED put_received /\ put_ptr_data' = put_ptr_data + PktLen
          /\ put_pc' \in {"packet", "eot"}
      BY <2>5 DEF Put!GetAnswer, Put!Answered, Put!host, Put!PutPacket
    <3>2. Len(put_received) = put_ptr_data + PktLen
      BY <2>0, <2>1, <2>5, <3>1 DEF Sound, OnTheLine
    <3>3. (put_ptr_data + PktLen) \div PktLen = (put_ptr_data \div PktLen) + 1
      BY <2>0, NextBlock
    <3>4. put_ptr_data \div PktLen \in Nat
      BY <2>0
    <3> QED
      BY <3>1, <3>2, <3>3, <3>4 DEF Put!Outcome, Put!Implements!TransferNext,
                                    Put!Implements!Confirm
  <2>6. CASE Put!GetAnswer /\ put_toDevice # "ACK"
    <3>1. put_pc = "packet" /\ UNCHANGED <<put_ptr_data, put_received>>
              /\ put_pc' \in {"packet", "eot"}
      BY <2>6 DEF Put!GetAnswer, Put!Answered, Put!host, Put!PutPacket
    <3> QED
      BY <3>1 DEF Put!Outcome
  <2>7. CASE Put!FlushAck
    <3>1. put_pc = "eot" /\ put_pc' = "return" /\ put_result' = 1
              /\ UNCHANGED <<put_ptr_data, put_received>>
      BY <2>7 DEF Put!FlushAck, Put!Return, Put!host
    <3>2. put_ptr_data = Put!Rounded(Total)
      BY <2>0, <2>1, <3>1 DEF Sound, OnTheLine
    <3> QED
      BY <3>1, <3>2 DEF Put!Outcome, Put!Blocks, Put!Implements!TransferNext,
                        Put!Implements!Succeed
  <2>8. CASE UNCHANGED Put!vars
    BY <2>2, <2>8 DEF Put!vars, Put!host
  <2> QED
    BY <2>1, <2>2, <2>3, <2>4, <2>5, <2>6, <2>7, <2>8, AgainStep, OtherAnswers, FaultStep
       DEF Put!Next, Put!Device, Put!Host
<1> QED
  BY <1>1, <1>2, SendInvariance, PTL DEF Put!Spec, Put!SendTransfer, Put!Implements!TransferSpec

-----------------------------------------------------------------------------
(* The other direction: the invariant of XmodemReceive. *)

\* The blocks the device has taken.
Taken == get_ptr_data \div PktLen

\* The same, of the blocks there are.
Had == IF Taken < Get!Blocks THEN Taken ELSE Get!Blocks

\* The host's byte k, or its padding.
Filled(k) == IF k <= Total THEN k ELSE 26

\* The packet is the block after the acknowledged ones, whole or damaged.
FromBlock(p) ==
  /\ p = [kind |-> "packet", sno |-> (get_block + 1) % SnoMod, data |-> p.data]
  /\ \/ \A k \in 1..PktLen : p.data[k] = Filled(get_block * PktLen + k)
     \/ \A k \in 1..PktLen : p.data[k] = -1

\* The device has the blocks the host knows it has, or one more; its number and
\* its count of the bytes go with them.
OneAhead ==
  /\ Whole(get_ptr_data)
  /\ Had = get_block \/ Had = get_block + 1
  /\ get_sno = (Taken + 1) % SnoMod
  /\ get_pc # "return" => get_size_of_data = Remaining(get_ptr_data)
  /\ get_pc = "sync" => get_ptr_data = 0 /\ get_nbr_of_timeout > 0

\* What can be on the line at each place of the host.
HostOnTheLine ==
  /\ get_toHost = "none" \/ get_toDevice.kind = "none"
  /\ get_toDevice.kind = "packet" => get_hostState = "packets" /\ FromBlock(get_toDevice)
  /\ get_toDevice.kind = "EOT" => get_hostState = "eot"
  /\ get_hostState \in {"idle", "success", "failure"} => get_toDevice.kind = "none"
  /\ get_hostState = "idle" => get_pc # "packets" /\ get_ptr_data = 0 /\ get_block = 0
  /\ get_hostState = "packets" => get_block < Get!Blocks
  /\ get_hostState \in {"eot", "success"} => get_block = Get!Blocks
  /\ get_hostState = "packets" /\ get_toHost = "ACK" => Had = get_block + 1

\* Behind the last block every packet is taken, but each costs a lost answer.
Overrun ==
  /\ Taken <= Get!Blocks + get_faults
  /\ Taken >= Get!Blocks /\ get_hostState = "packets" /\ get_toHost # "ACK"
         => Taken < Get!Blocks + get_faults

\* The memory that counts.
InMemory == \A k \in 1..Total : k <= get_ptr_data => get_memory[k] = k

ReceiveInv == Get!TypeOK /\ OneAhead /\ HostOnTheLine /\ Overrun /\ InMemory

-----------------------------------------------------------------------------
(* What the parts of the invariant say. *)

\* The constants, and which blocks there are.
LEMMA GetConstants ==
  ASSUME Get!ReceiveAssumption
  PROVE  /\ PktLen \in Nat \ {0} /\ SnoMod \in Nat /\ SnoMod > 1 /\ MaxFaults \in Nat
         /\ Total \in Nat \ {0} /\ MaxTimeouts \in Nat \ {0} /\ Get!Blocks \in Nat \ {0}
         /\ SizeMod \in Nat \ {0} /\ \A n \in Nat : n < Get!Blocks <=> n * PktLen < Total
<1>1. /\ PktLen \in Nat \ {0} /\ SnoMod \in Nat /\ SnoMod > 1 /\ MaxFaults \in Nat
      /\ Total \in Nat \ {0} /\ MaxTimeouts \in Nat \ {0} /\ SizeMod \in Nat \ {0}
  BY DEF Get!ReceiveAssumption
<1> DEFINE x == Total + PktLen - 1
           k == x \div PktLen
           r == x % PktLen
<1>2. x \in Nat
  BY <1>1
<1> HIDE DEF x
<1>3. k \in Nat /\ r \in Nat /\ r < PktLen /\ x = k * PktLen + r
  BY <1>1, <1>2
<1>4. Get!Blocks = k
  BY DEF Get!Blocks, x
<1> HIDE DEF k, r
<1>5. Total + PktLen - 1 = k * PktLen + r
  BY <1>3 DEF x
<1>6. ASSUME NEW n \in Nat PROVE n < k <=> n * PktLen < Total
  <2>1. n < k => n * PktLen + PktLen <= k * PktLen
    BY <1>1, <1>3
  <2>2. k <= n => k * PktLen <= n * PktLen
    BY <1>1, <1>3
  <2>3. n * PktLen \in Nat /\ k * PktLen \in Nat
    BY <1>1, <1>3
  <2> QED
    BY <1>1, <1>3, <1>5, <2>1, <2>2, <2>3
<1>7. k # 0
  <2>1. 0 < k <=> 0 * PktLen < Total
    BY <1>6
  <2> QED
    BY <1>1, <2>1
<1> QED
  BY <1>1, <1>3, <1>4, <1>6, <1>7

\* What the parts of the invariant say in numbers.
LEMMA GetFacts ==
  ASSUME Get!ReceiveAssumption, ReceiveInv
  PROVE  /\ PktLen \in Nat \ {0} /\ SnoMod \in Nat /\ SnoMod > 1 /\ MaxFaults \in Nat
         /\ Total \in Nat \ {0} /\ MaxTimeouts \in Nat \ {0} /\ Get!Blocks \in Nat \ {0}
         /\ Taken \in Nat /\ get_ptr_data \in Nat /\ get_ptr_data = Taken * PktLen
         /\ Taken < Get!Blocks <=> get_ptr_data < Total
         /\ get_block \in Nat /\ get_block <= Get!Blocks /\ get_faults \in Nat
         /\ Taken < Get!Blocks => Taken = get_block \/ Taken = get_block + 1
         /\ Taken >= Get!Blocks => get_block = Get!Blocks \/ get_block + 1 = Get!Blocks
<1>1. /\ PktLen \in Nat \ {0} /\ SnoMod \in Nat /\ SnoMod > 1 /\ MaxFaults \in Nat
      /\ Total \in Nat \ {0} /\ MaxTimeouts \in Nat \ {0} /\ Get!Blocks \in Nat \ {0}
      /\ \A n \in Nat : n < Get!Blocks <=> n * PktLen < Total
  BY GetConstants
<1>2. (Get!Blocks + MaxFaults) * PktLen \in Nat
  BY <1>1
<1>3. get_ptr_data \in Nat /\ get_block \in Nat /\ get_block <= Get!Blocks /\ get_faults \in Nat
  BY <1>1, <1>2 DEF ReceiveInv, Get!TypeOK
<1>4. Taken \in Nat /\ get_ptr_data = Taken * PktLen
  BY <1>1, <1>3 DEF ReceiveInv, OneAhead, Whole, Taken
<1>5. Had = get_block \/ Had = get_block + 1
  BY DEF ReceiveInv, OneAhead
<1>6. Taken < Get!Blocks <=> get_ptr_data < Total
  BY <1>1, <1>4
<1> HIDE DEF Taken
<1> QED
  BY <1>1, <1>3, <1>4, <1>5, <1>6 DEF Had

\* What getbytes() does to the memory, and only behind ptr_data.
LEMMA StoreFacts ==
  ASSUME Get!ReceiveAssumption, ReceiveInv, get_pc = "packets", get_toDevice.kind = "packet"
  PROVE  /\ Get!Stored(get_toDevice.data) \in [1..Total -> -1..Total]
         /\ \A k \in 1..Total : k <= get_ptr_data
                => Get!Stored(get_toDevice.data)[k] = get_memory[k]
         /\ \A k \in 1..Total : get_ptr_data < k /\ k <= get_ptr_data + PktLen =>
              Get!Stored(get_toDevice.data)[k] = get_toDevice.data[k - get_ptr_data]
<1>1. /\ PktLen \in Nat \ {0} /\ Total \in Nat \ {0} /\ Get!Blocks \in Nat \ {0}
      /\ Taken \in Nat /\ get_ptr_data \in Nat /\ get_ptr_data = Taken * PktLen
      /\ Taken < Get!Blocks <=> get_ptr_data < Total
      /\ get_block \in Nat /\ get_block <= Get!Blocks
      /\ Taken < Get!Blocks => Taken = get_block \/ Taken = get_block + 1
  BY GetFacts
<1>2. get_memory \in [1..Total -> -1..Total]
  BY DEF ReceiveInv, Get!TypeOK
<1>3. get_size_of_data = Remaining(get_ptr_data) /\ FromBlock(get_toDevice)
  BY DEF ReceiveInv, OneAhead, HostOnTheLine
<1> DEFINE d == get_toDevice.data
           upto == get_ptr_data + (IF get_size_of_data < PktLen THEN get_size_of_data ELSE PktLen)
<1>4. Get!Stored(d) =
        [k \in 1..Total |-> IF k \in get_ptr_data + 1 .. upto THEN d[k - get_ptr_data]
            ELSE get_memory[k]]
  BY <1>2 DEF Get!Stored
<1>5. \A k \in 1..Total : k \in get_ptr_data + 1 .. upto <=> get_ptr_data < k
          /\ k <= get_ptr_data + PktLen
  BY <1>1, <1>3 DEF Remaining
<1>6. ASSUME NEW k \in 1..Total, get_ptr_data < k, k <= get_ptr_data + PktLen
      PROVE  d[k - get_ptr_data] \in -1..Total
  <2>1. Taken < Get!Blocks
    BY <1>1, <1>6
  <2>2. get_block * PktLen \in Nat /\ get_block * PktLen <= get_ptr_data
    <3>1. CASE Taken = get_block
      BY <1>1, <3>1
    <3>2. CASE Taken = get_block + 1
      BY <1>1, <3>2
    <3> QED
      BY <1>1, <2>1, <3>1, <3>2
  <2>3. k - get_ptr_data \in 1..PktLen
    BY <1>1, <1>6
  <2>4. d[k - get_ptr_data] = Filled(get_block * PktLen + (k - get_ptr_data))
            \/ d[k - get_ptr_data] = -1
    BY <1>3, <2>3 DEF FromBlock
  <2>5. get_block * PktLen + (k - get_ptr_data) \in 1..Total
    BY <1>1, <2>2, <2>3
  <2>6. Filled(get_block * PktLen + (k - get_ptr_data)) = get_block * PktLen + (k - get_ptr_data)
    BY <2>5 DEF Filled
  <2> QED
    BY <1>1, <2>4, <2>5, <2>6
<1> HIDE DEF d, upto
<1>7. Get!Stored(d) \in [1..Total -> -1..Total]
  BY <1>2, <1>4, <1>5, <1>6
<1>8. \A k \in 1..Total : k <= get_ptr_data => Get!Stored(d)[k] = get_memory[k]
  BY <1>1, <1>4, <1>5
<1>9. \A k \in 1..Total : get_ptr_data < k /\ k <= get_ptr_data + PktLen =>
        Get!Stored(d)[k] = d[k - get_ptr_data]
  BY <1>1, <1>4, <1>5
<1> QED
  BY <1>7, <1>8, <1>9 DEF d

-----------------------------------------------------------------------------
(* The steps of the device. *)

\* Waiting for the first packet.
LEMMA SyncSteps ==
  ASSUME Get!ReceiveAssumption, ReceiveInv, Get!SyncTimeout \/ Get!SyncReady
  PROVE  ReceiveInv' /\ UNCHANGED <<get_ptr_data, get_block, get_hostState>>
<1>1. /\ get_pc = "sync" /\ get_pc' \in {"sync", "packets", "return"}
      /\ get_result' \in {-1, 0, 1}
      /\ get_toHost' \in {get_toHost, "C"}
      /\ get_nbr_of_timeout' \in {get_nbr_of_timeout, get_nbr_of_timeout - 1}
      /\ UNCHANGED <<get_sno, get_ptr_data, get_size_of_data, get_memory, get_toDevice,
                     get_block, get_hostState, get_faults>>
  BY DEF Get!SyncTimeout, Get!SyncReady, Get!Return, Get!host, ReceiveInv, Get!TypeOK
<1>2. /\ get_toHost' = get_toHost \/ get_toDevice.kind = "none"
      /\ get_toDevice.kind = "none" => get_pc' # "packets"
      /\ get_pc' = "sync"
             => get_nbr_of_timeout' = get_nbr_of_timeout - 1 /\ get_nbr_of_timeout # 1
  BY DEF Get!SyncTimeout, Get!SyncReady, Get!Return, Get!Silence
<1>3. get_nbr_of_timeout \in 0..MaxTimeouts /\ get_nbr_of_timeout > 0 /\ MaxTimeouts \in Nat
  BY <1>1, GetConstants DEF ReceiveInv, Get!TypeOK, OneAhead
<1>4. Get!TypeOK'
  BY <1>1, <1>3 DEF ReceiveInv, Get!TypeOK
<1>5. OneAhead'
  BY <1>1, <1>2, <1>3 DEF ReceiveInv, OneAhead, Had, Taken
<1>6. HostOnTheLine'
  BY <1>1, <1>2 DEF ReceiveInv, HostOnTheLine, FromBlock, Had, Taken
<1>7. Overrun'
  <2>1. Taken < Get!Blocks
    BY <1>1, GetFacts DEF ReceiveInv, OneAhead
  <2>2. Get!Blocks \in Nat /\ Taken \in Nat
    BY GetFacts
  <2>3. UNCHANGED <<Taken, get_faults>>
    BY <1>1 DEF Taken
  <2> QED
    BY <2>1, <2>2, <2>3 DEF ReceiveInv, Overrun
<1>8. InMemory'
  BY <1>1 DEF ReceiveInv, InMemory
<1> QED
  BY <1>1, <1>4, <1>5, <1>6, <1>7, <1>8 DEF ReceiveInv

\* The packet is refused: what it left in the memory is behind what counts.
LEMMA RefuseStep ==
  ASSUME Get!ReceiveAssumption, ReceiveInv, Get!GetPacket, get_toHost' = "CAN"
  PROVE  ReceiveInv' /\ UNCHANGED <<get_ptr_data, get_block, get_hostState>>
<1>1. /\ get_pc = "packets" /\ get_toDevice.kind = "packet"
      /\ get_memory' = Get!Stored(get_toDevice.data)
      /\ get_size_of_data' = IF get_size_of_data > PktLen THEN get_size_of_data - PktLen ELSE 0
      /\ get_pc' = "return" /\ get_result' = 1 /\ get_toDevice'.kind = "none"
      /\ UNCHANGED <<get_sno, get_ptr_data, get_nbr_of_timeout, get_block, get_hostState,
                     get_faults>>
  BY DEF Get!GetPacket, Get!Return, Get!host, Get!Signal
<1>2. get_toHost = "none" /\ get_hostState = "packets"
  BY <1>1 DEF ReceiveInv, HostOnTheLine
<1>3. get_size_of_data' \in 0..SizeMod - 1
  <2>1. PktLen \in Nat /\ SizeMod \in Nat \ {0} /\ get_size_of_data \in 0..SizeMod - 1
    BY GetConstants DEF ReceiveInv, Get!TypeOK
  <2> QED
    BY <1>1, <2>1
<1>4. /\ get_memory' \in [1..Total -> -1..Total]
      /\ \A k \in 1..Total : k <= get_ptr_data => get_memory'[k] = get_memory[k]
  BY <1>1, StoreFacts
<1>5. Get!TypeOK'
  BY <1>1, <1>3, <1>4 DEF ReceiveInv, Get!TypeOK
<1>6. OneAhead'
  BY <1>1 DEF ReceiveInv, OneAhead, Had, Taken
<1>7. HostOnTheLine'
  BY <1>1, <1>2 DEF ReceiveInv, HostOnTheLine
<1>8. Overrun'
  BY <1>1, <1>2 DEF ReceiveInv, Overrun, Taken
<1>9. InMemory'
  BY <1>1, <1>4 DEF ReceiveInv, InMemory
<1> QED
  BY <1>1, <1>5, <1>6, <1>7, <1>8, <1>9 DEF ReceiveInv

\* The packet is accepted: it is the next block, or none is missing.
LEMMA AcceptStep ==
  ASSUME Get!ReceiveAssumption, SizeHolds, ReceiveInv, Get!GetPacket, get_toHost' = "ACK"
  PROVE  /\ ReceiveInv' /\ UNCHANGED <<get_block, get_hostState>> /\ get_hostState = "packets"
         /\ \/ Had = get_block /\ Had' = get_block + 1 /\ get_block < Get!Blocks
            \/ Had' = Had
<1>1. /\ get_pc = "packets" /\ get_toDevice.kind = "packet"
      /\ get_memory' = Get!Stored(get_toDevice.data)
      /\ get_size_of_data' = IF get_size_of_data > PktLen THEN get_size_of_data - PktLen ELSE 0
      /\ get_sno' = (get_sno + 1) % SnoMod /\ get_ptr_data' = get_ptr_data + PktLen
      /\ Get!RightCrc(get_toDevice) /\ Get!RightNumber(get_toDevice)
      /\ get_toDevice'.kind = "none"
      /\ UNCHANGED <<get_pc, get_result, get_nbr_of_timeout, get_block, get_hostState,
                     get_faults>>
  BY DEF Get!GetPacket, Get!Return, Get!host, Get!Signal
<1>2. /\ get_toHost = "none" /\ get_hostState = "packets" /\ get_block < Get!Blocks
      /\ FromBlock(get_toDevice)
      /\ get_sno = (Taken + 1) % SnoMod /\ get_size_of_data = Remaining(get_ptr_data)
  BY <1>1 DEF ReceiveInv, HostOnTheLine, OneAhead
<1>3. /\ PktLen \in Nat \ {0} /\ SnoMod \in Nat /\ SnoMod > 1 /\ MaxFaults \in Nat
      /\ Total \in Nat \ {0} /\ Get!Blocks \in Nat \ {0}
      /\ Taken \in Nat /\ get_ptr_data \in Nat /\ get_ptr_data = Taken * PktLen
      /\ Taken < Get!Blocks <=> get_ptr_data < Total
      /\ get_block \in Nat /\ get_faults \in Nat
      /\ Taken < Get!Blocks => Taken = get_block \/ Taken = get_block + 1
      /\ Taken >= Get!Blocks => get_block = Get!Blocks \/ get_block + 1 = Get!Blocks
  BY GetFacts
<1>4. Taken' = Taken + 1 /\ Whole(get_ptr_data')
  BY <1>1, <1>3, NextBlock DEF Taken, ReceiveInv, OneAhead
<1>5. get_sno' = (Taken' + 1) % SnoMod /\ get_sno' \in 0..SnoMod - 1
  <2>1. SnoMod \in Nat \ {0} /\ Taken + 1 \in Nat
    BY <1>3
  <2>2. /\ (Taken + 1 + 1) % SnoMod = (((Taken + 1) % SnoMod) + 1) % SnoMod
        /\ (Taken + 1) % SnoMod \in 0..(SnoMod - 1)
    BY <2>1, ModNext
  <2>3. (((Taken + 1) % SnoMod) + 1) % SnoMod \in 0..(SnoMod - 1)
    BY <1>3, <2>2, NextNumber
  <2> QED
    BY <1>1, <1>2, <1>4, <2>2, <2>3
<1>6. Taken < Get!Blocks => Taken = get_block
  <2> SUFFICES ASSUME Taken < Get!Blocks, Taken = get_block + 1 PROVE FALSE
    BY <1>3
  <2>1. get_size_of_data # 0
    BY <1>2, <1>3 DEF Remaining
  <2>2. (get_block + 1) % SnoMod = (get_block + 1 + 1) % SnoMod
    <3>1. get_toDevice.sno = get_sno
      BY <1>1, <2>1 DEF Get!RightNumber
    <3>2. get_toDevice.sno = (get_block + 1) % SnoMod
      BY <1>2 DEF FromBlock
    <3> QED
      BY <1>2, <3>1, <3>2
  <2>5. SnoMod \in Nat \ {0} /\ get_block + 1 \in Nat
    BY <1>3
  <2>3. /\ (get_block + 1 + 1) % SnoMod = (((get_block + 1) % SnoMod) + 1) % SnoMod
        /\ (get_block + 1) % SnoMod \in 0..(SnoMod - 1)
    BY <2>5, ModNext
  <2>4. (((get_block + 1) % SnoMod) + 1) % SnoMod # (get_block + 1) % SnoMod
    BY <1>3, <2>3, NextNumber
  <2> QED
    BY <2>2, <2>3, <2>4
<1>7. \A k \in 1..PktLen : get_toDevice.data[k] = Filled(get_block * PktLen + k)
  <2>1. 1 \in 1..PktLen
    BY <1>3
  <2>2. get_toDevice.data[1] # -1
    BY <1>1, <2>1 DEF Get!RightCrc
  <2> QED
    BY <1>2, <2>1, <2>2 DEF FromBlock
<1>8. /\ get_memory' \in [1..Total -> -1..Total]
      /\ \A k \in 1..Total : k <= get_ptr_data => get_memory'[k] = get_memory[k]
      /\ \A k \in 1..Total : get_ptr_data < k /\ k <= get_ptr_data + PktLen =>
           get_memory'[k] = get_toDevice.data[k - get_ptr_data]
  BY <1>1, StoreFacts
<1>9. InMemory'
  <2> SUFFICES ASSUME NEW k \in 1..Total, k <= get_ptr_data + PktLen PROVE get_memory'[k] = k
    BY <1>1 DEF InMemory
  <2>1. CASE k <= get_ptr_data
    BY <1>8, <2>1 DEF ReceiveInv, InMemory
  <2>2. CASE k > get_ptr_data
    <3>1. get_ptr_data = get_block * PktLen
      BY <1>3, <1>6, <2>2
    <3>2. k - get_ptr_data \in 1..PktLen /\ get_ptr_data + (k - get_ptr_data) = k
      BY <1>3, <2>2
    <3>3. get_memory'[k] = Filled(get_ptr_data + (k - get_ptr_data))
      BY <1>3, <1>7, <1>8, <2>2, <3>1, <3>2
    <3> QED
      BY <1>3, <3>2, <3>3 DEF Filled
  <2> QED
    BY <1>3, <2>1, <2>2
<1>10. get_size_of_data' = Remaining(get_ptr_data') /\ get_size_of_data' \in 0..SizeMod - 1
  <2>1. SizeMod \in Nat /\ Total < SizeMod
    BY GetConstants DEF SizeHolds
  <2> QED
    BY <1>1, <1>2, <1>3, <2>1 DEF Remaining
<1>11. /\ Had' = get_block + 1
       /\ Had = get_block \/ Had' = Had
  <2>1. CASE Taken < Get!Blocks
    BY <1>1, <1>2, <1>3, <1>4, <1>6, <2>1 DEF Had
  <2>2. CASE Taken >= Get!Blocks
    BY <1>1, <1>2, <1>3, <1>4, <2>2 DEF Had
  <2> QED
    BY <1>3, <2>1, <2>2
<1>12. OneAhead'
  BY <1>1, <1>4, <1>5, <1>10, <1>11 DEF OneAhead
<1>13. HostOnTheLine'
  BY <1>1, <1>2, <1>11 DEF HostOnTheLine
<1>14. Taken' <= Get!Blocks + get_faults
  BY <1>2, <1>3, <1>4 DEF ReceiveInv, Overrun
<1>15. get_ptr_data' \in 0..(Get!Blocks + MaxFaults) * PktLen
  <2>1. Taken + 1 <= Get!Blocks + MaxFaults
    BY <1>3, <1>4, <1>14 DEF ReceiveInv, Get!TypeOK
  <2>2. (Taken + 1) * PktLen <= (Get!Blocks + MaxFaults) * PktLen
    BY <1>3, <2>1
  <2>3. (Taken + 1) * PktLen = get_ptr_data + PktLen
    BY <1>3
  <2>4. (Get!Blocks + MaxFaults) * PktLen \in Nat
    BY <1>3
  <2> QED
    BY <1>1, <1>3, <2>2, <2>3, <2>4
<1>16. Get!TypeOK'
  BY <1>1, <1>5, <1>8, <1>10, <1>15 DEF ReceiveInv, Get!TypeOK
<1>17. Overrun'
  BY <1>1, <1>14 DEF Overrun
<1> QED
  BY <1>1, <1>2, <1>9, <1>11, <1>12, <1>13, <1>16, <1>17 DEF ReceiveInv

\* EOT, or what is not to be read, ends the transfer.
LEMMA OtherStep ==
  ASSUME Get!ReceiveAssumption, ReceiveInv, Get!GetOther \/ Get!Leftover
  PROVE  ReceiveInv' /\ UNCHANGED <<get_ptr_data, get_block, get_hostState>>
<1>1. /\ get_toDevice.kind # "none" /\ get_toDevice'.kind = "none"
      /\ get_pc' = "return" /\ get_result' \in {get_result, 1}
      /\ get_toHost' = get_toHost \/ (get_toHost' = "ACK" /\ get_toDevice.kind = "EOT")
      /\ UNCHANGED <<get_sno, get_ptr_data, get_size_of_data, get_nbr_of_timeout, get_memory,
                     get_block, get_hostState, get_faults>>
  BY DEF Get!GetOther, Get!Leftover, Get!Return, Get!host, Get!device, Get!Signal, Get!Silence
<1>2. /\ get_toHost = "none" /\ get_hostState # "idle"
      /\ get_toHost' = "ACK" => get_hostState = "eot"
  BY <1>1 DEF ReceiveInv, HostOnTheLine
<1>3. Get!TypeOK'
  BY <1>1 DEF ReceiveInv, Get!TypeOK
<1>4. OneAhead'
  BY <1>1 DEF ReceiveInv, OneAhead, Had, Taken
<1>5. HostOnTheLine'
  BY <1>1, <1>2 DEF ReceiveInv, HostOnTheLine
<1>6. Overrun'
  BY <1>1, <1>2 DEF ReceiveInv, Overrun, Taken
<1>7. InMemory'
  BY <1>1 DEF ReceiveInv, InMemory
<1> QED
  BY <1>1, <1>3, <1>4, <1>5, <1>6, <1>7 DEF ReceiveInv

-----------------------------------------------------------------------------
(* The steps of the host and of the line. *)

\* What the host sends after n acknowledged blocks.
LEMMA TransmitFacts ==
  ASSUME Get!ReceiveAssumption, NEW n \in 0..Get!Blocks, Get!Transmit(n)
  PROVE  \/ n = Get!Blocks /\ get_toDevice'.kind = "EOT" /\ get_hostState' = "eot"
         \/ /\ n < Get!Blocks /\ get_toDevice'.kind = "packet" /\ get_hostState' = "packets"
            /\ get_toDevice' = [kind |-> "packet", sno |-> (n + 1) % SnoMod,
                                 data |-> get_toDevice'.data]
            /\ \A k \in 1..PktLen : get_toDevice'.data[k] = Filled(n * PktLen + k)
<1>1. Get!Blocks \in Nat
  BY GetConstants
<1>2. CASE n = Get!Blocks
  BY <1>2 DEF Get!Transmit, Get!Signal
<1>3. CASE n < Get!Blocks
  <2> DEFINE d == [k \in 1..PktLen |-> Filled(n * PktLen + k)]
  <2>1. get_toDevice' = [kind |-> "packet", sno |-> (n + 1) % SnoMod, data |-> d]
            /\ get_hostState' = "packets"
    BY <1>1, <1>3 DEF Get!Transmit, Get!Block, Filled
  <2>2. \A k \in 1..PktLen : d[k] = Filled(n * PktLen + k)
    OBVIOUS
  <2> HIDE DEF d
  <2> QED
    BY <1>3, <2>1, <2>2
<1> QED
  BY <1>1, <1>2, <1>3

\* The host sends a block or EOT, of which the device has one block more at most.
LEMMA TransmitStep ==
  ASSUME Get!ReceiveAssumption, ReceiveInv, Get!Transmit(get_block'),
         get_toHost = "none" \/ get_toHost' # get_toHost, get_toHost' = "none",
         UNCHANGED <<get_pc, get_result, get_sno, get_ptr_data, get_size_of_data,
                     get_nbr_of_timeout, get_memory, get_faults>>,
         get_block' \in 0..Get!Blocks, Had = get_block' \/ Had = get_block' + 1,
         get_block' < Get!Blocks
             => Taken < Get!Blocks \/ (get_hostState = "packets" /\ get_toHost # "ACK")
  PROVE  ReceiveInv'
<1>1. \/ get_block' = Get!Blocks /\ get_toDevice'.kind = "EOT" /\ get_hostState' = "eot"
      \/ /\ get_block' < Get!Blocks /\ get_toDevice'.kind = "packet" /\ get_hostState' = "packets"
         /\ get_toDevice' = [kind |-> "packet", sno |-> (get_block' + 1) % SnoMod,
                              data |-> get_toDevice'.data]
         /\ \A k \in 1..PktLen : get_toDevice'.data[k] = Filled(get_block' * PktLen + k)
  BY TransmitFacts
<1>2. UNCHANGED <<Taken, Had>>
  BY DEF Taken, Had
<1>3. Get!TypeOK'
  BY <1>1 DEF ReceiveInv, Get!TypeOK
<1>4. OneAhead'
  BY <1>2 DEF ReceiveInv, OneAhead
<1>5. HostOnTheLine'
  <2>1. get_toDevice'.kind = "packet" => FromBlock(get_toDevice)'
    BY <1>1 DEF FromBlock
  <2> QED
    BY <1>1, <2>1 DEF HostOnTheLine
<1>6. Overrun'
  <2>1. Taken \in Nat /\ Get!Blocks \in Nat /\ get_faults \in Nat
    BY GetFacts
  <2> QED
    BY <1>1, <1>2, <2>1 DEF ReceiveInv, Overrun
<1>7. InMemory'
  BY DEF ReceiveInv, InMemory
<1> QED
  BY <1>3, <1>4, <1>5, <1>6, <1>7 DEF ReceiveInv

\* The host begins.
LEMMA BeginStep ==
  ASSUME Get!ReceiveAssumption, ReceiveInv, Get!HostStart
  PROVE  ReceiveInv' /\ UNCHANGED <<get_ptr_data, get_block>>
         /\ get_hostState = "idle" /\ get_hostState' \in {"packets", "eot"}
<1>1. /\ get_hostState = "idle" /\ get_toHost = "C" /\ get_toHost' = "none" /\ get_block' = 0
      /\ get_block = 0
      /\ get_ptr_data = 0 /\ Get!Transmit(0)
      /\ UNCHANGED <<get_pc, get_result, get_sno, get_ptr_data, get_size_of_data,
                     get_nbr_of_timeout, get_memory, get_faults>>
  BY DEF Get!HostStart, Get!device, ReceiveInv, HostOnTheLine
<1>2. Get!Blocks \in Nat \ {0} /\ Taken < Get!Blocks
  BY <1>1, GetFacts
<1>3. Had = get_block' \/ Had = get_block' + 1
  BY <1>1 DEF ReceiveInv, OneAhead
<1>4. 0 \in 0..Get!Blocks
  BY <1>2
<1>5. ReceiveInv'
  BY <1>1, <1>2, <1>3, <1>4, TransmitStep
<1> QED
  BY <1>1, <1>4, <1>5 DEF Get!Transmit

\* The block is acknowledged: the device has it.
LEMMA NextStep ==
  ASSUME Get!ReceiveAssumption, ReceiveInv, Get!HostAnswered,
         get_toHost = "ACK", get_hostState = "packets"

  PROVE  /\ ReceiveInv' /\ UNCHANGED get_ptr_data
         /\ get_block' = get_block + 1 /\ Had = get_block + 1
         /\ get_hostState' \in {"packets", "eot"}
<1>1. /\ get_toHost' = "none" /\ get_block' = get_block + 1 /\ Get!Transmit(get_block + 1)
      /\ UNCHANGED <<get_pc, get_result, get_sno, get_ptr_data, get_size_of_data,
                     get_nbr_of_timeout, get_memory, get_faults>>
  BY DEF Get!HostAnswered, Get!device
<1>2. Had = get_block + 1 /\ get_block < Get!Blocks
  BY DEF ReceiveInv, HostOnTheLine
<1>3. Get!Blocks \in Nat /\ get_block \in Nat /\ Taken \in Nat
  BY GetFacts
<1>4. get_block' \in 0..Get!Blocks
  BY <1>1, <1>2, <1>3
<1>5. get_block' < Get!Blocks => Taken < Get!Blocks
  BY <1>1, <1>2, <1>3 DEF Had
<1>6. Had = get_block' /\ Get!Transmit(get_block')
  BY <1>1, <1>2
<1>7. ReceiveInv'
  BY <1>1, <1>4, <1>5, <1>6, TransmitStep
<1> QED
  BY <1>1, <1>2, <1>7 DEF Get!Transmit

\* The end is acknowledged, or the host gives up.
LEMMA EndStep ==
  ASSUME Get!ReceiveAssumption, ReceiveInv,
         \/ /\ Get!HostAnswered /\ get_toHost \in {"ACK", "CAN"}
            /\ ~(get_toHost = "ACK" /\ get_hostState = "packets")
         \/ Get!HostTimeout /\ get_pc = "return"

  PROVE  /\ ReceiveInv' /\ UNCHANGED <<get_ptr_data, get_block>>
         /\ get_hostState \in {"packets", "eot"}
         /\ \/ get_hostState' = "success" /\ get_block = Get!Blocks
            \/ get_hostState' = "failure"
<1>1. /\ get_toHost' = "none" /\ get_hostState \in {"packets", "eot"}
      /\ get_hostState' \in {"success", "failure"}
      /\ UNCHANGED <<get_block, get_toDevice, get_pc, get_result, get_sno, get_ptr_data,
                     get_size_of_data, get_nbr_of_timeout,
                     get_memory, get_faults>>
  BY DEF Get!HostAnswered, Get!HostTimeout, Get!device
<1>2. get_toDevice.kind = "none"
  BY DEF Get!HostAnswered, Get!HostTimeout, Get!Silence, ReceiveInv, HostOnTheLine
<1>3. get_hostState' = "success" => get_hostState = "eot"
  BY DEF Get!HostAnswered, Get!HostTimeout
<1>4. get_hostState' = "success" => get_block = Get!Blocks
  BY <1>3 DEF ReceiveInv, HostOnTheLine
<1>5. Get!TypeOK'
  BY <1>1 DEF ReceiveInv, Get!TypeOK
<1>6. OneAhead'
  BY <1>1 DEF ReceiveInv, OneAhead, Had, Taken
<1>7. HostOnTheLine'
  BY <1>1, <1>2, <1>4 DEF ReceiveInv, HostOnTheLine
<1>8. Overrun'
  BY <1>1 DEF ReceiveInv, Overrun, Taken
<1>9. InMemory'
  BY <1>1 DEF ReceiveInv, InMemory
<1> QED
  BY <1>1, <1>4, <1>5, <1>6, <1>7, <1>8, <1>9 DEF ReceiveInv

\* An answer that says nothing.
LEMMA SkipStep ==
  ASSUME Get!ReceiveAssumption, ReceiveInv, Get!HostAnswered, get_toHost \in {"C", "junk"}
  PROVE  ReceiveInv' /\ UNCHANGED <<get_ptr_data, get_block, get_hostState>>
<1>1. /\ get_toHost' = "none"
      /\ UNCHANGED <<get_block, get_hostState, get_toDevice, get_pc, get_result, get_sno,
                     get_ptr_data, get_size_of_data,
                     get_nbr_of_timeout, get_memory, get_faults>>
  BY DEF Get!HostAnswered, Get!device
<1>2. Get!TypeOK'
  BY <1>1 DEF ReceiveInv, Get!TypeOK
<1>3. OneAhead'
  BY <1>1 DEF ReceiveInv, OneAhead, Had, Taken
<1>4. HostOnTheLine'
  BY <1>1 DEF ReceiveInv, HostOnTheLine, FromBlock
<1>5. Overrun'
  BY <1>1 DEF ReceiveInv, Overrun, Taken
<1>6. InMemory'
  BY <1>1 DEF ReceiveInv, InMemory
<1> QED
  BY <1>1, <1>2, <1>3, <1>4, <1>5, <1>6 DEF ReceiveInv

\* No answer: the host repeats what it sent.
LEMMA RepeatStep ==
  ASSUME Get!ReceiveAssumption, ReceiveInv, Get!HostTimeout, get_pc # "return"
  PROVE  ReceiveInv' /\ UNCHANGED <<get_ptr_data, get_block, get_hostState>>
<1>1. /\ get_hostState \in {"packets", "eot"} /\ get_toHost = "none" /\ get_toHost' = "none"
      /\ Get!Transmit(get_block) /\ get_block' = get_block
      /\ UNCHANGED <<get_pc, get_result, get_sno, get_ptr_data, get_size_of_data,
                     get_nbr_of_timeout, get_memory, get_faults>>
  BY DEF Get!HostTimeout, Get!device
<1>2. /\ get_hostState = "packets" => get_block < Get!Blocks
      /\ get_hostState = "eot" => get_block = Get!Blocks
      /\ Had = get_block \/ Had = get_block + 1
  BY DEF ReceiveInv, HostOnTheLine, OneAhead
<1>3. Get!Blocks \in Nat /\ get_block \in Nat /\ get_block <= Get!Blocks
  BY GetFacts
<1>4. get_block' \in 0..Get!Blocks /\ Get!Transmit(get_block')
  BY <1>1, <1>3
<1>5. get_block' < Get!Blocks => get_hostState = "packets" /\ get_toHost # "ACK"
  BY <1>1, <1>2, <1>3
<1>6. ReceiveInv'
  BY <1>1, <1>2, <1>4, <1>5, TransmitStep
<1>7. get_hostState' = get_hostState
  BY <1>1, <1>2, <1>3 DEF Get!Transmit
<1> QED
  BY <1>1, <1>6, <1>7

\* A packet or an answer is damaged or lost.
LEMMA ReceiveFault ==
  ASSUME Get!ReceiveAssumption, ReceiveInv, Get!LineFault
  PROVE  ReceiveInv' /\ UNCHANGED <<get_ptr_data, get_block, get_hostState>>
<1>1. /\ get_faults' = get_faults + 1 /\ get_faults < MaxFaults
      /\ UNCHANGED <<get_block, get_hostState, get_pc, get_result, get_sno, get_ptr_data,
                     get_size_of_data, get_nbr_of_timeout,
                     get_memory>>
  BY DEF Get!LineFault, Get!device, Get!host
<1>2. \/ /\ get_toDevice.kind = "packet" /\ get_toHost' = get_toHost
         /\ \/ get_toDevice'.kind \in {"junk", "none"}
            \/ get_toDevice' = Get!Damaged(get_toDevice)
      \/ get_toDevice.kind = "EOT" /\ get_toHost' = get_toHost
             /\ get_toDevice'.kind \in {"junk", "none"}
      \/ get_toHost \notin {"none", "junk"} /\ get_toHost' \in {"junk", "none"}
             /\ get_toDevice' = get_toDevice
  BY DEF Get!LineFault, Get!Signal
<1>3. get_faults \in Nat /\ MaxFaults \in Nat /\ Taken \in Nat /\ Get!Blocks \in Nat
  BY GetFacts
<1>4. ASSUME get_toDevice.kind = "packet", get_toDevice' = Get!Damaged(get_toDevice)
      PROVE  get_toDevice'.kind = "packet" /\ FromBlock(get_toDevice)'
  <2> DEFINE e == [k \in 1..PktLen |-> -1]
  <2>1. PICK d : get_toDevice = [kind |-> "packet", sno |-> (get_block + 1) % SnoMod, data |-> d]
    BY <1>4 DEF ReceiveInv, HostOnTheLine, FromBlock
  <2>2. get_toDevice' = [get_toDevice EXCEPT !.data = e]
    BY <1>4 DEF Get!Damaged
  <2>3. \A k \in 1..PktLen : e[k] = -1
    OBVIOUS
  <2> HIDE DEF e
  <2>4. get_toDevice' = [kind |-> "packet", sno |-> (get_block + 1) % SnoMod, data |-> e]
    BY <2>1, <2>2
  <2> QED
    BY <1>1, <2>3, <2>4 DEF FromBlock
<1>5. get_toDevice'.kind \in {"packet", "EOT", "junk", "none"}
  BY <1>2, <1>4 DEF ReceiveInv, Get!TypeOK
<1>6. Get!TypeOK'
  BY <1>1, <1>2, <1>3, <1>5 DEF ReceiveInv, Get!TypeOK
<1>7. OneAhead'
  BY <1>1 DEF ReceiveInv, OneAhead, Had, Taken
<1>8. HostOnTheLine'
  <2>1. UNCHANGED Had
    BY <1>1 DEF Had, Taken
  <2>2. get_toDevice' = get_toDevice => FromBlock(get_toDevice)' = FromBlock(get_toDevice)
    BY <1>1 DEF FromBlock
  <2> QED
    BY <1>1, <1>2, <1>4, <2>1, <2>2 DEF ReceiveInv, HostOnTheLine
<1>9. Overrun'
  <2>1. UNCHANGED Taken
    BY <1>1 DEF Taken
  <2> QED
    BY <1>1, <1>3, <2>1 DEF ReceiveInv, Overrun
<1>10. InMemory'
  BY <1>1 DEF ReceiveInv, InMemory
<1> QED
  BY <1>1, <1>6, <1>7, <1>8, <1>9, <1>10 DEF ReceiveInv

-----------------------------------------------------------------------------
(* The theorems of the other direction. *)

\* A step of the system keeps the invariant.
LEMMA ReceiveStep ==
  ASSUME Get!ReceiveAssumption, SizeHolds, ReceiveInv, [Get!Next]_Get!vars
  PROVE  ReceiveInv'
<1>1. CASE Get!Device
  <2>1. Get!GetPacket => get_toHost' \in {"ACK", "CAN"}
    BY DEF Get!GetPacket
  <2> QED
    BY <1>1, <2>1, SyncSteps, AcceptStep, RefuseStep, OtherStep DEF Get!Device
<1>2. CASE Get!HostStart
  BY <1>2, BeginStep
<1>3. CASE Get!HostAnswered
  <2>1. get_toHost \in {"ACK", "CAN", "C", "junk"}
    BY <1>3 DEF Get!HostAnswered
  <2> QED
    BY <1>3, <2>1, NextStep, EndStep, SkipStep
<1>4. CASE Get!HostTimeout
  BY <1>4, EndStep, RepeatStep
<1>5. CASE Get!LineFault
  BY <1>5, ReceiveFault
<1>6. CASE Get!Leftover
  BY <1>6, OtherStep
<1>7. CASE UNCHANGED Get!vars
  <2>1. UNCHANGED <<get_pc, get_result, get_sno, get_ptr_data, get_size_of_data,
                    get_nbr_of_timeout, get_memory,
                    get_block, get_hostState, get_toDevice, get_toHost, get_faults>>
    BY <1>7 DEF Get!vars, Get!device, Get!host
  <2>2. UNCHANGED <<Taken, Had>>
    BY <2>1 DEF Taken, Had
  <2>3. FromBlock(get_toDevice)' = FromBlock(get_toDevice)
    BY <2>1 DEF FromBlock
  <2>4. Get!TypeOK' /\ InMemory'
    BY <2>1 DEF ReceiveInv, Get!TypeOK, InMemory
  <2>5. OneAhead' /\ HostOnTheLine' /\ Overrun'
    BY <2>1, <2>2, <2>3 DEF ReceiveInv, OneAhead, HostOnTheLine, Overrun
  <2> QED
    BY <2>4, <2>5 DEF ReceiveInv
<1> QED
  BY <1>1, <1>2, <1>3, <1>4, <1>5, <1>6, <1>7 DEF Get!Next

\* The transfer begins.
LEMMA ReceiveStart ==
  ASSUME Get!ReceiveAssumption, SizeHolds, Get!Init PROVE ReceiveInv /\ Had = 0
<1>1. /\ get_pc = "sync" /\ get_result = -1 /\ get_sno = 1 /\ get_ptr_data = 0
      /\ get_size_of_data = Total % SizeMod
      /\ get_nbr_of_timeout = MaxTimeouts /\ get_memory = [i \in 1..Total |-> 0]
      /\ get_toDevice.kind = "none" /\ get_toHost = "C" /\ get_block = 0 /\ get_hostState = "idle"
      /\ get_faults = 0
  BY DEF Get!Init, Get!Signal
<1>2. /\ PktLen \in Nat \ {0} /\ SnoMod \in Nat /\ SnoMod > 1 /\ MaxFaults \in Nat
      /\ Total \in Nat \ {0} /\ MaxTimeouts \in Nat \ {0} /\ Get!Blocks \in Nat \ {0}
  BY GetConstants
<1>3. Taken = 0 /\ Whole(0)
  BY <1>1, <1>2, Blockwise DEF Taken, Whole
<1>4. Had = 0
  BY <1>2, <1>3 DEF Had
<1>5. (Get!Blocks + MaxFaults) * PktLen \in Nat
  BY <1>2
<1>11. get_size_of_data = Total /\ Total \in 0..(SizeMod - 1)
  <2>1. SizeMod \in Nat \ {0} /\ Total \in 0..(SizeMod - 1)
    BY <1>2, GetConstants DEF SizeHolds
  <2> QED
    BY <1>1, <2>1, Small
<1>6. Get!TypeOK
  BY <1>1, <1>2, <1>5, <1>11 DEF Get!TypeOK
<1>7. 1 % SnoMod = 1
  BY <1>2, Small
<1>8. OneAhead
  BY <1>1, <1>2, <1>3, <1>4, <1>7, <1>11 DEF OneAhead, Remaining
<1>9. HostOnTheLine
  BY <1>1 DEF HostOnTheLine
<1>10. Overrun /\ InMemory
  BY <1>1, <1>2, <1>3 DEF Overrun, InMemory
<1> QED
  BY <1>4, <1>6, <1>8, <1>9, <1>10 DEF ReceiveInv

\* The invariant of serial_getdata_xmd(), getPacket() and getbytes() with their
\* host.
THEOREM ReceiveInvariance == ASSUME Get!ReceiveAssumption, SizeHolds PROVE Get!Spec => []ReceiveInv
<1>1. Get!Init => ReceiveInv
  BY ReceiveStart
<1>2. ReceiveInv /\ [Get!Next]_Get!vars => ReceiveInv'
  BY ReceiveStep
<1> QED
  BY <1>1, <1>2, PTL DEF Get!Spec

\* Type correctness: the bytes of a packet that are stored are those of the
\* buffer the monitor asked for, also when the packet is refused or padded.
THEOREM ReceiveTypes == ASSUME Get!ReceiveAssumption, SizeHolds PROVE Get!Spec => []Get!TypeOK
<1>1. ReceiveInv => Get!TypeOK
  BY DEF ReceiveInv
<1> QED
  BY <1>1, ReceiveInvariance, PTL

\* What was acknowledged is in the memory as the host has it, whatever comes
\* after it, and all of it when the host ends with success (getbytes() stores
\* before getPacket() knows the CRC), for every length that size_of_data holds.
THEOREM ReceivesTheData ==
  ASSUME Get!ReceiveAssumption, SizeHolds PROVE Get!Spec => []Get!AcceptedIsExact
<1>1. ReceiveInv => Get!AcceptedIsExact
  <2> SUFFICES ASSUME ReceiveInv, NEW k \in 1..Total,
                      k <= get_ptr_data \/ get_hostState = "success"
               PROVE  get_memory[k] = k
    BY DEF Get!AcceptedIsExact
  <2>1. /\ Taken < Get!Blocks <=> get_ptr_data < Total
        /\ Taken \in Nat /\ Get!Blocks \in Nat /\ get_ptr_data \in Nat /\ Total \in Nat
        /\ Taken < Get!Blocks => Taken = get_block \/ Taken = get_block + 1
        /\ get_block \in Nat
    BY GetFacts
  <2>2. get_hostState = "success" => Had = Get!Blocks \/ Had = Get!Blocks + 1
    BY DEF ReceiveInv, HostOnTheLine, OneAhead
  <2>3. get_hostState = "success" => Taken >= Get!Blocks
    BY <2>1, <2>2 DEF Had
  <2>4. k <= get_ptr_data
    BY <2>1, <2>3
  <2> QED
    BY <2>4 DEF ReceiveInv, InMemory
<1> QED
  BY <1>1, ReceiveInvariance, PTL

\* The receiver and its host implement Transfer: the device takes each block
\* once and in order, a repeated one is refused, and the host ends with success
\* only when the device has them all, for every length that size_of_data holds.
THEOREM Receives == ASSUME Get!ReceiveAssumption, SizeHolds PROVE Get!Spec => Get!ReceiveTransfer
<1> DEFINE outcome == IF get_hostState \in {"success", "failure"} THEN get_hostState ELSE "open"
           delivered == IF get_ptr_data \div PktLen < Get!Blocks THEN get_ptr_data \div PktLen
                        ELSE Get!Blocks
           Mapped == [Get!Implements!TransferNext]_<<delivered, get_block, outcome>>
<1>1. Get!Init => Get!Implements!TransferInit
  <2> SUFFICES ASSUME Get!Init PROVE Get!Implements!TransferInit
    OBVIOUS
  <2>1. delivered = 0
    BY ReceiveStart DEF Had, Taken
  <2>2. get_block = 0 /\ outcome = "open"
    BY DEF Get!Init
  <2> QED
    BY <2>1, <2>2 DEF Get!Implements!TransferInit
<1>2. ReceiveInv /\ [Get!Next]_Get!vars => Mapped
  <2> SUFFICES ASSUME ReceiveInv, [Get!Next]_Get!vars PROVE Mapped
    OBVIOUS
  <2> HIDE DEF Mapped
  <2>1. delivered = Had
    BY DEF Had, Taken
  <2>2. ASSUME UNCHANGED <<get_ptr_data, get_block, get_hostState>>
        PROVE  Mapped
    BY <2>2 DEF Mapped
  <2>3. CASE Get!GetPacket /\ get_toHost' = "ACK"
    <3>1. /\ UNCHANGED <<get_block, get_hostState>> /\ get_hostState = "packets"
          /\ (Had = get_block /\ Had' = get_block + 1 /\ get_block < Get!Blocks) \/ Had' = Had
      BY <2>3, AcceptStep
    <3>2. UNCHANGED <<get_block, outcome>> /\ outcome = "open" /\ delivered' = Had'
      BY <3>1 DEF Had, Taken
    <3> HIDE DEF outcome, delivered
    <3>3. CASE Had' = Had
      BY <2>1, <3>2, <3>3 DEF Mapped
    <3>4. CASE Had = get_block /\ Had' = get_block + 1 /\ get_block < Get!Blocks
      <4>1. /\ outcome = "open" /\ delivered = get_block /\ delivered < Get!Blocks
            /\ delivered' = delivered + 1
        BY <2>1, <3>2, <3>4
      <4> QED
        BY <3>2, <4>1
           DEF Get!Implements!TransferNext, Get!Implements!Deliver, Mapped, outcome, delivered
    <3> QED
      BY <3>1, <3>3, <3>4
  <2>4. CASE Get!HostAnswered /\ get_toHost = "ACK" /\ get_hostState = "packets"
    <3>1. /\ UNCHANGED get_ptr_data /\ get_block' = get_block + 1 /\ Had = get_block + 1
          /\ get_hostState' \in {"packets", "eot"}
      BY <2>4, NextStep
    <3>2. get_block \in Nat
      BY GetFacts
    <3>3. delivered' = delivered /\ outcome = "open" /\ outcome' = "open"
      BY <2>4, <3>1
    <3> HIDE DEF outcome, delivered
    <3>4. get_block < delivered /\ get_block' = delivered
      BY <2>1, <3>1, <3>2
    <3> QED
      BY <3>3, <3>4 DEF Get!Implements!TransferNext, Get!Implements!Confirm, Mapped, outcome,
                        delivered
  <2>5. CASE \/ /\ Get!HostAnswered /\ get_toHost \in {"ACK", "CAN"}
                /\ ~(get_toHost = "ACK" /\ get_hostState = "packets")
             \/ Get!HostTimeout /\ get_pc = "return"
    <3>1. /\ UNCHANGED <<get_ptr_data, get_block>> /\ get_hostState \in {"packets", "eot"}
          /\ \/ get_hostState' = "success" /\ get_block = Get!Blocks
             \/ get_hostState' = "failure"
      BY <2>5, EndStep
    <3> QED
      BY <3>1 DEF Get!Implements!TransferNext, Get!Implements!Succeed, Get!Implements!Fail, Mapped
  <2>6. CASE Get!HostStart
    BY <2>6, BeginStep DEF Mapped
  <2>7. CASE \/ Get!SyncTimeout \/ Get!SyncReady \/ Get!GetOther \/ Get!Leftover
                    \/ Get!LineFault \/ UNCHANGED Get!vars
             \/ Get!GetPacket /\ get_toHost' = "CAN"
             \/ Get!HostAnswered /\ get_toHost \in {"C", "junk"}
             \/ Get!HostTimeout /\ get_pc # "return"
    <3>1. UNCHANGED <<get_ptr_data, get_block, get_hostState>>
      BY <2>7, SyncSteps, RefuseStep, OtherStep, SkipStep, RepeatStep, ReceiveFault
         DEF Get!vars, Get!device, Get!host
    <3> QED
      BY <2>2, <3>1
  <2>8. Get!GetPacket => get_toHost' \in {"ACK", "CAN"}
    BY DEF Get!GetPacket
  <2>9. Get!HostAnswered => get_toHost \in {"ACK", "CAN", "C", "junk"}
    BY DEF Get!HostAnswered
  <2> QED
    BY <2>3, <2>4, <2>5, <2>6, <2>7, <2>8, <2>9 DEF Get!Next, Get!Device
<1> QED
  BY <1>1, <1>2, ReceiveInvariance, PTL DEF Get!Spec, Get!ReceiveTransfer,
                                            Get!Implements!TransferSpec

\* Both directions of the transfer (sam_ba_serial.c), each with its host: blocks are taken once and
\* in order whatever the line does, and the bytes are those of the other side, unless the device
\* has sent a block again; for every length that size_of_data holds.
THEOREM TransfersAreRight == SizeHolds /\ Put!Spec /\ Get!Spec => BlocksOnceAndInOrder
<1>0. SUFFICES ASSUME SizeHolds PROVE Put!Spec /\ Get!Spec => BlocksOnceAndInOrder
  OBVIOUS
<1>1. Put!SendAssumption /\ Get!ReceiveAssumption
  BY BootloaderAssumption DEF BootloaderAssumption
<1>2. Put!Spec => Put!SendTransfer /\ []Put!ExactUnlessRepeated
  BY <1>0, <1>1, Sends, SendsTheData
<1>3. Get!Spec => Get!ReceiveTransfer /\ []Get!AcceptedIsExact
  BY <1>0, <1>1, Receives, ReceivesTheData
<1>. QED
  BY <1>2, <1>3 DEF BlocksOnceAndInOrder

-----------------------------------------------------------------------------
(* The USB port: the invariant of BootUsb. *)

\* The address the host has in mind: that of the request whose answer it has taken, also before the
\* device has it.
Meant == IF usb_pc = "wait0" /\ usb_served.kind = "SET_ADDRESS" THEN usb_served.arg ELSE usb_DADD

\* The request, its answer and the wait for it go together.
Asking ==
  /\ usb_request = Port!NoRequest => ~usb_RXSTP /\ ~usb_stalled
  /\ usb_pc # "wait0" \/ usb_request = Port!NoRequest \/ usb_RXSTP => usb_ep0 = Port!None
  /\ usb_pc = "wait0" /\ (usb_request = Port!NoRequest \/ usb_RXSTP) => usb_TRCPT1
  /\ usb_RXSTP => ~usb_stalled
  /\ usb_pc = "wait0" => ~usb_stalled

\* What is the matter once the device has seen the request: it waits for the host to take the
\* answer, or it has refused.
Answering ==
  /\ usb_request # Port!NoRequest /\ ~usb_RXSTP /\ usb_pc = "wait0" =>
       /\ usb_served = usb_request /\ usb_ep0 # Port!None /\ ~usb_TRCPT1 /\ ~usb_EORST
       /\ usb_request = [kind |-> "GET_STATUS", arg |-> Port!USB_EP_OUT] =>
            usb_ep0 = IF Port!USB_EP_OUT \in usb_STALLRQ THEN 1 ELSE 0
  /\ usb_request # Port!NoRequest /\ ~usb_RXSTP /\ usb_pc # "wait0" =>
       usb_stalled /\ usb_request.kind = "SET_INTERFACE" /\ ~usb_EORST

\* The two sides agree, but for a reset that is not seen and a configuration that is not answered.
Agreed ==
  /\ usb_EORST => usb_hostAddress = 0 /\ usb_hostConfiguration = 0
  /\ ~usb_EORST /\ (usb_request = Port!NoRequest \/ usb_RXSTP \/ usb_pc # "wait0") =>
       Meant = usb_hostAddress /\ usb_currentConfiguration = usb_hostConfiguration
  /\ ~usb_EORST /\ usb_request # Port!NoRequest /\ ~usb_RXSTP /\ usb_pc = "wait0" =>
       /\ usb_DADD = usb_hostAddress
       /\ usb_currentConfiguration =
            IF usb_served.kind = "SET_CONFIGURATION" THEN usb_served.arg
            ELSE usb_hostConfiguration

\* One packet or its answer is under way at a time, and it is the last one that was sent.
Passing ==
  /\ usb_answers \in Seq(Nat) /\ usb_answers = [i \in 1..Len(usb_answers) |-> i]
  /\ usb_sent \in Nat /\ (Len(usb_answers) = usb_sent \/ Len(usb_answers) + 1 = usb_sent)
  /\ usb_TRCPT0 => Port!Outstanding /\ usb_packet = usb_sent /\ usb_ep1 = Port!None
  /\ usb_ep1 # Port!None =>
       Port!Outstanding /\ usb_ep1 = usb_sent /\ usb_pc = "wait1" /\ ~usb_taken1

\* The types of the addresses, the requests and the place in the loop,
Typed ==
  /\ usb_hostAddress \in PortAddresses \cup {0} /\ usb_DADD \in PortAddresses \cup {0}
  /\ usb_request \in Port!Requests \cup {Port!NoRequest}
  /\ usb_served \in Port!Requests \cup {Port!NoRequest}
  /\ usb_STALLRQ \subseteq {Port!USB_EP_IN, Port!USB_EP_OUT}
  /\ usb_hostConfiguration \in {0, 1} /\ usb_currentConfiguration \in {0, 1}
  /\ usb_pc \in {"poll", "wait0", "read", "wait1"} /\ usb_sent \in 0..PortPackets

\* and of the flags.
PortFlags ==
  /\ usb_EORST \in BOOLEAN /\ usb_RXSTP \in BOOLEAN /\ usb_TRCPT1 \in BOOLEAN
  /\ usb_stalled \in BOOLEAN
  /\ usb_open \in BOOLEAN /\ usb_BK0RDY \in BOOLEAN /\ usb_TRCPT0 \in BOOLEAN
  /\ usb_taken1 \in BOOLEAN /\ usb_read_job \in BOOLEAN

\* The inductive invariant of the port.
PortInv == Typed /\ PortFlags /\ Asking /\ Answering /\ Agreed /\ Passing

-----------------------------------------------------------------------------
(* Each step keeps it. *)

\* What is assumed of the host.
LEMMA PortParameters ==
  /\ PortAddresses \subseteq Nat \ {0}
  /\ PortRequests \in Nat /\ PortResets \in Nat /\ PortPackets \in Nat
  BY BootloaderAssumption DEF Port!BootUsbAssumption

\* What the requests carry.
LEMMA RequestFields ==
  /\ Port!NoRequest \notin Port!Requests /\ Port!NoRequest.kind = "none"
  /\ \A r \in Port!Requests :
       /\ r.kind \in {"SET_ADDRESS", "SET_CONFIGURATION", "GET_STATUS", "SET_FEATURE",
                      "CLEAR_FEATURE", "GET_CONFIGURATION", "SET_INTERFACE"}
       /\ r.kind = "SET_ADDRESS" => r.arg \in PortAddresses
       /\ r.kind = "SET_CONFIGURATION" => r.arg \in {0, 1}
       /\ r.kind \in {"SET_FEATURE", "CLEAR_FEATURE", "GET_STATUS"}
            => r.arg \in {Port!USB_EP_IN, Port!USB_EP_OUT}
  BY DEF Port!NoRequest, Port!Requests

\* At reset the invariant holds.
LEMMA PortStarts == Port!Init => PortInv
<1> SUFFICES ASSUME Port!Init PROVE PortInv
  OBVIOUS
<1>1. Typed
  BY PortParameters DEF Port!Init, Typed
<1>2. PortFlags
  BY Zenon DEF Port!Init, PortFlags
<1>3. Asking /\ Answering /\ Agreed
  BY DEF Port!Init, Asking, Answering, Agreed, Meant, Port!NoRequest, Port!None
<1>4. Passing
  BY DEF Port!Init, Passing, Port!None, Port!Outstanding
<1>. QED
  BY <1>1, <1>2, <1>3, <1>4 DEF PortInv

\* The answers are as many as the packets, or one fewer.
LEMMA AnswerCount == ASSUME Passing
  PROVE /\ Len(usb_answers) \in Nat /\ usb_sent \in Nat
        /\ (Len(usb_answers) = usb_sent \/ Len(usb_answers) + 1 = usb_sent)
<1>1. usb_answers \in Seq(Nat)
  BY DEF Passing
<1>2. Len(usb_answers) \in Nat
  BY <1>1, LenProperties
<1>3. usb_sent \in Nat /\ (Len(usb_answers) = usb_sent \/ Len(usb_answers) + 1 = usb_sent)
  BY DEF Passing
<1>. QED
  BY <1>2, <1>3

\* The end of a bus reset keeps the invariant: address and configuration are those of the host.
LEMMA EndOfResetStep == ASSUME PortInv, Port!EndOfReset PROVE PortInv'
<1>0. Typed /\ PortFlags /\ Asking /\ Answering /\ Agreed /\ Passing
  BY DEF PortInv
<1>1. Typed'
  BY <1>0, PortParameters, RequestFields
     DEF Port!EndOfReset, Typed, Port!AtReset, Port!host, Port!bus, Port!ctrl, Port!out,
         Port!inp, Port!device
<1>2. /\ usb_RXSTP' = usb_RXSTP /\ usb_TRCPT1' = usb_TRCPT1 /\ usb_stalled' = usb_stalled
      /\ usb_open' = usb_open
      /\ usb_BK0RDY' = usb_BK0RDY /\ usb_TRCPT0' = usb_TRCPT0 /\ usb_taken1' = usb_taken1
      /\ usb_read_job' = usb_read_job
  BY DEF Port!EndOfReset, Port!AtReset, Port!host, Port!bus, Port!ctrl, Port!out, Port!inp,
         Port!device
<1>3. PortFlags'
  BY <1>0, <1>2, Zenon DEF Port!EndOfReset, PortFlags, Port!AtReset
<1>4. Asking'
  BY <1>0, RequestFields DEF Port!EndOfReset, Typed, Asking, Answering, Port!None, Port!AtReset,
                             Port!host, Port!bus, Port!ctrl, Port!out, Port!inp, Port!device
<1>5. Answering'
  BY <1>0, RequestFields DEF Port!EndOfReset, Typed, Asking, Answering, Port!None, Port!AtReset,
                             Port!host, Port!bus, Port!ctrl, Port!out, Port!inp, Port!device
<1>6. Agreed'
  BY <1>0, RequestFields DEF Port!EndOfReset, Typed, Asking, Answering, Agreed, Meant,
                             Port!AtReset, Port!host, Port!bus, Port!ctrl, Port!out, Port!inp,
                             Port!device
<1>7. Passing'
  BY <1>0 DEF Port!EndOfReset, Typed, Passing, Port!Outstanding, Port!None, Port!AtReset,
              Port!host, Port!bus, Port!ctrl, Port!out, Port!inp, Port!device
<1>. QED
  BY <1>0, <1>1, <1>3, <1>4, <1>5, <1>6, <1>7 DEF PortInv

\* So does a request: its answer waits, or it is refused.
LEMMA EnumerateStep == ASSUME PortInv, Port!Enumerate PROVE PortInv'
<1>0. Typed /\ PortFlags /\ Asking /\ Answering /\ Agreed /\ Passing
  BY DEF PortInv
<1>1. Typed'
  BY <1>0, PortParameters, RequestFields
     DEF Port!Enumerate, Typed, Port!Answer, Port!Refuse, Port!AfterRequest, Port!Status,
         Port!host, Port!bus, Port!ctrl, Port!out, Port!inp, Port!device
<1>2. /\ usb_EORST' = usb_EORST /\ usb_open' = usb_open /\ usb_BK0RDY' = usb_BK0RDY
      /\ usb_TRCPT0' = usb_TRCPT0
      /\ usb_taken1' = usb_taken1 /\ usb_read_job' = usb_read_job
  BY DEF Port!Enumerate, Port!Answer, Port!Refuse, Port!AfterRequest, Port!Status, Port!host,
         Port!bus, Port!ctrl, Port!out, Port!inp, Port!device
<1>3. PortFlags'
  <2>1. (usb_TRCPT1' = FALSE /\ usb_stalled' = usb_stalled)
            \/ (usb_stalled' = TRUE /\ usb_TRCPT1' = usb_TRCPT1)
    BY DEF Port!Enumerate, Port!Answer, Port!Refuse
  <2>. QED
    BY <1>0, <1>2, <2>1, Zenon DEF Port!Enumerate, PortFlags
<1>4. Asking'
  BY <1>0, RequestFields DEF Port!Enumerate, Typed, Asking, Answering, Port!None, Port!Answer,
                             Port!Refuse, Port!AfterRequest, Port!Status, Port!host, Port!bus,
                             Port!ctrl, Port!out, Port!inp, Port!device
<1>5. Answering'
  BY <1>0, RequestFields DEF Port!Enumerate, Typed, Asking, Answering, Port!None, Port!Answer,
                             Port!Refuse, Port!AfterRequest, Port!Status, Port!host, Port!bus,
                             Port!ctrl, Port!out, Port!inp, Port!device
<1>6. Agreed'
  BY <1>0, RequestFields DEF Port!Enumerate, Typed, Asking, Answering, Agreed, Meant,
                             Port!Answer, Port!Refuse, Port!AfterRequest, Port!Status, Port!host,
                             Port!bus, Port!ctrl, Port!out, Port!inp, Port!device
<1>7. Passing'
  BY <1>0 DEF Port!Enumerate, Typed, Passing, Port!Outstanding, Port!None, Port!Answer,
              Port!Refuse, Port!AfterRequest, Port!Status, Port!host, Port!bus, Port!ctrl,
              Port!out, Port!inp, Port!device
<1>. QED
  BY <1>0, <1>1, <1>3, <1>4, <1>5, <1>6, <1>7 DEF PortInv

\* The wait for the answer ends with the address of the host.
LEMMA TakenStep == ASSUME PortInv, Port!Taken PROVE PortInv'
<1>0. Typed /\ PortFlags /\ Asking /\ Answering /\ Agreed /\ Passing
  BY DEF PortInv
<1>1. Typed'
  BY <1>0, PortParameters, RequestFields
     DEF Port!Taken, Typed, Port!AfterRequest, Port!host, Port!bus, Port!ctrl, Port!out,
         Port!inp, Port!device
<1>2. /\ usb_EORST' = usb_EORST /\ usb_RXSTP' = usb_RXSTP /\ usb_TRCPT1' = usb_TRCPT1
      /\ usb_stalled' = usb_stalled
      /\ usb_TRCPT0' = usb_TRCPT0 /\ usb_taken1' = usb_taken1 /\ usb_read_job' = usb_read_job
  BY DEF Port!Taken, Port!AfterRequest, Port!host, Port!bus, Port!ctrl, Port!out, Port!inp,
         Port!device
<1>3. PortFlags'
  <2>1. (usb_open' = TRUE /\ usb_BK0RDY' = TRUE)
            \/ (usb_open' = usb_open /\ usb_BK0RDY' = usb_BK0RDY)
    BY DEF Port!Taken
  <2>. QED
    BY <1>0, <1>2, <2>1, Zenon DEF PortFlags
<1>4. Asking'
  BY <1>0, RequestFields DEF Port!Taken, Typed, Asking, Answering, Port!None, Port!AfterRequest,
                             Port!host, Port!bus, Port!ctrl, Port!out, Port!inp, Port!device
<1>5. Answering'
  BY <1>0, RequestFields DEF Port!Taken, Typed, Asking, Answering, Port!None, Port!AfterRequest,
                             Port!host, Port!bus, Port!ctrl, Port!out, Port!inp, Port!device
<1>6. Agreed'
  BY <1>0, RequestFields DEF Port!Taken, Typed, Asking, Answering, Agreed, Meant,
                             Port!AfterRequest, Port!host, Port!bus, Port!ctrl, Port!out,
                             Port!inp, Port!device
<1>7. Passing'
  BY <1>0 DEF Port!Taken, Typed, Passing, Port!Outstanding, Port!None, Port!AfterRequest,
              Port!host, Port!bus, Port!ctrl, Port!out, Port!inp, Port!device
<1>. QED
  BY <1>0, <1>1, <1>3, <1>4, <1>5, <1>6, <1>7 DEF PortInv

\* A pass without a request keeps the invariant.
LEMMA PollStep == ASSUME PortInv, Port!Poll PROVE PortInv'
<1>0. Typed /\ PortFlags /\ Asking /\ Answering /\ Agreed /\ Passing
  BY DEF PortInv
<1>1. Typed'
  BY <1>0, PortParameters, RequestFields
     DEF Port!Poll, Typed, Port!host, Port!bus, Port!ctrl, Port!out, Port!inp, Port!device
<1>2. /\ usb_EORST' = usb_EORST /\ usb_RXSTP' = usb_RXSTP /\ usb_TRCPT1' = usb_TRCPT1
      /\ usb_stalled' = usb_stalled
      /\ usb_open' = usb_open /\ usb_BK0RDY' = usb_BK0RDY /\ usb_TRCPT0' = usb_TRCPT0
      /\ usb_taken1' = usb_taken1
      /\ usb_read_job' = usb_read_job
  BY DEF Port!Poll, Port!host, Port!bus, Port!ctrl, Port!out, Port!inp, Port!device
<1>3. PortFlags'
  BY <1>0, <1>2, Zenon DEF Port!Poll, PortFlags
<1>4. Asking'
  BY <1>0, RequestFields DEF Port!Poll, Typed, Asking, Answering, Port!None, Port!host, Port!bus,
                             Port!ctrl, Port!out, Port!inp, Port!device
<1>5. Answering'
  BY <1>0, RequestFields DEF Port!Poll, Typed, Asking, Answering, Port!None, Port!host, Port!bus,
                             Port!ctrl, Port!out, Port!inp, Port!device
<1>6. Agreed'
  BY <1>0, RequestFields DEF Port!Poll, Typed, Asking, Answering, Agreed, Meant, Port!host,
                             Port!bus, Port!ctrl, Port!out, Port!inp, Port!device
<1>7. Passing'
  BY <1>0 DEF Port!Poll, Typed, Passing, Port!Outstanding, Port!None, Port!host, Port!bus,
              Port!ctrl, Port!out, Port!inp, Port!device
<1>. QED
  BY <1>0, <1>1, <1>3, <1>4, <1>5, <1>6, <1>7 DEF PortInv

\* USB_Read() opens the endpoint, or answers the packet that has come.
LEMMA ReadStep == ASSUME PortInv, Port!Read PROVE PortInv'
<1>0. Typed /\ PortFlags /\ Asking /\ Answering /\ Agreed /\ Passing
  BY DEF PortInv
<1>1. Typed'
  BY <1>0, PortParameters, RequestFields
     DEF Port!Read, Typed, Port!host, Port!bus, Port!ctrl, Port!out, Port!inp, Port!device
<1>2. /\ usb_EORST' = usb_EORST /\ usb_RXSTP' = usb_RXSTP /\ usb_TRCPT1' = usb_TRCPT1
      /\ usb_stalled' = usb_stalled
      /\ usb_open' = usb_open
  BY DEF Port!Read, Port!host, Port!bus, Port!ctrl, Port!out, Port!inp, Port!device
<1>3. PortFlags'
  <2>1. (usb_TRCPT0' = FALSE /\ usb_read_job' = FALSE /\ usb_taken1' = FALSE)
          \/ (usb_TRCPT0' = usb_TRCPT0 /\ usb_read_job' = TRUE /\ usb_taken1' = usb_taken1)
    BY DEF Port!Read, Port!inp
  <2>2. usb_BK0RDY' \in BOOLEAN
    BY <1>0, Zenon DEF Port!Read, PortFlags
  <2>. QED
    BY <1>0, <1>2, <2>1, <2>2, Zenon DEF PortFlags
<1>4. Asking'
  BY <1>0, RequestFields DEF Port!Read, Typed, Asking, Answering, Port!None, Port!host, Port!bus,
                             Port!ctrl, Port!out, Port!inp, Port!device
<1>5. Answering'
  BY <1>0, RequestFields DEF Port!Read, Typed, Asking, Answering, Port!None, Port!host, Port!bus,
                             Port!ctrl, Port!out, Port!inp, Port!device
<1>6. Agreed'
  BY <1>0, RequestFields DEF Port!Read, Typed, Asking, Answering, Agreed, Meant, Port!host,
                             Port!bus, Port!ctrl, Port!out, Port!inp, Port!device
<1>7. Passing'
  BY <1>0 DEF Port!Read, Typed, Passing, Port!Outstanding, Port!None, Port!host, Port!bus,
              Port!ctrl, Port!out, Port!inp, Port!device
<1>. QED
  BY <1>0, <1>1, <1>3, <1>4, <1>5, <1>6, <1>7 DEF PortInv

\* The wait for the answer of a packet ends.
LEMMA AnsweredStep == ASSUME PortInv, Port!Answered PROVE PortInv'
<1>0. Typed /\ PortFlags /\ Asking /\ Answering /\ Agreed /\ Passing
  BY DEF PortInv
<1>1. Typed'
  BY <1>0, PortParameters, RequestFields
     DEF Port!Answered, Typed, Port!host, Port!bus, Port!ctrl, Port!out, Port!inp, Port!device
<1>2. /\ usb_EORST' = usb_EORST /\ usb_RXSTP' = usb_RXSTP /\ usb_TRCPT1' = usb_TRCPT1
      /\ usb_stalled' = usb_stalled
      /\ usb_open' = usb_open /\ usb_BK0RDY' = usb_BK0RDY /\ usb_TRCPT0' = usb_TRCPT0
      /\ usb_taken1' = usb_taken1
      /\ usb_read_job' = usb_read_job
  BY DEF Port!Answered, Port!host, Port!bus, Port!ctrl, Port!out, Port!inp, Port!device
<1>3. PortFlags'
  BY <1>0, <1>2, Zenon DEF Port!Answered, PortFlags
<1>4. Asking'
  BY <1>0, RequestFields DEF Port!Answered, Typed, Asking, Answering, Port!None, Port!host,
                             Port!bus, Port!ctrl, Port!out, Port!inp, Port!device
<1>5. Answering'
  BY <1>0, RequestFields DEF Port!Answered, Typed, Asking, Answering, Port!None, Port!host,
                             Port!bus, Port!ctrl, Port!out, Port!inp, Port!device
<1>6. Agreed'
  BY <1>0, RequestFields DEF Port!Answered, Typed, Asking, Answering, Agreed, Meant, Port!host,
                             Port!bus, Port!ctrl, Port!out, Port!inp, Port!device
<1>7. Passing'
  BY <1>0 DEF Port!Answered, Typed, Passing, Port!Outstanding, Port!None, Port!host, Port!bus,
              Port!ctrl, Port!out, Port!inp, Port!device
<1>. QED
  BY <1>0, <1>1, <1>3, <1>4, <1>5, <1>6, <1>7 DEF PortInv

\* A bus reset finds no answer of a request under way.
LEMMA HostResetStep == ASSUME PortInv, Port!HostReset PROVE PortInv'
<1>0. Typed /\ PortFlags /\ Asking /\ Answering /\ Agreed /\ Passing
  BY DEF PortInv
<1>1. Typed'
  BY <1>0, PortParameters, RequestFields
     DEF Port!HostReset, Typed, Port!host, Port!bus, Port!ctrl, Port!out, Port!inp, Port!device
<1>2. /\ usb_RXSTP' = usb_RXSTP /\ usb_TRCPT1' = usb_TRCPT1 /\ usb_stalled' = usb_stalled
      /\ usb_BK0RDY' = usb_BK0RDY
      /\ usb_TRCPT0' = usb_TRCPT0 /\ usb_taken1' = usb_taken1 /\ usb_read_job' = usb_read_job
  BY DEF Port!HostReset, Port!host, Port!bus, Port!ctrl, Port!out, Port!inp, Port!device
<1>3. PortFlags'
  BY <1>0, <1>2, Zenon DEF Port!HostReset, PortFlags
<1>4. Asking'
  BY <1>0, RequestFields DEF Port!HostReset, Typed, Asking, Answering, Port!None, Port!host,
                             Port!bus, Port!ctrl, Port!out, Port!inp, Port!device
<1>5. Answering'
  BY <1>0, RequestFields DEF Port!HostReset, Typed, Asking, Answering, Port!None, Port!host,
                             Port!bus, Port!ctrl, Port!out, Port!inp, Port!device
<1>6. Agreed'
  BY <1>0, RequestFields DEF Port!HostReset, Typed, Asking, Answering, Agreed, Meant, Port!host,
                             Port!bus, Port!ctrl, Port!out, Port!inp, Port!device
<1>7. Passing'
  BY <1>0 DEF Port!HostReset, Typed, Passing, Port!Outstanding, Port!None, Port!host, Port!bus,
              Port!ctrl, Port!out, Port!inp, Port!device
<1>. QED
  BY <1>0, <1>1, <1>3, <1>4, <1>5, <1>6, <1>7 DEF PortInv

\* A request finds nothing left of the one before.
LEMMA HostRequestStep == ASSUME PortInv, NEW r \in Port!Requests, Port!HostRequest(r)
                         PROVE  PortInv'
<1>0. Typed /\ PortFlags /\ Asking /\ Answering /\ Agreed /\ Passing
  BY DEF PortInv
<1>1. Typed'
  BY <1>0, PortParameters, RequestFields
     DEF Port!HostRequest, Typed, Port!host, Port!bus, Port!ctrl, Port!out, Port!inp, Port!device
<1>2. /\ usb_EORST' = usb_EORST /\ usb_TRCPT1' = usb_TRCPT1 /\ usb_open' = usb_open
      /\ usb_BK0RDY' = usb_BK0RDY
      /\ usb_TRCPT0' = usb_TRCPT0 /\ usb_taken1' = usb_taken1 /\ usb_read_job' = usb_read_job
  BY DEF Port!HostRequest, Port!host, Port!bus, Port!ctrl, Port!out, Port!inp, Port!device
<1>3. PortFlags'
  BY <1>0, <1>2, Zenon DEF Port!HostRequest, PortFlags
<1>4. Asking'
  BY <1>0, RequestFields DEF Port!HostRequest, Typed, Asking, Answering, Port!None, Port!host,
                             Port!bus, Port!ctrl, Port!out, Port!inp, Port!device
<1>5. Answering'
  BY <1>0, RequestFields DEF Port!HostRequest, Typed, Asking, Answering, Port!None, Port!host,
                             Port!bus, Port!ctrl, Port!out, Port!inp, Port!device
<1>6. Agreed'
  BY <1>0, RequestFields DEF Port!HostRequest, Typed, Asking, Answering, Agreed, Meant,
                             Port!host, Port!bus, Port!ctrl, Port!out, Port!inp, Port!device
<1>7. Passing'
  BY <1>0 DEF Port!HostRequest, Typed, Passing, Port!Outstanding, Port!None, Port!host, Port!bus,
              Port!ctrl, Port!out, Port!inp, Port!device
<1>. QED
  BY <1>0, <1>1, <1>3, <1>4, <1>5, <1>6, <1>7 DEF PortInv

\* The host takes the answer of its own request.
LEMMA HostTakesStep == ASSUME PortInv, Port!HostTakes PROVE PortInv'
<1>0. Typed /\ PortFlags /\ Asking /\ Answering /\ Agreed /\ Passing
  BY DEF PortInv
<1>1. Typed'
  BY <1>0, PortParameters, RequestFields
     DEF Port!HostTakes, Typed, Port!host, Port!bus, Port!ctrl, Port!out, Port!inp, Port!device
<1>2. /\ usb_EORST' = usb_EORST /\ usb_RXSTP' = usb_RXSTP /\ usb_stalled' = usb_stalled
      /\ usb_open' = usb_open
      /\ usb_BK0RDY' = usb_BK0RDY /\ usb_TRCPT0' = usb_TRCPT0 /\ usb_taken1' = usb_taken1
      /\ usb_read_job' = usb_read_job
  BY DEF Port!HostTakes, Port!host, Port!bus, Port!ctrl, Port!out, Port!inp, Port!device
<1>3. PortFlags'
  BY <1>0, <1>2, Zenon DEF Port!HostTakes, PortFlags
<1>4. Asking'
  BY <1>0, RequestFields DEF Port!HostTakes, Typed, Asking, Answering, Port!None, Port!host,
                             Port!bus, Port!ctrl, Port!out, Port!inp, Port!device
<1>5. Answering'
  BY <1>0, RequestFields DEF Port!HostTakes, Typed, Asking, Answering, Port!None, Port!host,
                             Port!bus, Port!ctrl, Port!out, Port!inp, Port!device
<1>6. Agreed'
  BY <1>0, RequestFields DEF Port!HostTakes, Typed, Asking, Answering, Agreed, Meant, Port!host,
                             Port!bus, Port!ctrl, Port!out, Port!inp, Port!device
<1>7. Passing'
  BY <1>0 DEF Port!HostTakes, Typed, Passing, Port!Outstanding, Port!None, Port!host, Port!bus,
              Port!ctrl, Port!out, Port!inp, Port!device
<1>. QED
  BY <1>0, <1>1, <1>3, <1>4, <1>5, <1>6, <1>7 DEF PortInv

\* The host is told of the refusal.
LEMMA HostRefusedStep == ASSUME PortInv, Port!HostRefused PROVE PortInv'
<1>0. Typed /\ PortFlags /\ Asking /\ Answering /\ Agreed /\ Passing
  BY DEF PortInv
<1>1. Typed'
  BY <1>0, PortParameters, RequestFields
     DEF Port!HostRefused, Typed, Port!host, Port!bus, Port!ctrl, Port!out, Port!inp, Port!device
<1>2. /\ usb_EORST' = usb_EORST /\ usb_RXSTP' = usb_RXSTP /\ usb_TRCPT1' = usb_TRCPT1
      /\ usb_open' = usb_open
      /\ usb_BK0RDY' = usb_BK0RDY /\ usb_TRCPT0' = usb_TRCPT0 /\ usb_taken1' = usb_taken1
      /\ usb_read_job' = usb_read_job
  BY DEF Port!HostRefused, Port!host, Port!bus, Port!ctrl, Port!out, Port!inp, Port!device
<1>3. PortFlags'
  BY <1>0, <1>2, Zenon DEF Port!HostRefused, PortFlags
<1>4. Asking'
  BY <1>0, RequestFields DEF Port!HostRefused, Typed, Asking, Answering, Port!None, Port!host,
                             Port!bus, Port!ctrl, Port!out, Port!inp, Port!device
<1>5. Answering'
  BY <1>0, RequestFields DEF Port!HostRefused, Typed, Asking, Answering, Port!None, Port!host,
                             Port!bus, Port!ctrl, Port!out, Port!inp, Port!device
<1>6. Agreed'
  BY <1>0, RequestFields DEF Port!HostRefused, Typed, Asking, Answering, Agreed, Meant,
                             Port!host, Port!bus, Port!ctrl, Port!out, Port!inp, Port!device
<1>7. Passing'
  BY <1>0 DEF Port!HostRefused, Typed, Passing, Port!Outstanding, Port!None, Port!host, Port!bus,
              Port!ctrl, Port!out, Port!inp, Port!device
<1>. QED
  BY <1>0, <1>1, <1>3, <1>4, <1>5, <1>6, <1>7 DEF PortInv

\* The host sends once its packet is answered.
LEMMA HostSendsStep == ASSUME PortInv, Port!HostSends PROVE PortInv'
<1>0. Typed /\ PortFlags /\ Asking /\ Answering /\ Agreed /\ Passing
  BY DEF PortInv
<1>1. Typed'
  BY <1>0, PortParameters, RequestFields
     DEF Port!HostSends, Typed, Port!Talks, Port!host, Port!bus, Port!ctrl, Port!out, Port!inp,
         Port!device
<1>2. /\ usb_EORST' = usb_EORST /\ usb_RXSTP' = usb_RXSTP /\ usb_TRCPT1' = usb_TRCPT1
      /\ usb_stalled' = usb_stalled
      /\ usb_open' = usb_open /\ usb_taken1' = usb_taken1 /\ usb_read_job' = usb_read_job
  BY DEF Port!HostSends, Port!Talks, Port!host, Port!bus, Port!ctrl, Port!out, Port!inp,
         Port!device
<1>3. PortFlags'
  BY <1>0, <1>2, Zenon DEF Port!HostSends, PortFlags, Port!Talks
<1>4. Asking'
  BY <1>0, RequestFields DEF Port!HostSends, Typed, Asking, Answering, Port!None, Port!Talks,
                             Port!host, Port!bus, Port!ctrl, Port!out, Port!inp, Port!device
<1>5. Answering'
  BY <1>0, RequestFields DEF Port!HostSends, Typed, Asking, Answering, Port!None, Port!Talks,
                             Port!host, Port!bus, Port!ctrl, Port!out, Port!inp, Port!device
<1>6. Agreed'
  BY <1>0, RequestFields DEF Port!HostSends, Typed, Asking, Answering, Agreed, Meant, Port!Talks,
                             Port!host, Port!bus, Port!ctrl, Port!out, Port!inp, Port!device
<1>7. Passing'
  <2>1. /\ ~Port!Outstanding /\ usb_sent' = usb_sent + 1 /\ usb_packet' = usb_sent'
        /\ usb_answers' = usb_answers /\ usb_ep1' = usb_ep1
    BY DEF Port!HostSends, Port!inp, Port!device
  <2>2. Len(usb_answers) = usb_sent /\ Len(usb_answers) \in Nat /\ usb_sent \in Nat
    BY <1>0, <2>1, AnswerCount DEF Port!Outstanding
  <2>3. usb_ep1 = Port!None
    BY <1>0, <2>1 DEF Passing
  <2>. QED
    BY <1>0, <2>1, <2>2, <2>3 DEF Passing, Port!Outstanding
<1>. QED
  BY <1>0, <1>1, <1>3, <1>4, <1>5, <1>6, <1>7 DEF PortInv

\* The answer is that of the packet that was sent last.
LEMMA HostReadsStep == ASSUME PortInv, Port!HostReads PROVE PortInv'
<1>0. Typed /\ PortFlags /\ Asking /\ Answering /\ Agreed /\ Passing
  BY DEF PortInv
<1>1. Typed'
  BY <1>0, PortParameters, RequestFields
     DEF Port!HostReads, Typed, Port!host, Port!bus, Port!ctrl, Port!out, Port!inp, Port!device
<1>2. /\ usb_EORST' = usb_EORST /\ usb_RXSTP' = usb_RXSTP /\ usb_TRCPT1' = usb_TRCPT1
      /\ usb_stalled' = usb_stalled
      /\ usb_open' = usb_open /\ usb_BK0RDY' = usb_BK0RDY /\ usb_TRCPT0' = usb_TRCPT0
      /\ usb_read_job' = usb_read_job
  BY DEF Port!HostReads, Port!host, Port!bus, Port!ctrl, Port!out, Port!inp, Port!device
<1>3. PortFlags'
  BY <1>0, <1>2, Zenon DEF Port!HostReads, PortFlags
<1>4. Asking'
  BY <1>0, RequestFields DEF Port!HostReads, Typed, Asking, Answering, Port!None, Port!host,
                             Port!bus, Port!ctrl, Port!out, Port!inp, Port!device
<1>5. Answering'
  BY <1>0, RequestFields DEF Port!HostReads, Typed, Asking, Answering, Port!None, Port!host,
                             Port!bus, Port!ctrl, Port!out, Port!inp, Port!device
<1>6. Agreed'
  BY <1>0, RequestFields DEF Port!HostReads, Typed, Asking, Answering, Agreed, Meant, Port!host,
                             Port!bus, Port!ctrl, Port!out, Port!inp, Port!device
<1>7. Passing'
  <2>1. /\ usb_answers' = Append(usb_answers, usb_ep1) /\ usb_ep1' = Port!None
        /\ usb_sent' = usb_sent /\ usb_packet' = usb_packet
        /\ usb_ep1 # Port!None /\ usb_TRCPT0' = usb_TRCPT0
    BY DEF Port!HostReads, Port!out
  <2>2. Port!Outstanding /\ usb_ep1 = usb_sent /\ ~usb_TRCPT0 /\ usb_answers \in Seq(Nat)
          /\ usb_answers = [i \in 1..Len(usb_answers) |-> i]
    BY <1>0, <2>1 DEF Passing
  <2>3. usb_ep1 = Len(usb_answers) + 1 /\ usb_sent = Len(usb_answers) + 1
            /\ Len(usb_answers) \in Nat
    BY <1>0, <2>2, AnswerCount DEF Port!Outstanding
  <2>4. /\ usb_answers' \in Seq(Nat) /\ Len(usb_answers') = Len(usb_answers) + 1
        /\ \A i \in 1..Len(usb_answers') : usb_answers'[i] = i
    BY <2>1, <2>2, <2>3, AppendProperties
  <2>5. usb_answers' = [i \in 1..Len(usb_answers') |-> i]
    BY <2>4, LenProperties
  <2>. QED
    BY <2>1, <2>2, <2>3, <2>4, <2>5 DEF Passing, Port!Outstanding
<1>. QED
  BY <1>0, <1>1, <1>3, <1>4, <1>5, <1>6, <1>7 DEF PortInv

\* A step of anything else keeps the invariant.
LEMMA PortStutters == ASSUME PortInv, UNCHANGED Port!vars PROVE PortInv'
<1>0. Typed /\ PortFlags /\ Asking /\ Answering /\ Agreed /\ Passing
  BY DEF PortInv
<1>1. UNCHANGED <<Port!host, Port!bus, Port!ctrl, Port!out, Port!inp, Port!device>>
  BY DEF Port!vars
<1>2. Typed' /\ PortFlags'
  BY <1>0, <1>1 DEF Port!host, Port!bus, Port!ctrl, Port!out, Port!inp, Port!device, Typed, PortFlags
<1>3. Asking' /\ Answering'
  BY <1>0, <1>1 DEF Port!host, Port!bus, Port!ctrl, Port!out, Port!inp, Port!device, Asking,
                    Answering
<1>4. Agreed' /\ Passing'
  BY <1>0, <1>1 DEF Port!host, Port!bus, Port!ctrl, Port!out, Port!inp, Port!device, Agreed,
                    Meant, Passing, Port!Outstanding
<1>. QED
  BY <1>2, <1>3, <1>4 DEF PortInv

-----------------------------------------------------------------------------
(* The theorems. *)

\* The inductive invariant holds of every behaviour of the polled loop (sam_ba_cdc.c,
\* board_driver_usb.c) and its host.
THEOREM PortInvariance == Port!Spec => []PortInv
<1>1. PortInv /\ [Port!Next]_Port!vars => PortInv'
  BY EndOfResetStep, EnumerateStep, TakenStep, PollStep, ReadStep, AnsweredStep, HostResetStep,
     HostRequestStep, HostTakesStep, HostRefusedStep, HostSendsStep, HostReadsStep, PortStutters
     DEF Port!Next, Port!Device
<1>. QED
  BY <1>1, PortStarts, PTL DEF Port!Spec

\* The invariant has the types and both properties in it.
LEMMA PortKnows == PortInv => Port!TypeOK /\ Port!HostAndDeviceAgree /\ Port!AnsweredInOrder
<1> SUFFICES ASSUME PortInv PROVE Port!TypeOK /\ Port!HostAndDeviceAgree /\ Port!AnsweredInOrder
  OBVIOUS
<1>0. Typed /\ PortFlags /\ Asking /\ Answering /\ Agreed /\ Passing
  BY DEF PortInv
<1>1. Port!HostAndDeviceAgree
  BY <1>0 DEF Port!HostAndDeviceAgree, Typed, Asking, Answering, Agreed, Meant, Port!NoRequest
<1>2. Port!AnsweredInOrder
  <2>1. usb_answers = [i \in 1..Len(usb_answers) |-> i]
    BY <1>0 DEF Passing
  <2>2. Len(usb_answers) <= usb_sent
    BY <1>0, AnswerCount
  <2>. QED
    BY <2>1, <2>2 DEF Port!AnsweredInOrder
<1>3. Port!TypeOK
  <2>1. {usb_EORST, usb_RXSTP, usb_TRCPT1, usb_stalled, usb_open, usb_BK0RDY, usb_TRCPT0,
         usb_taken1, usb_read_job} \subseteq BOOLEAN
    BY <1>0, Zenon DEF PortFlags
  <2>. QED
    BY <1>0, <2>1 DEF Port!TypeOK, Typed
<1>. QED
  BY <1>1, <1>2, <1>3

\* The types hold of every behaviour.
THEOREM PortTypes == Port!Spec => []Port!TypeOK
<1>. QED
  BY PortKnows, PortInvariance, PTL

\* The polled port (sam_ba_usb.c): between the requests host and bootloader have the same address
\* and configuration, through bus resets wherever they come, a halted endpoint is reported, and the
\* packets are answered once and in order.  For every number of requests, resets and packets.
THEOREM PortIsSound == Port!Spec => []PortSound
<1>. QED
  BY PortKnows, PortInvariance, PTL DEF PortSound

-----------------------------------------------------------------------------
(* The monitor: what Monitor_proofs shows holds of the one in Bootloader, whose host flushes. *)

Parser == INSTANCE Monitor_proofs WITH
  Scripts <- MonScripts, MaxPacket <- MonPacket, Flushes <- TRUE,
  script <- mon_script, sent <- mon_sent, bank <- mon_bank, data <- mon_data,
  command <- mon_command, current_number <- mon_current_number, ptr_data <- mon_ptr_data,
  todo <- mon_todo, dst <- mon_dst, memory <- mon_memory, answers <- mon_answers

\* The constants of the bootloader are those that the proofs suppose,
LEMMA ParserConstants == Parser!MonitorAssumption /\ TRUE
BY BootloaderAssumption DEF BootloaderAssumption, Mon!MonitorAssumption, Parser!MonitorAssumption,
  Mon!Commands, Parser!Commands, Mon!Letters, Parser!Letters, Mon!Character, Parser!Character,
  Mon!Address, Parser!Address, Mon!Digits, Parser!Digits, Mon!Range, Parser!Range

\* and its monitor is the one that they are about.
LEMMA ParserIsMonitor == Mon!Spec => Parser!Spec
<1>1. Mon!Init => Parser!Init
  BY DEF Mon!Init, Parser!Init, Mon!Address, Parser!Address
<1>2. Mon!Next => Parser!Next
  BY DEF Mon!Digits, Parser!Digits, Mon!Address, Parser!Address, Mon!parser, Parser!parser,
         Mon!xmd, Parser!xmd, Mon!vars, Parser!vars, Mon!High, Parser!High, Mon!Low,
         Parser!Low, Mon!Line, Parser!Line, Mon!Characters, Parser!Characters, Mon!First,
         Parser!First, Mon!Stream, Parser!Stream, Mon!Ends, Parser!Ends, Mon!Send,
         Parser!Send, Mon!Least, Parser!Least, Mon!Stored, Parser!Stored, Mon!ReadBuffer,
         Parser!ReadBuffer, Mon!Read, Parser!Read, Mon!NextDst, Parser!NextDst, Mon!ReadXmd,
         Parser!ReadXmd, Mon!Parse, Parser!Parse, Mon!ParseDigit, Parser!ParseDigit,
         Mon!ParseComma, Parser!ParseComma, Mon!ParseCommand, Parser!ParseCommand,
         Mon!Execute, Parser!Execute, Mon!ExecuteS, Parser!ExecuteS, Mon!ExecuteO,
         Parser!ExecuteO, Mon!Execute_o, Parser!Execute_o, Mon!ExecuteV, Parser!ExecuteV,
         Mon!ExecuteNone, Parser!ExecuteNone, Mon!Loop, Parser!Loop, Mon!Letters,
         Parser!Letters, Mon!Next, Parser!Next, Mon!FoldLeft, Parser!FoldLeft,
         Mon!MapThenFoldSet, Parser!MapThenFoldSet, Mon!Max, Parser!Max
<1>3. UNCHANGED Mon!vars => UNCHANGED Parser!vars
  BY DEF Mon!vars, Parser!vars, Mon!parser, Parser!parser, Mon!xmd, Parser!xmd
<1>. QED
  BY <1>1, <1>2, <1>3, PTL DEF Mon!Spec, Parser!Spec

\* Between two commands memory and answers are what the commands make of them that the monitor
\* (sam_ba_monitor.c) has taken, in their order: for every script and every size of a packet, of a
\* host that ends a packet with each line and with the data of S.
THEOREM MonitorObeys == Mon!Spec => []AsCommanded
<1>1. Parser!Spec => []Parser!AsCommanded
  BY ParserConstants, Parser!DoesAsCommanded
<1>2. Parser!AsCommanded => AsCommanded
  BY DEF AsCommanded, Mon!AsCommanded, Parser!AsCommanded, Mon!After, Parser!After, Mon!Effect,
         Parser!Effect, Mon!Low, Parser!Low, Mon!Digits, Parser!Digits, Mon!Address,
         Parser!Address, Mon!FoldLeft, Parser!FoldLeft, Mon!MapThenFoldSet,
         Parser!MapThenFoldSet, Mon!Max, Parser!Max, Mon!First, Parser!First, Mon!Characters,
         Parser!Characters, Mon!Line, Parser!Line, Mon!High, Parser!High
<1>. QED
  BY <1>1, <1>2, ParserIsMonitor, PTL

\* Every variable of the bootloader stays in its type: the life cycle of the board (main.c), both
\* transfers (sam_ba_serial.c; lengths that size_of_data holds), the monitor (sam_ba_monitor.c) and
\* the port (sam_ba_usb.c).
THEOREM BootloaderTypes ==
  SizeHolds /\ LSpec /\ Put!Spec /\ Get!Spec /\ Mon!Spec /\ Port!Spec => []TypesOK
<1>0. SUFFICES ASSUME SizeHolds
               PROVE  LSpec /\ Put!Spec /\ Get!Spec /\ Mon!Spec /\ Port!Spec => []TypesOK
  OBVIOUS
<1>1. Put!SendAssumption /\ Get!ReceiveAssumption
  BY BootloaderAssumption DEF BootloaderAssumption
<1>2. Put!Spec => []Put!TypeOK
  BY <1>1, SendTypes
<1>3. Get!Spec => []Get!TypeOK
  BY <1>0, <1>1, ReceiveTypes
<1>4. Parser!Spec => []Parser!TypeOK
  BY ParserConstants, Parser!MonitorTypes
<1>5. Parser!TypeOK => Mon!TypeOK
  BY DEF Mon!TypeOK, Parser!TypeOK, Mon!Stream, Parser!Stream, Mon!First, Parser!First,
         Mon!FoldLeft, Parser!FoldLeft, Mon!MapThenFoldSet, Parser!MapThenFoldSet, Mon!Max,
         Parser!Max, Mon!Characters, Parser!Characters, Mon!Line, Parser!Line, Mon!High,
         Parser!High, Mon!Low, Parser!Low, Mon!Digits, Parser!Digits, Mon!Letters, Parser!Letters
<1>. QED
  BY <1>2, <1>3, <1>4, <1>5, CycleTypes, PortTypes, ParserIsMonitor, PTL DEF TypesOK
=============================================================================
