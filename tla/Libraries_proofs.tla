-------------------------- MODULE Libraries_proofs ---------------------------
(***************************************************************************)
(* Proofs about the libraries.  The two roles of TwoWire: the master,      *)
(* for calls of every length and every loss of the bus, where an           *)
(* arbitration was lost is told from the place of the call and the owner   *)
(* of the bus; the slave, for every size of the buffers and however many   *)
(* transfers, of whatever length, the master makes.  The clock (Rtc), for  *)
(* every number of seconds, minutes, hours and days.  print()              *)
(* (PrintNumber), for every number and base.  findMulti(), parseInt() and  *)
(* readBytesUntil() (TextStream), and replace() (Strings), for every text. *)
(***************************************************************************)
EXTENDS Libraries, FoldLemmas

-----------------------------------------------------------------------------
(* The invariant of the master. *)

\* What the hardware does, and where.
OnTheBus ==
  /\ hw # "none" => bus = "owner" /\ ~MB /\ ~SB
  /\ pc \in {"sketch", "start"} => hw = "none"
  /\ hw = "address" => pc \in {"address", "check"}
  /\ hw = "data" => flag = "write" /\ pc = "wait"
  /\ hw = "read" => flag = "read" /\ pc \in {"wait", "data"}
  /\ rxBuffer \in Seq(BOOLEAN)

\* A write: where arbitration was lost, this master does not own the bus, and
\* where it was not, what was acknowledged is what was sent.
Writing == flag = "write" =>
  /\ pc # "sketch" => txBuffer <= length
  /\ pc \in {"start", "address", "check"} => txBuffer = length /\ delivered = 0 /\ lost # "data"
  /\ pc = "start" /\ again => lost = "address"
  /\ pc = "address" =>
       \/ bus = "owner" /\ hw = "address"
       \/ bus = "owner" /\ hw = "none" /\ MB /\ (RXNACK \/ acked)
       \/ bus # "owner" /\ lost = "address"
  /\ pc = "check" /\ ~timeoutOccurred /\ ~RXNACK =>
       \/ bus = "owner" /\ acked /\ hw = "none"
       \/ bus # "owner" /\ lost = "address"
  /\ pc = "data" =>
       /\ ~timeoutOccurred /\ hw = "none"
       /\ \/ bus = "owner" /\ acked /\ delivered = length - txBuffer
          \/ bus # "owner" /\ lost = "data"
          \/ bus # "owner" /\ lost = "address" /\ txBuffer = length
  /\ pc = "wait" =>
       /\ ~timeoutOccurred
       /\ \/ bus = "owner" /\ acked /\ hw = "data" /\ delivered + 1 = length - txBuffer
          \/ /\ bus = "owner" /\ acked /\ hw = "none" /\ MB
             /\ RXNACK \/ delivered = length - txBuffer
          \/ bus # "owner" /\ lost = "data"
          \/ bus # "owner" /\ lost = "address" /\ ~MB

\* How many of the bytes read rxBuffer holds.
Kept(n) == IF n <= BufSize THEN n ELSE BufSize

\* A read: every byte but the last was received, and the last one unless the
\* bus was lost with it.
Reading == flag = "read" =>
  /\ length > 0
  /\ pc # "sketch" => ~again
  /\ pc \in {"start", "address", "check"} => byteRead = 0 /\ rxBuffer = <<>> /\ delivered = 0
  /\ pc = "address" =>
       \/ hw = "address"
       \/ MB /\ ~SB
       \/ ~MB /\ SB /\ ~RXNACK /\ bus = "owner"
  /\ pc = "check" /\ ~timeoutOccurred => hw = "none" /\ SB /\ ~RXNACK /\ bus = "owner"
  /\ pc \in {"data", "wait"} =>
       /\ Len(rxBuffer) = Kept(byteRead) /\ byteRead > 0 /\ byteRead <= length
       /\ byteRead > 1 \/ pc = "wait" => busOwner
  /\ pc = "data" =>
       /\ delivered <= byteRead
       /\ hw = "read" => timeoutOccurred /\ delivered < byteRead
       /\ \/ timeoutOccurred
          \/ \A n \in 1..Len(rxBuffer) :
               rxBuffer[n] \/ (n = byteRead /\ lost = "data" /\ bus # "owner")
  /\ pc = "wait" =>
       /\ ~timeoutOccurred /\ byteRead < length
       /\ delivered <= byteRead + 1
       /\ hw = "read" => delivered <= byteRead
       /\ \A n \in 1..Len(rxBuffer) : rxBuffer[n]
       /\ hw = "read" \/ SB \/ (lost = "data" /\ bus # "owner")

\* The invariant of the master.
MasterInv ==
  /\ TypeOK /\ OnTheBus /\ Writing /\ Reading
  /\ MasterSound

-----------------------------------------------------------------------------
(* The invariant, in the parts that the provers reason about apart. *)

\* The state without the flags.
Places ==
  /\ bus \in {"idle", "owner", "busy"}
  /\ hw \in {"none", "address", "data", "read"}
  /\ pc \in {"sketch", "start", "address", "check", "data", "wait", "stop"}
  /\ flag \in {"write", "read"} /\ length \in 0..MaxBytes
  /\ txBuffer \in 0..MaxBytes /\ Len(rxBuffer) <= BufSize /\ byteRead \in 0..MaxBytes
  /\ result \in 0..5 \cup 0..MaxBytes
  /\ calls \in 0..MaxCalls /\ losses \in 0..MaxLost
  /\ delivered \in 0..MaxBytes /\ lost \in {"none", "address", "data"}

\* The flags.
FlagTypes ==
  /\ ARBLOST \in BOOLEAN /\ RXNACK \in BOOLEAN /\ MB \in BOOLEAN /\ SB \in BOOLEAN
  /\ timeoutOccurred \in BOOLEAN /\ again \in BOOLEAN /\ stop \in BOOLEAN
  /\ busOwner \in BOOLEAN /\ acked \in BOOLEAN

\* Type correctness, split for the provers.
LEMMA TypeParts == TypeOK <=> Places /\ FlagTypes
BY DEF TypeOK, Places, FlagTypes

\* MasterInv, with its types in these parts.
Inv == Places /\ FlagTypes /\ OnTheBus /\ Writing /\ Reading /\ MasterSound

\* The constants are numbers.
LEMMA Constants ==
  ASSUME WireAssumption
  PROVE  /\ MaxBytes \in Nat /\ MaxCalls \in Nat /\ MaxLost \in Nat
         /\ BufSize \in Nat /\ BufSize > 0
BY DEF WireAssumption

\* Within a call nothing is reported yet.
LEMMA Unreported == ASSUME pc' # "sketch" PROVE MasterSound'
BY DEF MasterSound, SuccessIsDelivered, ReadIsReceived, BusReleased, Done

-----------------------------------------------------------------------------
(* The steps of the hardware. *)

\* What the hardware leaves to the sketch.
Aside == UNCHANGED <<timeoutOccurred, pc, again, flag, length, stop, calls, txBuffer, rxBuffer,
                     byteRead, busOwner, result>>

\* The address or a byte is acknowledged.
LEMMA AcknowledgedStep ==
  ASSUME WireAssumption, Inv, Acknowledged, Aside
  PROVE  Inv'
<1>1. /\ hw \in {"address", "data"} /\ hw' = "none" /\ UNCHANGED <<bus, ARBLOST, losses, lost>>
      /\ delivered' = IF hw = "data" THEN delivered + 1 ELSE delivered
  BY DEF Acknowledged, Flags
<1>2. (MB' <=> (hw = "data" \/ flag = "write")) /\ (SB' <=> (hw = "address" /\ flag = "read"))
  BY Zenon DEF Acknowledged, Flags
<1>3. ~RXNACK' /\ acked'
  BY Zenon DEF Acknowledged, Flags
<1>4. pc # "sketch" /\ pc' # "sketch" /\ MaxBytes \in Nat
  BY <1>1, Constants DEF Inv, OnTheBus, Aside
<1>5. Places'
  BY <1>1, <1>4 DEF Inv, Places, Aside, Writing, OnTheBus
<1>6. FlagTypes'
  <2>1. MB' \in BOOLEAN /\ SB' \in BOOLEAN /\ RXNACK' \in BOOLEAN /\ acked' \in BOOLEAN
    BY Zenon DEF Acknowledged, Flags
  <2> QED
    BY <1>1, <2>1 DEF Inv, FlagTypes, Aside
<1>7. OnTheBus'
  BY <1>1, <1>4 DEF Inv, OnTheBus, Aside
<1>8. Writing'
  BY <1>1, <1>2, <1>3, <1>4 DEF Inv, Places, OnTheBus, Writing, Aside
<1>9. Reading'
  BY <1>1, <1>2, <1>3, <1>4 DEF Inv, Places, OnTheBus, Reading, Aside
<1> QED
  BY <1>4, <1>5, <1>6, <1>7, <1>8, <1>9, Unreported DEF Inv

\* The slave refuses.
LEMMA RefusedStep ==
  ASSUME WireAssumption, Inv, Refused, Aside
  PROVE  Inv'
<1>1. /\ hw \in {"address", "data"} /\ hw' = "none"
      /\ UNCHANGED <<bus, ARBLOST, losses, acked, delivered, lost>>
  BY DEF Refused, Flags, history
<1>2. MB' /\ ~SB' /\ RXNACK'
  BY Zenon DEF Refused, Flags
<1>3. pc # "sketch" /\ pc' # "sketch"
  BY <1>1 DEF Inv, OnTheBus, Aside
<1>4. Places'
  BY <1>1 DEF Inv, Places, Aside
<1>5. FlagTypes'
  <2>1. MB' \in BOOLEAN /\ SB' \in BOOLEAN /\ RXNACK' \in BOOLEAN
    BY Zenon DEF Refused, Flags
  <2> QED
    BY <1>1, <2>1 DEF Inv, FlagTypes, Aside
<1>6. OnTheBus'
  BY <1>1, <1>3 DEF Inv, OnTheBus, Aside
<1>7. Writing'
  BY <1>1, <1>2, <1>3 DEF Inv, Places, OnTheBus, Writing, Aside
<1>8. Reading'
  BY <1>1, <1>2, <1>3 DEF Inv, Places, OnTheBus, Reading, Aside
<1> QED
  BY <1>3, <1>4, <1>5, <1>6, <1>7, <1>8, Unreported DEF Inv

\* A byte is received.
LEMMA ReceivedStep ==
  ASSUME WireAssumption, Inv, ByteReceived, Aside
  PROVE  Inv'
<1>1. /\ hw = "read" /\ hw' = "none" /\ delivered' = delivered + 1
      /\ UNCHANGED <<bus, ARBLOST, losses, acked, lost>>
  BY DEF ByteReceived, Flags
<1>2. ~MB' /\ SB' /\ ~RXNACK'
  BY Zenon DEF ByteReceived, Flags
<1>3. pc # "sketch" /\ pc' # "sketch" /\ MaxBytes \in Nat
  BY <1>1, Constants DEF Inv, OnTheBus, Aside
<1>4. Places'
  BY <1>1, <1>3 DEF Inv, Places, Aside, Reading, OnTheBus
<1>5. FlagTypes'
  <2>1. MB' \in BOOLEAN /\ SB' \in BOOLEAN /\ RXNACK' \in BOOLEAN
    BY Zenon DEF ByteReceived, Flags
  <2> QED
    BY <1>1, <2>1 DEF Inv, FlagTypes, Aside
<1>6. OnTheBus'
  BY <1>1, <1>3 DEF Inv, OnTheBus, Aside
<1>7. Writing'
  BY <1>1, <1>2, <1>3 DEF Inv, Places, OnTheBus, Writing, Aside
<1>8. Reading'
  BY <1>1, <1>2, <1>3 DEF Inv, Places, OnTheBus, Reading, Aside
<1> QED
  BY <1>3, <1>4, <1>5, <1>6, <1>7, <1>8, Unreported DEF Inv

\* The other master wins the bus.
LEMMA LostStep ==
  ASSUME WireAssumption, Inv, Lost, Aside
  PROVE  Inv'
<1>1. /\ hw # "none" /\ losses < MaxLost /\ losses' = losses + 1 /\ hw' = "none" /\ bus' = "busy"
      /\ lost' = IF hw = "address" THEN "address" ELSE "data"
      /\ UNCHANGED <<acked, delivered>>
  BY DEF Lost, Flags
<1>2. ~SB' /\ RXNACK' = RXNACK
  BY Zenon DEF Lost, Flags
<1>3. ASSUME hw = "address" PROVE MB'
  <2>1. PICK mb \in {TRUE, hw = "address"} : MB' = mb
    BY Zenon DEF Lost, Flags
  <2>2. mb = TRUE \/ mb = (hw = "address")
    BY Zenon
  <2>3. mb
    BY <1>3, <2>2, Zenon
  <2> QED
    BY <2>1, <2>3, Zenon
<1>4. pc # "sketch" /\ pc' # "sketch" /\ MaxLost \in Nat
  BY <1>1, Constants DEF Inv, OnTheBus, Aside
<1>5. Places'
  BY <1>1, <1>4 DEF Inv, Places, Aside
<1>6. FlagTypes'
  <2>1. MB' \in BOOLEAN /\ SB' \in BOOLEAN /\ ARBLOST' \in BOOLEAN
    BY Zenon DEF Lost, Flags
  <2> QED
    BY <1>1, <1>2, <2>1 DEF Inv, FlagTypes, Aside
<1>7. OnTheBus'
  BY <1>1, <1>4 DEF Inv, OnTheBus, Aside
<1>8. Writing'
  BY <1>1, <1>2, <1>3, <1>4 DEF Inv, Places, OnTheBus, Writing, Aside
<1>9. Reading'
  BY <1>1, <1>2, <1>3, <1>4 DEF Inv, Places, OnTheBus, Reading, Aside
<1> QED
  BY <1>4, <1>5, <1>6, <1>7, <1>8, <1>9, Unreported DEF Inv

\* The other master takes the bus, or leaves it.
LEMMA OtherMasterStep ==
  ASSUME WireAssumption, Inv, OtherMaster, Aside
  PROVE  Inv'
<1>1. /\ bus # "owner" /\ bus' # "owner" /\ bus' \in {"idle", "busy"} /\ hw = "none"
      /\ UNCHANGED <<ARBLOST, RXNACK, MB, SB, hw, losses, acked, delivered, lost>>
  BY DEF OtherMaster, history, Inv, OnTheBus
<1>2. Places'
  BY <1>1 DEF Inv, Places, Aside
<1>3. FlagTypes'
  BY <1>1 DEF Inv, FlagTypes, Aside
<1>4. OnTheBus'
  BY <1>1 DEF Inv, OnTheBus, Aside
<1>5. Writing'
  BY <1>1 DEF Inv, Writing, Aside
<1>6. Reading'
  BY <1>1 DEF Inv, Reading, Aside
<1>7. MasterSound'
  BY <1>1 DEF Inv, MasterSound, SuccessIsDelivered, ReadIsReceived, BusReleased, Done, Aside
<1> QED
  BY <1>2, <1>3, <1>4, <1>5, <1>6, <1>7 DEF Inv

-----------------------------------------------------------------------------
(* The steps of the sketch. *)

\* A call begins.
LEMMA CallStep ==
  ASSUME WireAssumption, Inv, Call
  PROVE  Inv'
<1>1. /\ pc = "sketch" /\ calls < MaxCalls /\ calls' = calls + 1 /\ pc' = "start"
      /\ flag' \in {"write", "read"} /\ length' \in 0..MaxBytes /\ (flag' = "read" => length' > 0)
      /\ txBuffer' = (IF flag' = "write" THEN length' ELSE 0)
      /\ rxBuffer' = <<>> /\ byteRead' = 0 /\ delivered' = 0 /\ lost' = "none"
      /\ UNCHANGED <<bus, hw, ARBLOST, RXNACK, MB, SB, timeoutOccurred, result, losses>>
  <2>1. length' \in (IF flag' = "read" THEN 1 ELSE 0)..MaxBytes /\ MaxBytes \in Nat
    BY Constants DEF Call
  <2>2. length' \in 0..MaxBytes /\ (flag' = "read" => length' > 0)
    BY <2>1
  <2> QED
    BY <2>2 DEF Call, status
<1>2. ~again' /\ stop' \in BOOLEAN /\ busOwner' \in BOOLEAN
  BY Zenon DEF Call
<1>3. Len(<<>>) = 0 /\ <<>> \in Seq(BOOLEAN) /\ MaxBytes \in Nat /\ MaxCalls \in Nat
      /\ BufSize \in Nat
  BY EmptySeq, Constants
<1>4. Places'
  BY <1>1, <1>3 DEF Inv, Places
<1>5. FlagTypes'
  <2>1. again' \in BOOLEAN /\ acked' \in BOOLEAN
    BY Zenon DEF Call
  <2> QED
    BY <1>1, <1>2, <2>1 DEF Inv, FlagTypes
<1>6. OnTheBus'
  BY <1>1, <1>3 DEF Inv, OnTheBus
<1>7. Writing'
  BY <1>1, <1>2 DEF Places, Inv, Writing
<1>8. Reading'
  BY <1>1, <1>2 DEF Reading
<1> QED
  BY <1>1, <1>4, <1>5, <1>6, <1>7, <1>8, Unreported DEF Inv

\* What every return leaves behind.
LEMMA Returned ==
  ASSUME WireAssumption, Inv, pc' = "sketch",
         UNCHANGED <<flag, length, calls, losses, delivered, lost, txBuffer, rxBuffer, byteRead>>,
         bus' \in {"idle", "owner", "busy"}, hw' = "none", result' \in 0..5 \cup 0..MaxBytes,
         MasterSound'
  PROVE  FlagTypes' => Inv'
<1>1. Places'
  BY DEF Inv, Places
<1>2. OnTheBus'
  BY DEF Inv, OnTheBus
<1>3. Writing'
  BY DEF Inv, Writing
<1>4. Reading'
  BY DEF Inv, Reading
<1> QED
  BY <1>1, <1>2, <1>3, <1>4 DEF Inv

\* The flags behind Stop, Reset and the steps that leave the hardware alone.
LEMMA StopFlags ==
  ASSUME FlagTypes, Stop \/ Reset \/ UNCHANGED status,
         UNCHANGED <<timeoutOccurred, again, stop, busOwner, acked>>
  PROVE  FlagTypes'
<1>1. CASE Stop
  <2>1. MB' \in BOOLEAN /\ SB' \in BOOLEAN
    BY <1>1, Zenon DEF Stop
  <2>2. UNCHANGED <<ARBLOST, RXNACK>>
    BY <1>1 DEF Stop
  <2> QED
    BY <2>1, <2>2 DEF FlagTypes
<1>2. CASE Reset
  <2>1. /\ MB' \in BOOLEAN /\ SB' \in BOOLEAN /\ ARBLOST' \in BOOLEAN /\ RXNACK' \in BOOLEAN
    BY <1>2, Zenon DEF Reset
  <2> QED
    BY <2>1 DEF FlagTypes
<1>3. CASE UNCHANGED status
  BY <1>3 DEF FlagTypes, status
<1> QED
  BY <1>1, <1>2, <1>3

\* startTransmissionWIRE() returns false: nothing is reported as sent or read.
LEMMA NotStartedStep ==
  ASSUME WireAssumption, Inv, NotStarted(timeoutOccurred), UNCHANGED timeoutOccurred,
         \/ pc = "start" /\ bus # "owner"
         \/ pc = "check" /\ (timeoutOccurred \/ RXNACK)
  PROVE  Inv'
<1>1. /\ pc' = "sketch"
      /\ UNCHANGED <<flag, length, stop, calls, losses, acked, delivered, lost, again, txBuffer,
                     rxBuffer, byteRead, busOwner>>
      /\ result' \in {0, 2, 4} /\ (flag = "write" => result' # 0) /\ (flag = "read" => result' = 0)
  BY DEF NotStarted, AddressError, Return, sketch, history, buffers, Inv, Places
<1>2. /\ Stop \/ Reset \/ UNCHANGED status
      /\ flag = "write" => Stop
      /\ flag = "read" => (timeoutOccurred /\ Reset) \/ (~timeoutOccurred /\ UNCHANGED status)
  BY DEF NotStarted, AddressError, Inv, Places
<1>3. flag = "read" /\ ~timeoutOccurred => bus # "owner" /\ hw = "none"
  BY DEF Inv, Reading, OnTheBus
<1>4. hw' = "none" /\ bus' # "owner" /\ bus' \in {"idle", "busy"}
  BY <1>2, <1>3 DEF Stop, Reset, status, Inv, Places
<1>5. FlagTypes'
  BY <1>1, <1>2, StopFlags DEF Inv
<1>6. MasterSound'
  BY <1>1, <1>4 DEF MasterSound, SuccessIsDelivered, ReadIsReceived, BusReleased, Done, Inv, Places
<1>7. result' \in 0..5 \cup 0..MaxBytes
  BY <1>1
<1> QED
  BY <1>1, <1>4, <1>5, <1>6, <1>7, Returned

\* startTransmissionWIRE() calls itself in vain, or sends the address.
LEMMA StartStep ==
  ASSUME WireAssumption, Inv, Start
  PROVE  Inv'
<1>1. CASE Refuses /\ ~again /\ NotStarted(timeoutOccurred) /\ UNCHANGED timeoutOccurred
  BY <1>1, NotStartedStep DEF Start, Refuses
<1>2. CASE Refuses /\ again /\ pc' = "check"
           /\ UNCHANGED <<status, timeoutOccurred, again, sketch, buffers, result, losses, history>>
  <2>1. /\ pc = "start" /\ bus # "owner" /\ pc' = "check" /\ again
        /\ UNCHANGED <<bus, ARBLOST, RXNACK, MB, SB, hw, flag, length, stop, calls, txBuffer, rxBuffer,
                       byteRead, busOwner, acked, delivered, lost, again, timeoutOccurred, result, losses>>
    BY <1>2 DEF Start, Refuses, status, sketch, buffers, history
  <2>2. Places' /\ FlagTypes'
    BY <2>1 DEF Inv, Places, FlagTypes
  <2>3. OnTheBus'
    BY <2>1 DEF Inv, OnTheBus
  <2>4. Writing'
    BY <2>1 DEF Inv, Writing
  <2>5. Reading'
    BY <2>1 DEF Inv, Reading
  <2> QED
    BY <2>1, <2>2, <2>3, <2>4, <2>5, Unreported DEF Inv
<1>3. CASE ~Refuses /\ pc' = "address"
           /\ bus' = "owner" /\ ARBLOST' = FALSE /\ Write("address") /\ timeoutOccurred' = FALSE
           /\ UNCHANGED <<again, sketch, buffers, result, losses, history>>
  <2>1. /\ pc = "start" /\ bus' = "owner" /\ pc' = "address" /\ hw' = "address"
        /\ UNCHANGED <<RXNACK, flag, length, stop, calls, txBuffer, rxBuffer,
                       byteRead, busOwner, acked, delivered, lost, again, result, losses>>
    BY <1>3 DEF Start, Write, sketch, buffers, history
  <2>2. ~MB' /\ ~SB' /\ ~timeoutOccurred' /\ ~ARBLOST'
    BY <1>3, Zenon DEF Write
  <2>3. Places'
    BY <2>1 DEF Inv, Places
  <2>4. FlagTypes'
    <3>1. MB' \in BOOLEAN /\ SB' \in BOOLEAN /\ timeoutOccurred' \in BOOLEAN /\ ARBLOST' \in BOOLEAN
      BY <1>3, Zenon DEF Write
    <3> QED
      BY <2>1, <3>1 DEF Inv, FlagTypes
  <2>5. OnTheBus'
    BY <2>1, <2>2 DEF Inv, OnTheBus
  <2>6. Writing'
    BY <2>1, <2>2 DEF Inv, Writing
  <2>7. Reading'
    BY <2>1, <2>2 DEF Inv, Reading
  <2> QED
    BY <2>1, <2>3, <2>4, <2>5, <2>6, <2>7, Unreported DEF Inv
<1> QED
  BY <1>1, <1>2, <1>3 DEF Start

\* The address of a write is sent, or the wait for it is over.
LEMMA WaitAddressStep ==
  ASSUME WireAssumption, Inv, WaitAddress
  PROVE  Inv'
<1>1. /\ pc = "address" /\ flag = "write" /\ pc' \in {"check", "start"}
      /\ (pc' = "check" <=> bus = "owner")
      /\ UNCHANGED <<bus, ARBLOST, RXNACK, MB, SB, hw, flag, length, stop, calls, txBuffer, rxBuffer,
                     byteRead, busOwner, acked, delivered, lost, result, losses>>
  BY DEF WaitAddress, status, sketch, buffers, history
<1>2. MB \/ timeoutOccurred'
  BY Zenon DEF WaitAddress, WaitFor
<1>3. Places'
  BY <1>1 DEF Inv, Places
<1>4. FlagTypes'
  <2>1. timeoutOccurred' = timeoutOccurred \/ timeoutOccurred' \in BOOLEAN
    BY Zenon DEF WaitAddress, WaitFor
  <2>2. again' = again \/ again' \in BOOLEAN
    BY Zenon DEF WaitAddress
  <2> QED
    BY <1>1, <2>1, <2>2 DEF Inv, FlagTypes
<1>5. OnTheBus'
  BY <1>1 DEF Inv, OnTheBus
<1>6. Writing'
  BY <1>1, <1>2 DEF Inv, OnTheBus, Writing
<1>7. Reading'
  BY <1>1 DEF Reading
<1> QED
  BY <1>1, <1>3, <1>4, <1>5, <1>6, <1>7, Unreported DEF Inv

\* The slave answers the address of a read, or the wait for it is over.
LEMMA WaitSlaveStep ==
  ASSUME WireAssumption, Inv, WaitSlave
  PROVE  Inv'
<1>1. CASE MB /\ ~SB /\ Stop /\ Return(0) /\ UNCHANGED <<timeoutOccurred, again, buffers>>
  <2>1. /\ pc' = "sketch" /\ result' = 0 /\ flag = "read"
        /\ UNCHANGED <<flag, length, stop, calls, losses, acked, delivered, lost, again, txBuffer,
                       rxBuffer, byteRead, busOwner, timeoutOccurred>>
    BY <1>1 DEF WaitSlave, Return, sketch, history, buffers
  <2>2. hw' = "none" /\ bus' # "owner" /\ bus' \in {"idle", "owner", "busy"}
    BY <1>1 DEF Stop, Inv, Places
  <2>3. FlagTypes'
    BY <1>1, <2>1, StopFlags DEF Inv
  <2>4. MasterSound'
    BY <2>1, <2>2 DEF MasterSound, SuccessIsDelivered, ReadIsReceived, BusReleased, Done, Inv, Places
  <2>5. result' \in 0..5 \cup 0..MaxBytes
    BY <2>1
  <2> QED
    BY <2>1, <2>2, <2>3, <2>4, <2>5, Returned
<1>2. CASE ~MB /\ WaitFor(SB) /\ pc' = "check"
           /\ UNCHANGED <<status, again, sketch, buffers, result, losses, history>>
  <2>1. /\ pc = "address" /\ flag = "read" /\ pc' = "check" /\ ~MB
        /\ UNCHANGED <<bus, ARBLOST, RXNACK, MB, SB, hw, flag, length, stop, calls, txBuffer, rxBuffer,
                       byteRead, busOwner, acked, delivered, lost, again, result, losses>>
    BY <1>2 DEF WaitSlave, status, sketch, buffers, history
  <2>2. SB \/ timeoutOccurred'
    BY <1>2, Zenon DEF WaitFor
  <2>3. Places'
    BY <2>1 DEF Inv, Places
  <2>4. FlagTypes'
    <3>1. timeoutOccurred' = timeoutOccurred \/ timeoutOccurred' \in BOOLEAN
      BY <1>2, Zenon DEF WaitFor
    <3> QED
      BY <2>1, <3>1 DEF Inv, FlagTypes
  <2>5. OnTheBus'
    BY <2>1 DEF Inv, OnTheBus
  <2>6. Writing'
    BY <2>1 DEF Writing
  <2>7. Reading'
    BY <2>1, <2>2 DEF Inv, OnTheBus, Reading, Places
  <2> QED
    BY <2>1, <2>3, <2>4, <2>5, <2>6, <2>7, Unreported DEF Inv
<1> QED
  BY <1>1, <1>2 DEF WaitSlave

\* A sequence of one byte.
LEMMA OneByte ==
  ASSUME NEW T, NEW b \in T
  PROVE  <<b>> \in Seq(T) /\ Len(<<b>>) = 1 /\ <<b>>[1] = b
OBVIOUS

\* A sequence and one byte more.
LEMMA OneMore ==
  ASSUME NEW T, NEW s \in Seq(T), NEW b \in T
  PROVE  /\ Append(s, b) \in Seq(T) /\ Len(Append(s, b)) = Len(s) + 1
         /\ \A n \in 1..Len(s) : Append(s, b)[n] = s[n]
         /\ Append(s, b)[Len(s) + 1] = b
BY AppendProperties

\* The answer to the address is looked at.
LEMMA CheckStep ==
  ASSUME WireAssumption, Inv, Check
  PROVE  Inv'
<1>1. CASE CheckFails /\ NotStarted(timeoutOccurred)
  BY <1>1, NotStartedStep DEF Check, CheckFails
<1>2. CASE ~CheckFails /\ pc' = "data"
           /\ (IF flag = "read"
               THEN rxBuffer' = <<SB>> /\ byteRead' = 1 /\ delivered' = 1
               ELSE UNCHANGED <<rxBuffer, byteRead, delivered>>)
           /\ UNCHANGED <<status, again, sketch, txBuffer, busOwner, result, losses, acked, lost>>
  <2>1. /\ pc = "check" /\ pc' = "data" /\ ~timeoutOccurred /\ ~RXNACK
        /\ UNCHANGED <<bus, ARBLOST, RXNACK, MB, SB, hw, flag, length, stop, calls, txBuffer,
                       busOwner, acked, lost, again, timeoutOccurred, result, losses>>
    BY <1>2 DEF Check, CheckFails, status, sketch
  <2>2. MaxBytes \in Nat /\ BufSize \in Nat /\ BufSize > 0
    BY Constants
  <2>3. flag = "write" => UNCHANGED <<rxBuffer, byteRead, delivered>>
    BY <1>2
  <2>4. flag = "read" => rxBuffer' = <<SB>> /\ byteRead' = 1 /\ delivered' = 1 /\ length > 0 /\ SB
                         /\ hw = "none"
    BY <1>2, <2>1 DEF Inv, Reading
  <2>5. SB \in BOOLEAN
    BY DEF Inv, FlagTypes
  <2>6. <<SB>> \in Seq(BOOLEAN) /\ Len(<<SB>>) = 1 /\ <<SB>>[1] = SB
    BY <2>5, OneByte, Zenon
  <2>7. flag = "read" => rxBuffer' \in Seq(BOOLEAN) /\ Len(rxBuffer') = 1 /\ rxBuffer'[1]
    BY <2>4, <2>6, Zenon
  <2>13. byteRead' \in 0..MaxBytes /\ delivered' \in 0..MaxBytes /\ Len(rxBuffer') <= BufSize
    <3>1. CASE flag = "read"
      <4>1. length \in 0..MaxBytes /\ length > 0 /\ byteRead' = 1 /\ delivered' = 1 /\ Len(rxBuffer') = 1
        BY <3>1, <2>4, <2>7 DEF Inv, Places
      <4> QED
        BY <4>1, <2>2
    <3>2. CASE flag = "write"
      BY <3>2, <2>3 DEF Inv, Places
    <3> QED
      BY <3>1, <3>2 DEF Inv, Places
  <2>8. Places'
    BY <2>1, <2>13 DEF Inv, Places
  <2>9. FlagTypes'
    BY <2>1 DEF Inv, FlagTypes
  <2>14. rxBuffer' \in Seq(BOOLEAN)
    <3>1. flag = "write" => rxBuffer' = rxBuffer
      BY <2>3
    <3>2. rxBuffer \in Seq(BOOLEAN) /\ (flag = "write" \/ flag = "read")
      BY DEF Inv, OnTheBus, Places
    <3> QED
      BY <3>1, <3>2, <2>7, Zenon
  <2>10. OnTheBus'
    <3>1. hw = "none"
      BY <2>1 DEF Inv, OnTheBus, Writing, Reading, Places
    <3> QED
      BY <2>1, <2>14, <3>1 DEF Inv, OnTheBus
  <2>11. Writing'
    BY <2>1, <2>3 DEF Inv, OnTheBus, Writing, Places
  <2>12. Reading'
    <3>1. SUFFICES ASSUME flag = "read" PROVE Reading'
      BY <2>1 DEF Reading
    <3>2. /\ Len(rxBuffer') = 1 /\ rxBuffer'[1] /\ byteRead' = 1 /\ delivered' = 1 /\ length > 0
          /\ hw = "none" /\ ~again /\ length \in 0..MaxBytes
      BY <2>1, <2>4, <2>7, <3>1 DEF Inv, Reading, Places
    <3>3. Len(rxBuffer') = Kept(byteRead') /\ byteRead' > 0 /\ byteRead' <= length
      BY <2>2, <3>2 DEF Kept
    <3>4. \A n \in 1..Len(rxBuffer') : rxBuffer'[n]
      BY <3>2
    <3> QED
      BY <2>1, <3>1, <3>2, <3>3, <3>4 DEF Reading
  <2> QED
    BY <2>1, <2>8, <2>9, <2>10, <2>11, <2>12, Unreported DEF Inv
<1> QED
  BY <1>1, <1>2 DEF Check

-----------------------------------------------------------------------------
(* endTransmission(). *)

\* A byte is handed to the peripheral.
LEMMA SendByteStep ==
  ASSUME WireAssumption, Inv, SendByte
  PROVE  Inv'
<1>1. /\ pc = "data" /\ flag = "write" /\ txBuffer > 0 /\ pc' = "wait" /\ txBuffer' = txBuffer - 1
      /\ hw' = (IF bus = "owner" THEN "data" ELSE "none")
      /\ UNCHANGED <<bus, ARBLOST, RXNACK, flag, length, stop, calls, rxBuffer, byteRead, busOwner,
                     acked, delivered, lost, again, result, losses>>
  BY DEF SendByte, Write, sketch, history
<1>2. ~MB' /\ ~SB' /\ ~timeoutOccurred'
  BY Zenon DEF SendByte, Write
<1>3. txBuffer \in 0..MaxBytes /\ length \in 0..MaxBytes /\ delivered \in 0..MaxBytes /\ MaxBytes \in Nat
  BY Constants DEF Inv, Places
<1>4. txBuffer' \in 0..MaxBytes /\ txBuffer <= length /\ txBuffer' < length
  BY <1>1, <1>3 DEF Inv, Writing
<1>5. Places'
  BY <1>1, <1>4 DEF Inv, Places
<1>6. FlagTypes'
  <2>1. MB' \in BOOLEAN /\ SB' \in BOOLEAN /\ timeoutOccurred' \in BOOLEAN
    BY Zenon DEF SendByte, Write
  <2> QED
    BY <1>1, <2>1 DEF Inv, FlagTypes
<1>7. OnTheBus'
  BY <1>1, <1>2 DEF Inv, OnTheBus
<1>8. bus = "owner" => delivered + 1 = length - txBuffer'
  BY <1>1, <1>3 DEF Inv, Writing
<1>9. Writing'
  <2>1. /\ bus = "owner" => acked
        /\ bus # "owner" => lost = "data" \/ lost = "address"
    BY <1>1 DEF Inv, Writing
  <2>2. txBuffer' <= length'
    BY <1>1, <1>3, <1>4
  <2> QED
    BY <1>1, <1>2, <1>8, <2>1, <2>2 DEF Writing
<1>10. Reading'
  BY <1>1 DEF Reading
<1> QED
  BY <1>1, <1>5, <1>6, <1>7, <1>9, <1>10, Unreported DEF Inv

\* The byte is acknowledged, refused or lost, or the wait for it is over.
LEMMA WaitSentStep ==
  ASSUME WireAssumption, Inv, WaitSent
  PROVE  Inv'
<1>1. CASE MB /\ ~RXNACK /\ pc' = "data"
           /\ UNCHANGED <<status, timeoutOccurred, again, sketch, buffers, result, losses, history>>
  <2>1. /\ pc = "wait" /\ flag = "write" /\ pc' = "data" /\ MB /\ ~RXNACK
        /\ UNCHANGED <<bus, ARBLOST, RXNACK, MB, SB, hw, flag, length, stop, calls, txBuffer, rxBuffer,
                       byteRead, busOwner, acked, delivered, lost, again, timeoutOccurred, result, losses>>
    BY <1>1 DEF WaitSent, status, sketch, buffers, history
  <2>2. Places' /\ FlagTypes'
    BY <2>1 DEF Inv, Places, FlagTypes
  <2>3. OnTheBus'
    BY <2>1 DEF Inv, OnTheBus
  <2>4. Writing'
    BY <2>1 DEF Inv, OnTheBus, Writing
  <2>5. Reading'
    BY <2>1 DEF Reading
  <2> QED
    BY <2>1, <2>2, <2>3, <2>4, <2>5, Unreported DEF Inv
<1>2. ASSUME NEW value \in {3, 4}, Stop, Return(value), UNCHANGED <<again, buffers>>,
             timeoutOccurred' \in BOOLEAN
      PROVE  Inv'
  <2>1. /\ pc' = "sketch" /\ result' = value /\ flag = "write"
        /\ UNCHANGED <<flag, length, stop, calls, losses, acked, delivered, lost, again, txBuffer,
                       rxBuffer, byteRead, busOwner>>
    BY <1>2 DEF WaitSent, Return, sketch, history, buffers
  <2>2. hw' = "none" /\ bus' # "owner" /\ bus' \in {"idle", "owner", "busy"}
    BY <1>2 DEF Stop, Inv, Places
  <2>3. FlagTypes'
    <3>1. MB' \in BOOLEAN /\ SB' \in BOOLEAN
      BY <1>2, Zenon DEF Stop
    <3>2. UNCHANGED <<ARBLOST, RXNACK>>
      BY <1>2 DEF Stop
    <3> QED
      BY <1>2, <2>1, <3>1, <3>2 DEF Inv, FlagTypes
  <2>4. MasterSound'
    BY <2>1, <2>2 DEF MasterSound, SuccessIsDelivered, ReadIsReceived, BusReleased, Done, Inv, Places
  <2>5. result' \in 0..5 \cup 0..MaxBytes
    BY <2>1
  <2> QED
    BY <2>1, <2>2, <2>3, <2>4, <2>5, Returned
<1>3. timeoutOccurred \in BOOLEAN /\ TRUE \in BOOLEAN
  BY DEF Inv, FlagTypes
<1>4. CASE Stop /\ Return(3) /\ UNCHANGED <<timeoutOccurred, again, buffers>>
  BY <1>2, <1>3, <1>4
<1>5. CASE timeoutOccurred' = TRUE /\ Stop /\ Return(4) /\ UNCHANGED <<again, buffers>>
  <2>1. timeoutOccurred' \in BOOLEAN
    BY <1>5, <1>3, Zenon
  <2> QED
    BY <1>2, <1>5, <2>1
<1> QED
  BY <1>1, <1>4, <1>5 DEF WaitSent

\* Every byte is sent.
LEMMA EndTransmissionStep ==
  ASSUME WireAssumption, Inv, EndTransmission
  PROVE  Inv'
<1>1. /\ pc = "data" /\ flag = "write" /\ txBuffer = 0 /\ pc' = "sketch" /\ result' = 0
      /\ UNCHANGED <<flag, length, stop, calls, losses, acked, delivered, lost, again, txBuffer,
                     rxBuffer, byteRead, busOwner, timeoutOccurred>>
  BY DEF EndTransmission, Return, sketch, history, buffers
<1>2. IF stop THEN Stop ELSE UNCHANGED status
  BY DEF EndTransmission
<1>3. hw' = "none" /\ bus' \in {"idle", "owner", "busy"} /\ (stop => bus' # "owner")
  BY <1>1, <1>2 DEF Stop, status, Inv, Places, OnTheBus, Writing
<1>4. FlagTypes'
  BY <1>1, <1>2, StopFlags DEF Inv
<1>5. lost # "data" /\ (lost = "address" => length > 0) => acked /\ delivered = length
  BY <1>1, Constants DEF Inv, Writing, Places
<1>6. MasterSound'
  BY <1>1, <1>3, <1>5 DEF MasterSound, SuccessIsDelivered, ReadIsReceived, BusReleased, Done
<1>7. result' \in 0..5 \cup 0..MaxBytes
  BY <1>1
<1> QED
  BY <1>1, <1>3, <1>4, <1>6, <1>7, Returned

-----------------------------------------------------------------------------
(* requestFrom(). *)

\* One more byte is asked for.
LEMMA ReadByteStep ==
  ASSUME WireAssumption, Inv, ReadByte
  PROVE  Inv'
<1>1. /\ pc = "data" /\ flag = "read" /\ byteRead < length /\ ~timeoutOccurred /\ pc' = "wait"
      /\ bus = "owner" /\ hw' = "read"
      /\ UNCHANGED <<bus, ARBLOST, RXNACK, flag, length, stop, calls, txBuffer, rxBuffer, byteRead,
                     acked, delivered, lost, again, result, losses>>
  BY DEF ReadByte, More, Write, sketch, history
<1>2. ~MB' /\ ~SB' /\ ~timeoutOccurred' /\ busOwner'
  BY Zenon DEF ReadByte, Write
<1>3. Places'
  BY <1>1 DEF Inv, Places
<1>4. FlagTypes'
  <2>1. MB' \in BOOLEAN /\ SB' \in BOOLEAN /\ timeoutOccurred' \in BOOLEAN /\ busOwner' \in BOOLEAN
    BY Zenon DEF ReadByte, Write
  <2> QED
    BY <1>1, <2>1 DEF Inv, FlagTypes
<1>5. OnTheBus'
  BY <1>1, <1>2 DEF Inv, OnTheBus
<1>6. Writing'
  BY <1>1 DEF Writing
<1>7. Reading'
  <2>1. \A n \in 1..Len(rxBuffer) : rxBuffer[n]
    BY <1>1, Constants DEF Inv, Reading, Places, Kept
  <2>2. delivered <= byteRead /\ delivered <= byteRead + 1
    BY <1>1 DEF Inv, Reading, Places
  <2> QED
    BY <1>1, <1>2, <2>1, <2>2 DEF Inv, Reading, Kept
<1> QED
  BY <1>1, <1>3, <1>4, <1>5, <1>6, <1>7, Unreported DEF Inv

\* The byte is read from the register: received, or behind a timeout or a lost bus.
LEMMA WaitReceivedStep ==
  ASSUME WireAssumption, Inv, WaitReceived
  PROVE  Inv'
<1>1. /\ pc = "wait" /\ flag = "read" /\ pc' = "data" /\ byteRead' = byteRead + 1
      /\ rxBuffer' = Stored(SB)
      /\ UNCHANGED <<bus, ARBLOST, RXNACK, MB, SB, hw, flag, length, stop, calls, txBuffer, busOwner,
                     acked, delivered, lost, again, result, losses>>
  BY DEF WaitReceived, status, sketch, history
<1>2. SB \/ MB \/ timeoutOccurred'
  BY Zenon DEF WaitReceived, WaitFor
<1>3. /\ rxBuffer' \in Seq(BOOLEAN)
      /\ IF Len(rxBuffer) = BufSize THEN rxBuffer' = rxBuffer
         ELSE /\ Len(rxBuffer') = Len(rxBuffer) + 1
              /\ \A n \in 1..Len(rxBuffer) : rxBuffer'[n] = rxBuffer[n]
              /\ rxBuffer'[Len(rxBuffer) + 1] = SB
  <2>1. rxBuffer \in Seq(BOOLEAN) /\ SB \in BOOLEAN
    BY DEF Inv, OnTheBus, FlagTypes
  <2>2. /\ Append(rxBuffer, SB) \in Seq(BOOLEAN) /\ Len(Append(rxBuffer, SB)) = Len(rxBuffer) + 1
        /\ \A n \in 1..Len(rxBuffer) : Append(rxBuffer, SB)[n] = rxBuffer[n]
        /\ Append(rxBuffer, SB)[Len(rxBuffer) + 1] = SB
    BY <2>1, OneMore, Zenon
  <2> QED
    BY <1>1, <2>1, <2>2, Zenon DEF Stored
<1>4. /\ Len(rxBuffer) = Kept(byteRead) /\ byteRead > 0 /\ byteRead < length /\ busOwner /\ ~timeoutOccurred
      /\ delivered <= byteRead + 1 /\ (hw = "read" => delivered <= byteRead)
      /\ \A n \in 1..Len(rxBuffer) : rxBuffer[n]
      /\ hw = "read" \/ SB \/ (lost = "data" /\ bus # "owner")
      /\ length > 0 /\ ~again
  BY <1>1 DEF Inv, Reading
<1>5. byteRead \in Nat /\ length \in 0..MaxBytes /\ delivered \in 0..MaxBytes /\ MaxBytes \in Nat
      /\ BufSize \in Nat /\ BufSize > 0 /\ Len(rxBuffer) <= BufSize
  BY Constants DEF Inv, Places
<1>6. /\ Len(rxBuffer') = Kept(byteRead') /\ byteRead' \in 0..MaxBytes /\ byteRead' <= length
      /\ byteRead' > 0 /\ Len(rxBuffer') <= BufSize
  BY <1>1, <1>3, <1>4, <1>5 DEF Kept
<1>7. Places'
  BY <1>1, <1>6 DEF Inv, Places
<1>8. FlagTypes'
  <2>1. timeoutOccurred' = timeoutOccurred \/ timeoutOccurred' \in BOOLEAN
    BY Zenon DEF WaitReceived, WaitFor
  <2> QED
    BY <1>1, <2>1 DEF Inv, FlagTypes
<1>9. OnTheBus'
  BY <1>1, <1>3 DEF Inv, OnTheBus
<1>10. Writing'
  BY <1>1 DEF Writing
<1>11. Reading'
  <2>1. delivered' <= byteRead' /\ (hw' = "read" => timeoutOccurred' /\ delivered' < byteRead')
    <3>1. hw = "read" => ~MB /\ ~SB
      BY DEF Inv, OnTheBus
    <3> QED
      BY <1>1, <1>2, <1>4, <1>5, <3>1
  <2>2. ASSUME ~timeoutOccurred', NEW n \in 1..Len(rxBuffer')
        PROVE  rxBuffer'[n] \/ (n = byteRead' /\ lost' = "data" /\ bus' # "owner")
    <3>1. SB \/ (lost = "data" /\ bus # "owner")
      BY <1>2, <1>4, <2>2 DEF Inv, OnTheBus
    <3>2. CASE n = byteRead'
      <4>1. n = Len(rxBuffer) + 1 /\ Len(rxBuffer) # BufSize
        BY <3>2, <1>1, <1>4, <1>5, <1>6 DEF Kept
      <4>2. rxBuffer'[n] = SB
        BY <4>1, <1>3
      <4> QED
        BY <1>1, <3>1, <3>2, <4>2
    <3>3. CASE n # byteRead'
      <4>1. n \in 1..Len(rxBuffer)
        BY <3>3, <1>1, <1>4, <1>5, <1>6 DEF Kept
      <4>2. rxBuffer[n]
        BY <4>1, <1>4
      <4>3. rxBuffer'[n] = rxBuffer[n]
        BY <4>1, <1>3
      <4> QED
        BY <4>2, <4>3, Zenon
    <3> QED
      BY <3>2, <3>3
  <2> QED
    BY <1>1, <1>4, <1>6, <2>1, <2>2 DEF Reading
<1> QED
  BY <1>1, <1>7, <1>8, <1>9, <1>10, <1>11, Unreported DEF Inv

\* requestFrom() returns what it has read.
LEMMA RequestFromStep ==
  ASSUME WireAssumption, Inv, RequestFrom
  PROVE  Inv'
<1> DEFINE owner == IF More THEN FALSE ELSE busOwner
<1>1. /\ pc = "data" /\ flag = "read" /\ pc' = "sketch"
      /\ result' = IF timeoutOccurred THEN 0 ELSE ReadValid(owner)
      /\ UNCHANGED <<flag, length, stop, calls, losses, acked, delivered, lost, again, txBuffer,
                     rxBuffer, byteRead, timeoutOccurred>>
  BY DEF RequestFrom, Return, sketch, history
<1>2. /\ ~(More /\ bus = "owner") /\ busOwner' = owner
      /\ IF timeoutOccurred THEN Reset ELSE IF stop /\ owner THEN Stop ELSE UNCHANGED status
  BY DEF RequestFrom
<1>3. /\ Len(rxBuffer) = Kept(byteRead) /\ byteRead > 0 /\ byteRead <= length /\ (byteRead > 1 => busOwner)
      /\ length > 0 /\ (hw = "read" => timeoutOccurred)
      /\ \/ timeoutOccurred
         \/ \A n \in 1..Len(rxBuffer) :
              rxBuffer[n] \/ (n = byteRead /\ lost = "data" /\ bus # "owner")
  BY <1>1 DEF Inv, Reading
<1>4. /\ byteRead \in 0..MaxBytes /\ length \in 0..MaxBytes /\ MaxBytes \in Nat
      /\ BufSize \in Nat
  BY Constants DEF Inv, Places
<1>5. busOwner' \in BOOLEAN /\ owner \in BOOLEAN
  <2>1. owner = FALSE \/ owner = busOwner
    BY Zenon
  <2>2. busOwner \in BOOLEAN /\ FALSE \in BOOLEAN
    BY DEF Inv, FlagTypes
  <2> QED
    BY <1>2, <2>1, <2>2, Zenon
<1>6. hw' = "none" /\ bus' \in {"idle", "owner", "busy"}
  <2>1. hw = "none" \/ timeoutOccurred
    BY <1>1, <1>3 DEF Inv, OnTheBus, Places
  <2> QED
    BY <1>2, <2>1 DEF Stop, Reset, status, Inv, Places
<1>7. result' = 0 \/ (~timeoutOccurred /\ (result' = byteRead \/ result' = byteRead - 1))
  BY <1>1 DEF ReadValid
<1>8. result' \in 0..5 \cup 0..MaxBytes
  BY <1>3, <1>4, <1>7
<1>9. FlagTypes'
  <2>1. Stop \/ Reset \/ UNCHANGED status
    BY <1>2
  <2>2. CASE Stop
    <3>1. MB' \in BOOLEAN /\ SB' \in BOOLEAN
      BY <2>2, Zenon DEF Stop
    <3>2. UNCHANGED <<ARBLOST, RXNACK>>
      BY <2>2 DEF Stop
    <3> QED
      BY <1>1, <1>5, <3>1, <3>2 DEF Inv, FlagTypes
  <2>3. CASE Reset
    <3>1. MB' \in BOOLEAN /\ SB' \in BOOLEAN /\ ARBLOST' \in BOOLEAN /\ RXNACK' \in BOOLEAN
      BY <2>3, Zenon DEF Reset
    <3> QED
      BY <1>1, <1>5, <3>1 DEF Inv, FlagTypes
  <2>4. CASE UNCHANGED status
    BY <1>1, <1>5, <2>4 DEF Inv, FlagTypes, status
  <2> QED
    BY <2>1, <2>2, <2>3, <2>4
<1>10. BusReleased'
  <2>1. SUFFICES ASSUME stop, length # 1 PROVE bus' # "owner"
    BY <1>1 DEF BusReleased
  <2>2. CASE timeoutOccurred
    BY <1>2, <2>2 DEF Reset
  <2>3. CASE ~timeoutOccurred /\ More
    <3>1. bus # "owner" /\ ~owner
      BY <1>2, <2>3
    <3> QED
      BY <1>2, <2>3, <3>1 DEF status
  <2>4. CASE ~timeoutOccurred /\ ~More
    <3>1. byteRead = length
      BY <1>3, <1>4, <2>4 DEF More
    <3>2. busOwner
      BY <1>3, <1>4, <2>1, <3>1
    <3>3. owner
      BY <2>4, <3>2, Zenon
    <3> QED
      BY <1>2, <2>1, <2>4, <3>3 DEF Stop
  <2> QED
    BY <2>2, <2>3, <2>4
<1>11. ReadIsReceived'
  <2>1. SUFFICES ASSUME lost = "data" => result' < length, NEW n \in 1..result', n <= BufSize
                 PROVE  n <= Len(rxBuffer) /\ rxBuffer[n]
    BY <1>1 DEF ReadIsReceived, Done
  <2>2. ~timeoutOccurred /\ (result' = byteRead \/ result' = byteRead - 1)
    BY <1>7, <2>1
  <2>3. n <= Len(rxBuffer) /\ n \in 1..Len(rxBuffer) /\ n <= byteRead
    BY <1>3, <1>4, <2>1, <2>2 DEF Kept
  <2>4. CASE n # byteRead
    BY <1>3, <2>2, <2>3, <2>4
  <2>5. CASE n = byteRead
    <3>1. result' = byteRead
      BY <1>4, <2>1, <2>2, <2>5
    <3>2. lost # "data"
      <4>1. SUFFICES ASSUME lost = "data" PROVE FALSE
        OBVIOUS
      <4>2. byteRead < length
        BY <2>1, <3>1, <4>1
      <4>3. More
        BY <2>2, <4>2 DEF More
      <4>4. result' = byteRead - 1
        BY <1>1, <2>2, <4>3 DEF ReadValid
      <4> QED
        BY <1>4, <3>1, <4>4
    <3> QED
      BY <1>3, <2>2, <2>3, <3>2
  <2> QED
    BY <2>3, <2>4, <2>5
<1>12. MasterSound'
  BY <1>1, <1>10, <1>11 DEF MasterSound, SuccessIsDelivered, Done
<1> QED
  BY <1>1, <1>6, <1>8, <1>9, <1>12, Returned

-----------------------------------------------------------------------------
(* The invariant. *)

\* Every step of the master, of the hardware and of the sketch keeps the invariant.
LEMMA StepKeepsInv ==
  ASSUME WireAssumption, Inv, [Next]_vars
  PROVE  Inv'
<1>1. CASE Hardware
  <2>1. Aside
    BY <1>1 DEF Hardware, Aside, sketch, buffers
  <2> QED
    BY <1>1, <2>1, AcknowledgedStep, RefusedStep, ReceivedStep, LostStep, OtherMasterStep DEF Hardware
<1>2. CASE Master
  BY <1>2, StartStep, WaitAddressStep, WaitSlaveStep, CheckStep, SendByteStep, WaitSentStep,
     EndTransmissionStep, ReadByteStep, WaitReceivedStep, RequestFromStep DEF Master
<1>3. CASE UNCHANGED vars
  <2>1. UNCHANGED <<bus, ARBLOST, RXNACK, MB, SB, hw, timeoutOccurred, pc, again, flag, length, stop,
                    calls, txBuffer, rxBuffer, byteRead, busOwner, result, losses, acked, delivered, lost>>
    BY <1>3 DEF vars, status, sketch, buffers, history
  <2> QED
    BY <2>1 DEF Inv, Places, FlagTypes, OnTheBus, Writing, Reading, MasterSound, SuccessIsDelivered,
                ReadIsReceived, BusReleased, Done
<1> QED
  BY <1>1, <1>2, <1>3, CallStep DEF Next

\* The initial state satisfies it.
LEMMA InitInv == ASSUME WireAssumption, Init PROVE Inv
<1>1. /\ bus = "idle" /\ hw = "none" /\ pc = "sketch" /\ flag = "write" /\ length = 0 /\ txBuffer = 0
      /\ rxBuffer = <<>> /\ byteRead = 0 /\ result = 0 /\ calls = 0 /\ losses = 0 /\ delivered = 0
      /\ lost = "none"
  BY DEF Init
<1>2. MaxBytes \in Nat /\ MaxCalls \in Nat /\ MaxLost \in Nat /\ BufSize \in Nat
  BY Constants
<1>3. Places
  BY <1>1, <1>2 DEF Places
<1>4. FlagTypes
  BY Zenon DEF Init, FlagTypes
<1>5. OnTheBus /\ Writing /\ Reading
  BY <1>1 DEF OnTheBus, Writing, Reading
<1>6. MasterSound
  BY <1>1 DEF MasterSound, SuccessIsDelivered, ReadIsReceived, BusReleased, Done
<1> QED
  BY <1>3, <1>4, <1>5, <1>6 DEF Inv

\* The invariant of the master.
THEOREM MasterInvariance == Spec => []MasterInv
<1>1. Init => Inv
  BY RolesAssumption, InitInv
<1>2. Inv /\ [Next]_vars => Inv'
  BY RolesAssumption, StepKeepsInv
<1>3. Inv => MasterInv
  BY TypeParts DEF Inv, MasterInv, MasterSound
<1> QED
  BY <1>1, <1>2, <1>3, PTL DEF Spec

\* Type correctness: the counts of endTransmission() and requestFrom() stay within the call.
THEOREM MasterTypes == Spec => []TypeOK
BY MasterInvariance, PTL DEF MasterInv

\* TwoWire::endTransmission() returns success only for what the slave has
\* acknowledged, requestFrom() counts only bytes that were received, and a call
\* that was to stop does not hold the bus, but for what the parts of MasterSound
\* name: arbitration lost unseen, and a request of one byte.
THEOREM MasterReports == Spec => []MasterSound
BY MasterInvariance, PTL DEF MasterInv

-----------------------------------------------------------------------------
(* The slave: bytes are named by the transfer they belong to. *)

\* A buffer whose bytes all belong to one transfer.
Of(s, t) == \A i \in 1..Len(s) : s[i] = t

-----------------------------------------------------------------------------
(* The invariant of the slave. *)

\* What the flags and the master's place say of each other.
Bus ==
  /\ AMATCH <=> sl_bus = "address"
  /\ DRDY => sl_bus \in {"write", "read"}
  /\ PREC => sl_bus \in {"idle", "address"}
  /\ sl_bus = "write" => ~DIR
  /\ sl_bus = "read" => DIR

Buffers ==
  /\ sl_rxBuffer \in Seq(Nat) /\ sl_txBuffer \in Seq(Nat)
  /\ Len(sl_rxBuffer) <= BufSize /\ Len(sl_txBuffer) <= BufSize

\* The receive buffer holds the bytes of one write, which are those that were
\* acknowledged, and it is empty when a new write begins.
OneWrite ==
  /\ sl_rxBuffer = accepted
  /\ \E t \in Nat : Of(sl_rxBuffer, t)
  /\ sl_bus = "write" => Of(sl_rxBuffer, transfer)
  /\ sl_bus = "idle" /\ ~PREC => sl_rxBuffer = <<>>
  /\ sl_bus = "address" /\ ~SR /\ ~PREC => sl_rxBuffer = <<>>

\* The transmit buffer holds what this request wrote, unless it was not called.
OneAnswer ==
  /\ sl_bus = "read" /\ ~joined => Of(sl_txBuffer, transfer)
  /\ stale => joined

SlaveInv ==
  Slave!TypeOK /\ Bus /\ Buffers /\ OneWrite /\ OneAnswer /\ Slave!ReportsOneWrite

-----------------------------------------------------------------------------
(* Sequences of one value. *)

\* The constants are numbers.
LEMMA SlaveConstants == BufSize \in Nat /\ MaxLen \in Nat /\ MaxTransfers \in Nat
BY RolesAssumption DEF Slave!SlaveAssumption

\* onRequest() writes the number of the transfer n times.
LEMMA SameValue ==
  ASSUME NEW n \in Nat, NEW t \in Nat
  PROVE  /\ [i \in 1..n |-> t] \in Seq(Nat) /\ Len([i \in 1..n |-> t]) = n
         /\ Of([i \in 1..n |-> t], t)
BY DEF Of

\* An empty buffer holds bytes of any transfer.
LEMMA EmptyOf == ASSUME NEW t PROVE <<>> \in Seq(Nat) /\ Len(<<>>) = 0 /\ Of(<<>>, t)
BY EmptySeq DEF Of

\* Another byte of the same transfer.
LEMMA AppendOf ==
  ASSUME NEW s \in Seq(Nat), NEW t \in Nat, Of(s, t)
  PROVE  Append(s, t) \in Seq(Nat) /\ Len(Append(s, t)) = Len(s) + 1 /\ Of(Append(s, t), t)
<1>1. /\ Append(s, t) \in Seq(Nat) /\ Len(Append(s, t)) = Len(s) + 1 /\ Len(s) \in Nat
      /\ \A i \in 1..Len(s) : Append(s, t)[i] = s[i]
      /\ Append(s, t)[Len(s) + 1] = t
  BY AppendProperties, LenProperties
<1>2. ASSUME NEW i \in 1..Len(Append(s, t)) PROVE Append(s, t)[i] = t
  <2>1. CASE i \in 1..Len(s)
    BY <1>1, <2>1 DEF Of
  <2>2. CASE i = Len(s) + 1
    BY <1>1, <2>2
  <2> QED
    BY <1>1, <2>1, <2>2
<1> QED
  BY <1>1, <1>2 DEF Of

\* What is left, and what is sent, is of the same transfer.
LEMMA TailOf ==
  ASSUME NEW s \in Seq(Nat), NEW t, s # <<>>
  PROVE  /\ Tail(s) \in Seq(Nat) /\ Len(Tail(s)) = Len(s) - 1 /\ Len(s) \in Nat
         /\ Of(s, t) => Of(Tail(s), t) /\ Head(s) = t
<1>1. /\ Tail(s) \in Seq(Nat) /\ Len(Tail(s)) = Len(s) - 1
      /\ \A i \in 1..Len(Tail(s)) : Tail(s)[i] = s[i + 1]
  BY HeadTailProperties
<1>2. Len(s) \in Nat \ {0}
  BY EmptySeq
<1>3. Head(s) = s[1]
  BY <1>2
<1>4. ASSUME Of(s, t) PROVE Of(Tail(s), t) /\ Head(s) = t
  <2>1. ASSUME NEW i \in 1..Len(Tail(s)) PROVE Tail(s)[i] = t
    <3>1. i + 1 \in 1..Len(s)
      BY <1>1, <1>2
    <3> QED
      BY <1>1, <1>4, <3>1 DEF Of
  <2>2. 1 \in 1..Len(s)
    BY <1>2
  <2> QED
    BY <1>3, <1>4, <2>1, <2>2 DEF Of
<1> QED
  BY <1>1, <1>2, <1>4
-----------------------------------------------------------------------------
(* The steps.  The provers reason apart about the flags and the rest. *)

SlaveFlags ==
  /\ PREC \in BOOLEAN /\ AMATCH \in BOOLEAN /\ DRDY \in BOOLEAN /\ SR \in BOOLEAN
  /\ DIR \in BOOLEAN /\ refused \in BOOLEAN /\ stale \in BOOLEAN /\ joined \in BOOLEAN

SlaveFields ==
  /\ sl_bus \in {"idle", "address", "write", "read"}
  /\ len \in 0..MaxLen /\ transfer \in 0..MaxTransfers

SlaveParts == Bus /\ Buffers /\ OneWrite /\ OneAnswer /\ Slave!ReportsOneWrite

\* The invariant, split for the provers.
LEMMA SlaveTypeParts ==
  /\ SlaveInv => SlaveFlags /\ SlaveFields /\ SlaveParts
  /\ SlaveFlags /\ SlaveFields /\ SlaveParts => SlaveInv
BY DEF SlaveInv, Slave!TypeOK, SlaveFlags, SlaveFields, SlaveParts, Bus, Buffers

\* The invariant holds when the slave is begun.
LEMMA SlaveStart == Slave!Init => SlaveInv
<1> SUFFICES ASSUME Slave!Init PROVE SlaveInv
  OBVIOUS
<1>1. SlaveFlags
  BY Zenon DEF Slave!Init, SlaveFlags
<1>2. SlaveFields
  BY SlaveConstants DEF Slave!Init, SlaveFields
<1>3. Buffers
  BY SlaveConstants, EmptyOf DEF Slave!Init, Buffers
<1>4. Bus
  BY DEF Slave!Init, Bus
<1>5. OneWrite
  <2>1. sl_rxBuffer = <<>> /\ accepted = <<>> /\ Of(<<>>, 0) /\ sl_bus = "idle"
    BY EmptyOf DEF Slave!Init
  <2> QED
    BY <2>1 DEF OneWrite
<1>6. OneAnswer
  BY DEF Slave!Init, OneAnswer
<1>7. Slave!ReportsOneWrite
  <2>1. reported.found = <<>> /\ reported.due = <<>>
    BY DEF Slave!Init
  <2>2. DOMAIN reported.found = 1..0
    BY <2>1
  <2> QED
    BY <2>1, <2>2 DEF Slave!ReportsOneWrite
<1> QED
  BY <1>1, <1>2, <1>3, <1>4, <1>5, <1>6, <1>7, SlaveTypeParts DEF SlaveParts

\* The master addresses the slave again: the bytes of the write before are still
\* there, and the stop before may be.
LEMMA MasterAddressesStep ==
  ASSUME SlaveFlags, SlaveFields, SlaveParts, Slave!MasterAddresses
  PROVE  SlaveFlags' /\ SlaveFields' /\ SlaveParts'
<1>1. /\ ~AMATCH /\ ~DRDY /\ transfer < MaxTransfers /\ transfer' = transfer + 1 /\ len' = 0
      /\ AMATCH' = TRUE /\ sl_bus' = "address"
      /\ refused' = FALSE /\ stale' = FALSE /\ joined' = FALSE
      /\ PREC' = PREC /\ DRDY' = DRDY
      /\ UNCHANGED <<sl_rxBuffer, sl_txBuffer, accepted, reported>>
  BY DEF Slave!MasterAddresses, Slave!Held
<1>2. SR' \in BOOLEAN /\ DIR' \in BOOLEAN /\ (~SR' => sl_bus = "idle")
  BY Zenon DEF Slave!MasterAddresses
<1>3. SlaveFlags'
  BY <1>1, <1>2, Zenon DEF SlaveFlags
<1>4. SlaveFields'
  BY <1>1, SlaveConstants DEF SlaveFields
<1>5. Bus' /\ Buffers'
  BY <1>1 DEF SlaveParts, Bus, Buffers
<1>6. OneWrite' /\ OneAnswer'
  BY <1>1, <1>2 DEF SlaveParts, OneWrite, OneAnswer
<1>7. Slave!ReportsOneWrite'
  BY <1>1 DEF SlaveParts, Slave!ReportsOneWrite
<1> QED
  BY <1>3, <1>4, <1>5, <1>6, <1>7 DEF SlaveParts

\* Neither the next byte nor a stop disturbs what the handler keeps.
LEMMA MasterGoesOn ==
  ASSUME SlaveFlags, SlaveFields, SlaveParts, Slave!NextByte \/ Slave!MasterStops
  PROVE  SlaveFlags' /\ SlaveFields' /\ SlaveParts'
<1>1. /\ sl_bus \in {"write", "read"} /\ ~AMATCH /\ AMATCH' = AMATCH /\ SR' = SR /\ DIR' = DIR
      /\ refused' = refused /\ stale' = stale /\ joined' = joined /\ transfer' = transfer
      /\ UNCHANGED <<sl_rxBuffer, sl_txBuffer, accepted, reported>>
  BY DEF Slave!NextByte, Slave!MasterStops, Slave!Held, Slave!history
<1>2. \/ DRDY' = TRUE /\ PREC' = PREC /\ sl_bus' = sl_bus /\ len' = len + 1 /\ len < MaxLen
      \/ DRDY' = DRDY /\ PREC' = TRUE /\ sl_bus' = "idle" /\ len' = len /\ ~DRDY
  BY DEF Slave!NextByte, Slave!MasterStops, Slave!Held
<1>3. SlaveFlags'
  BY <1>1, <1>2, Zenon DEF SlaveFlags
<1>4. SlaveFields'
  BY <1>1, <1>2, SlaveConstants DEF SlaveFields
<1>5. Bus' /\ Buffers'
  BY <1>1, <1>2 DEF SlaveParts, Bus, Buffers
<1>6. OneWrite' /\ OneAnswer'
  BY <1>1, <1>2 DEF SlaveParts, OneWrite, OneAnswer
<1>7. Slave!ReportsOneWrite'
  BY <1>1 DEF SlaveParts, Slave!ReportsOneWrite
<1> QED
  BY <1>3, <1>4, <1>5, <1>6, <1>7 DEF SlaveParts

\* What is reported is the bytes of one write, and the buffer is empty after it.
LEMMA ReportStep ==
  ASSUME SlaveFlags, SlaveFields, SlaveParts, Slave!Report
  PROVE  SlaveFlags' /\ SlaveFields' /\ SlaveParts'
<1>1. /\ PREC' = FALSE /\ AMATCH' = FALSE /\ DRDY' = FALSE
      /\ SR' = SR /\ DIR' = DIR /\ refused' = refused /\ stale' = stale
      /\ len' = len /\ transfer' = transfer /\ sl_txBuffer' = sl_txBuffer
      /\ sl_rxBuffer' = <<>> /\ accepted' = <<>>
      /\ reported' = [found |-> sl_rxBuffer, due |-> accepted]
  BY DEF Slave!Report, Slave!Acknowledge, Slave!ClearFlags
<1>2. joined' \in BOOLEAN /\ (joined \/ AMATCH => joined')
  BY Zenon DEF Slave!Report
<1>3. \/ AMATCH /\ DIR /\ sl_bus' = "read"
      \/ AMATCH /\ ~DIR /\ sl_bus' = "write"
      \/ ~AMATCH /\ sl_bus' = sl_bus
  BY DEF Slave!Report, Slave!Acknowledge
<1>4. PREC \/ AMATCH
  BY DEF Slave!Report, Slave!StopOrRestart
<1>5. SlaveFlags'
  BY <1>1, <1>2, Zenon DEF SlaveFlags
<1>6. SlaveFields'
  BY <1>1, <1>3 DEF SlaveFields
<1>7. Bus'
  BY <1>1, <1>3, <1>4 DEF SlaveParts, Bus
<1>8. Buffers'
  BY <1>1, SlaveConstants, EmptyOf DEF SlaveParts, Buffers
<1>9. OneWrite'
  <2>1. Of(<<>>, 0) /\ Of(<<>>, transfer)
    BY EmptyOf
  <2> QED
    BY <1>1, <2>1 DEF OneWrite
<1>10. OneAnswer'
  BY <1>1, <1>2, <1>3, <1>4 DEF SlaveParts, Bus, OneAnswer
<1>11. Slave!ReportsOneWrite'
  <2>1. reported'.found = sl_rxBuffer /\ reported'.due = accepted /\ sl_rxBuffer = accepted
    BY <1>1 DEF SlaveParts, OneWrite
  <2>2. PICK t \in Nat : Of(sl_rxBuffer, t)
    BY DEF SlaveParts, OneWrite
  <2>3. DOMAIN sl_rxBuffer = 1..Len(sl_rxBuffer)
    BY LenProperties DEF SlaveParts, Buffers
  <2>4. \A i, j \in DOMAIN sl_rxBuffer : sl_rxBuffer[i] = sl_rxBuffer[j]
    BY <2>2, <2>3 DEF Of
  <2> QED
    BY <2>1, <2>4 DEF Slave!ReportsOneWrite
<1> QED
  BY <1>5, <1>6, <1>7, <1>8, <1>9, <1>10, <1>11 DEF SlaveParts

\* A request fills the buffer anew; a write begins with an empty buffer.
LEMMA AddressMatchStep ==
  ASSUME SlaveFlags, SlaveFields, SlaveParts, Slave!AddressMatch
  PROVE  SlaveFlags' /\ SlaveFields' /\ SlaveParts'
<1>1. /\ PREC' = FALSE /\ AMATCH' = FALSE /\ DRDY' = FALSE
      /\ SR' = SR /\ DIR' = DIR /\ refused' = refused /\ stale' = stale /\ joined' = joined
      /\ len' = len /\ transfer' = transfer
      /\ UNCHANGED <<sl_rxBuffer, accepted, reported>>
  BY DEF Slave!AddressMatch, Slave!Acknowledge, Slave!ClearFlags, Slave!history
<1>2. ~PREC /\ AMATCH /\ (DIR \/ ~SR)
  BY DEF Slave!AddressMatch, Slave!StopOrRestart
<1>3. \/ DIR /\ sl_bus' = "read" /\ sl_txBuffer' \in Slave!Answers
      \/ ~DIR /\ sl_bus' = "write" /\ sl_txBuffer' = sl_txBuffer
  BY DEF Slave!AddressMatch, Slave!Acknowledge
<1>4. sl_txBuffer' \in Slave!Answers =>
        sl_txBuffer' \in Seq(Nat) /\ Len(sl_txBuffer') <= BufSize /\ Of(sl_txBuffer', transfer)
  <2>1. transfer \in Nat
    BY SlaveConstants DEF SlaveFields
  <2> SUFFICES ASSUME NEW n \in 0..BufSize, sl_txBuffer' = [i \in 1..n |-> transfer]
               PROVE  sl_txBuffer' \in Seq(Nat) /\ Len(sl_txBuffer') <= BufSize /\ Of(sl_txBuffer', transfer)
    BY DEF Slave!Answers
  <2>2. n \in Nat /\ n <= BufSize
    BY SlaveConstants
  <2> QED
    BY <2>1, <2>2, SameValue
<1>5. SlaveFlags'
  BY <1>1, Zenon DEF SlaveFlags
<1>6. SlaveFields'
  BY <1>1, <1>3 DEF SlaveFields
<1>7. Bus'
  BY <1>1, <1>3 DEF SlaveParts, Bus
<1>8. Buffers'
  BY <1>1, <1>3, <1>4 DEF SlaveParts, Buffers
<1>9. OneWrite'
  <2>1. ~DIR => sl_rxBuffer = <<>>
    BY <1>2 DEF SlaveParts, Bus, OneWrite
  <2>2. Of(<<>>, transfer)
    BY EmptyOf
  <2> QED
    BY <1>1, <1>3, <2>1, <2>2 DEF SlaveParts, OneWrite
<1>10. OneAnswer'
  BY <1>1, <1>3, <1>4 DEF SlaveParts, OneAnswer
<1>11. Slave!ReportsOneWrite'
  BY <1>1 DEF SlaveParts, Slave!ReportsOneWrite
<1> QED
  BY <1>5, <1>6, <1>7, <1>8, <1>9, <1>10, <1>11 DEF SlaveParts

\* What is sent is what this request wrote, unless no one asked for it.
LEMMA SlaveSendByteStep ==
  ASSUME SlaveFlags, SlaveFields, SlaveParts, Slave!SendByte
  PROVE  SlaveFlags' /\ SlaveFields' /\ SlaveParts'
<1>1. /\ PREC' = FALSE /\ AMATCH' = FALSE /\ DRDY' = FALSE
      /\ SR' = SR /\ DIR' = DIR /\ refused' = refused /\ joined' = joined
      /\ len' = len /\ transfer' = transfer /\ sl_bus' = sl_bus
      /\ UNCHANGED <<sl_rxBuffer, accepted, reported>>
  BY DEF Slave!SendByte, Slave!Acknowledge, Slave!ClearFlags
<1>2. sl_bus = "read"
  BY DEF Slave!SendByte, Slave!StopOrRestart, SlaveParts, Bus
<1>3. /\ stale' \in BOOLEAN
      /\ stale' => stale \/ (sl_txBuffer # <<>> /\ Head(sl_txBuffer) # transfer)
  BY Zenon DEF Slave!SendByte, SlaveFlags
<1>4. sl_txBuffer' = sl_txBuffer \/ (sl_txBuffer # <<>> /\ sl_txBuffer' = Tail(sl_txBuffer))
  BY DEF Slave!SendByte
<1>5. sl_txBuffer # <<>> =>
        /\ Tail(sl_txBuffer) \in Seq(Nat) /\ Len(Tail(sl_txBuffer)) <= BufSize
        /\ Of(sl_txBuffer, transfer) => Of(Tail(sl_txBuffer), transfer) /\ Head(sl_txBuffer) = transfer
  <2> SUFFICES ASSUME sl_txBuffer # <<>>
               PROVE  /\ Tail(sl_txBuffer) \in Seq(Nat) /\ Len(Tail(sl_txBuffer)) <= BufSize
                      /\ Of(sl_txBuffer, transfer) =>
                           Of(Tail(sl_txBuffer), transfer) /\ Head(sl_txBuffer) = transfer
    OBVIOUS
  <2>1. sl_txBuffer \in Seq(Nat) /\ Len(sl_txBuffer) <= BufSize
    BY DEF SlaveParts, Buffers
  <2>2. /\ Tail(sl_txBuffer) \in Seq(Nat) /\ Len(Tail(sl_txBuffer)) = Len(sl_txBuffer) - 1
        /\ Len(sl_txBuffer) \in Nat
        /\ Of(sl_txBuffer, transfer) => Of(Tail(sl_txBuffer), transfer) /\ Head(sl_txBuffer) = transfer
    BY <2>1, TailOf
  <2> QED
    BY <2>1, <2>2, SlaveConstants
<1>6. SlaveFlags'
  BY <1>1, <1>3, Zenon DEF SlaveFlags
<1>7. SlaveFields'
  BY <1>1 DEF SlaveFields
<1>8. Bus'
  BY <1>1, <1>2 DEF SlaveParts, Bus
<1>9. Buffers'
  BY <1>1, <1>4, <1>5 DEF SlaveParts, Buffers
<1>10. OneWrite'
  BY <1>1, <1>2 DEF SlaveParts, OneWrite
<1>11. OneAnswer'
  BY <1>1, <1>2, <1>3, <1>4, <1>5 DEF SlaveParts, OneAnswer
<1>12. Slave!ReportsOneWrite'
  BY <1>1 DEF SlaveParts, Slave!ReportsOneWrite
<1> QED
  BY <1>6, <1>7, <1>8, <1>9, <1>10, <1>11, <1>12 DEF SlaveParts

\* A byte that fits is acknowledged and stored behind those of the same write.
LEMMA StoreByteStep ==
  ASSUME SlaveFlags, SlaveFields, SlaveParts, Slave!StoreByte
  PROVE  SlaveFlags' /\ SlaveFields' /\ SlaveParts'
<1>1. /\ PREC' = FALSE /\ AMATCH' = FALSE /\ DRDY' = FALSE
      /\ SR' = SR /\ DIR' = DIR /\ stale' = stale /\ joined' = joined
      /\ len' = len /\ transfer' = transfer /\ sl_bus' = sl_bus
      /\ UNCHANGED <<sl_txBuffer, reported>>
  BY DEF Slave!StoreByte, Slave!Acknowledge, Slave!ClearFlags
<1>2. sl_bus = "write"
  BY DEF Slave!StoreByte, Slave!StopOrRestart, SlaveParts, Bus
<1>3. refused' \in BOOLEAN
  BY Zenon DEF Slave!StoreByte
<1>4. \/ sl_rxBuffer' = sl_rxBuffer /\ accepted' = accepted
      \/ /\ Len(sl_rxBuffer) < BufSize
         /\ sl_rxBuffer' = Append(sl_rxBuffer, transfer) /\ accepted' = Append(accepted, transfer)
  BY DEF Slave!StoreByte, Slave!Room
<1>5. sl_rxBuffer \in Seq(Nat) /\ Of(sl_rxBuffer, transfer) /\ sl_rxBuffer = accepted /\ transfer \in Nat
  BY <1>2, SlaveConstants DEF SlaveParts, Buffers, OneWrite, SlaveFields
<1>6. /\ Append(sl_rxBuffer, transfer) \in Seq(Nat)
      /\ Len(Append(sl_rxBuffer, transfer)) = Len(sl_rxBuffer) + 1 /\ Len(sl_rxBuffer) \in Nat
      /\ Of(Append(sl_rxBuffer, transfer), transfer)
  BY <1>5, AppendOf, LenProperties
<1>7. SlaveFlags'
  BY <1>1, <1>3, Zenon DEF SlaveFlags
<1>8. SlaveFields'
  BY <1>1 DEF SlaveFields
<1>9. Bus'
  BY <1>1, <1>2 DEF SlaveParts, Bus
<1>10. Buffers'
  <2>1. /\ sl_txBuffer' = sl_txBuffer /\ sl_txBuffer \in Seq(Nat) /\ Len(sl_txBuffer) <= BufSize
        /\ sl_rxBuffer \in Seq(Nat) /\ Len(sl_rxBuffer) <= BufSize
    BY <1>1 DEF SlaveParts, Buffers
  <2>2. sl_rxBuffer' \in Seq(Nat)
    BY <1>4, <1>6, <2>1
  <2>3. Len(sl_rxBuffer') <= BufSize
    <3>1. CASE sl_rxBuffer' = sl_rxBuffer
      BY <2>1, <3>1
    <3>2. CASE Len(sl_rxBuffer) < BufSize /\ sl_rxBuffer' = Append(sl_rxBuffer, transfer)
      BY <1>6, <3>2, SlaveConstants
    <3> QED
      BY <1>4, <3>1, <3>2
  <2> QED
    BY <2>1, <2>2, <2>3 DEF Buffers
<1>11. OneWrite'
  BY <1>1, <1>2, <1>4, <1>5, <1>6 DEF OneWrite
<1>12. OneAnswer'
  BY <1>1, <1>2 DEF SlaveParts, OneAnswer
<1>13. Slave!ReportsOneWrite'
  BY <1>1 DEF SlaveParts, Slave!ReportsOneWrite
<1> QED
  BY <1>7, <1>8, <1>9, <1>10, <1>11, <1>12, <1>13 DEF SlaveParts

\* Every step of the master and of the handler keeps the invariant.
LEMMA SlaveStep == SlaveInv /\ [Slave!Next]_Slave!vars => SlaveInv'
<1> SUFFICES ASSUME SlaveInv, [Slave!Next]_Slave!vars PROVE SlaveInv'
  OBVIOUS
<1>0. SlaveFlags /\ SlaveFields /\ SlaveParts
  BY SlaveTypeParts
<1>1. ASSUME UNCHANGED Slave!vars PROVE SlaveInv'
  BY <1>1 DEF Slave!vars, Slave!flags, Slave!master, Slave!history, SlaveInv, Slave!TypeOK, Bus, Buffers, OneWrite, OneAnswer,
              Slave!ReportsOneWrite
<1>2. ASSUME Slave!Next PROVE SlaveFlags' /\ SlaveFields' /\ SlaveParts'
  BY <1>0, <1>2, MasterAddressesStep, MasterGoesOn, ReportStep, AddressMatchStep, SlaveSendByteStep,
     StoreByteStep DEF Slave!Next, Slave!OnService
<1>3. SlaveFlags' /\ SlaveFields' /\ SlaveParts' => SlaveInv'
  BY DEF SlaveInv, Slave!TypeOK, SlaveFlags, SlaveFields, SlaveParts, Bus, Buffers
<1> QED
  BY <1>1, <1>2, <1>3

-----------------------------------------------------------------------------
(* The theorems about the slave. *)

\* The invariant: whose bytes the buffers hold at each place of the bus.
THEOREM SlaveInvariance == Slave!Spec => []SlaveInv
BY SlaveStart, SlaveStep, PTL DEF Slave!Spec

\* Neither buffer of the slave ever holds more than SERIAL_BUFFER_SIZE bytes.
THEOREM SlaveTypes == Slave!Spec => []Slave!TypeOK
<1>1. SlaveInv => Slave!TypeOK
  BY DEF SlaveInv
<1> QED
  BY <1>1, SlaveInvariance, PTL

\* TwoWire::onService(): onReceive() finds the bytes of one write and no other,
\* and the master gets bytes of an earlier request only when a stop and the
\* next address were served as one.
THEOREM SlaveReports == Slave!Spec => []SlaveSound
<1>1. SlaveInv => SlaveSound
  BY DEF SlaveInv, OneAnswer, SlaveSound, Slave!SlaveSound, Slave!FreshAnswers
<1> QED
  BY <1>1, SlaveInvariance, PTL

-----------------------------------------------------------------------------
(* The clock: dates and numbers of seconds. *)

\* Division with a remainder.
LEMMA DivMod ==
  ASSUME NEW x \in Int, NEW n \in Nat \ {0}
  PROVE  /\ x \div n \in Int /\ x % n \in 0..n - 1
         /\ x = n * (x \div n) + (x % n)
  OBVIOUS

\* The only multiple that is smaller than the number is 0.
LEMMA SmallMultiple ==
  ASSUME NEW n \in Nat \ {0}, NEW u \in Int, n * u < n, -n < n * u
  PROVE  u = 0
<1>1. CASE u >= 1
  <2>1. n * u = n + n * (u - 1)
    OBVIOUS
  <2>2. n * (u - 1) >= 0
    BY <1>1
  <2>. QED
    BY <2>1, <2>2
<1>2. CASE u <= -1
  <2>1. n * u = -n + n * (u + 1)
    OBVIOUS
  <2>2. n * (u + 1) <= 0
    BY <1>2
  <2>. QED
    BY <2>1, <2>2
<1>. QED
  BY <1>1, <1>2

\* Quotient and remainder are the only ones.
LEMMA DivModUnique ==
  ASSUME NEW n \in Nat \ {0}, NEW q \in Int, NEW r \in 0..n - 1
  PROVE  (n * q + r) % n = r /\ (n * q + r) \div n = q
<1> DEFINE x == n * q + r
<1>0. x \in Int
  OBVIOUS
<1>1. /\ x \div n \in Int /\ x % n \in 0..n - 1
      /\ x = n * (x \div n) + (x % n)
  BY <1>0, DivMod
<1> DEFINE d == x \div n
<1> DEFINE e == x % n
<1> HIDE DEF d, e
<1>2. n * q + r = n * d + e /\ d \in Int /\ e \in 0..n - 1
  BY <1>1 DEF d, e
<1>3. n * (q - d) = e - r
  BY <1>2
<1>4. q - d = 0
  BY <1>2, <1>3, SmallMultiple
<1>. QED
  BY <1>2, <1>4 DEF d, e

\* Digits of two places make a number below the product.
LEMMA TwoPlaces ==
  ASSUME NEW a \in Nat \ {0}, NEW b \in Nat \ {0}, NEW x \in 0..a - 1, NEW y \in 0..b - 1
  PROVE  x + a * y \in 0..a * b - 1 /\ a * b \in Nat \ {0}
<1>1. a * b \in Nat /\ a * y \in Nat
  OBVIOUS
<1>2. a * b = a + a * y + a * (b - 1 - y)
  OBVIOUS
<1>3. a * (b - 1 - y) \in Nat
  OBVIOUS
<1>. QED
  BY <1>1, <1>2, <1>3

\* The places of a time of the clock.
LEMMA Radix ==
  /\ S \in Nat \ {0, 1} /\ M \in Nat \ {0, 1} /\ H \in Nat \ {0, 1} /\ D \in Nat \ {0, 1}
  /\ S * M \in Nat \ {0} /\ S * M * H \in Nat \ {0}
<1>1. S \in Nat \ {0, 1} /\ M \in Nat \ {0, 1} /\ H \in Nat \ {0, 1} /\ D \in Nat \ {0, 1}
  BY LibrariesAssumption DEF Rtc!RtcAssumption
<1>2. S * M \in Nat \ {0}
  BY <1>1, 0 \in 0..S - 1, 0 \in 0..M - 1, TwoPlaces
<1> DEFINE SM == S * M
<1> HIDE DEF SM
<1>3. SM \in Nat \ {0}
  BY <1>2 DEF SM
<1>4. SM * H \in Nat \ {0}
  BY <1>1, <1>3, 0 \in 0..SM - 1, 0 \in 0..H - 1, TwoPlaces
<1>. QED
  BY <1>1, <1>2, <1>4 DEF SM

\* Every number of seconds has a date (RTCZero::setEpoch),
LEMMA DateIsDate == ASSUME NEW t \in Nat PROVE Rtc!Date(t) \in Rtc!Dates
<1>1. \A n \in Nat \ {0} : t \div n \in Int /\ t % n \in 0..n - 1
  BY DivMod
<1>2. \A n \in Nat \ {0}, k \in Nat \ {0} : (t \div n) % k \in 0..k - 1
  BY <1>1, DivMod
<1>3. t % S \in 0..S - 1
  BY <1>1, Radix
<1>4. (t \div S) % M \in 0..M - 1
  BY <1>2, Radix
<1> DEFINE SM == S * M
           SMH == S * M * H
<1> HIDE DEF SM, SMH
<1>5. SM \in Nat \ {0} /\ SMH \in Nat \ {0}
  BY Radix DEF SM, SMH
<1>6. (t \div SM) % H \in 0..H - 1
  BY <1>2, <1>5, Radix
<1>7. (t \div SMH) % D \in 0..D - 1
  BY <1>2, <1>5, Radix
<1>. QED
  BY <1>3, <1>4, <1>6, <1>7 DEF Rtc!Date, Rtc!Dates, SM, SMH

\* every date a number of seconds (getEpoch),
LEMMA EpochIsNat == ASSUME NEW d \in Rtc!Dates PROVE Rtc!Epoch(d) \in Nat
<1>1. d.second \in Nat /\ d.minute \in Nat /\ d.hour \in Nat /\ d.day \in Nat
  BY Radix DEF Rtc!Dates
<1>2. \A x, y, n \in Nat : x + n * y \in Nat
  OBVIOUS
<1>. QED
  BY <1>1, <1>2, Radix DEF Rtc!Epoch

\* and the date of that number is the date again.
LEMMA DateOfEpoch == ASSUME NEW d \in Rtc!Dates PROVE Rtc!Date(Rtc!Epoch(d)) = d
<1>1. PICK s \in 0..S - 1, m \in 0..M - 1, h \in 0..H - 1, y \in 0..D - 1 :
        d = [second |-> s, minute |-> m, hour |-> h, day |-> y]
  BY DEF Rtc!Dates
<1>2. s \in Int /\ m \in Int /\ h \in Int /\ y \in Int
  OBVIOUS
<1> DEFINE e == s + S * (m + M * (h + H * y))
           SM == S * M
           SMH == S * M * H
           e1 == m + M * (h + H * y)
           e2 == h + H * y
<1>3. Rtc!Epoch(d) = e
  BY <1>1 DEF Rtc!Epoch
<1>4. e = S * e1 + s /\ e1 = M * e2 + m /\ e1 \in Int /\ e2 \in Int
  BY <1>2, Radix
<1>5. e % S = s /\ e \div S = e1
  <2> HIDE DEF e, e1, e2
  <2>. QED
    BY <1>4, Radix, DivModUnique
<1>6. e1 % M = m
  <2> HIDE DEF e, e1, e2
  <2>. QED
    BY <1>4, Radix, DivModUnique
<1>7. (e \div SM) % H = h
  <2>1. e = SM * e2 + (s + S * m)
    <3>1. S * (m + M * e2) = S * m + S * (M * e2)
      BY <1>2, <1>4, Radix
    <3>2. S * (M * e2) = (S * M) * e2
      BY <1>4, Radix
    <3>. QED
      BY <1>2, <1>4, <3>1, <3>2, Radix
  <2>2. s + S * m \in 0..SM - 1 /\ SM \in Nat \ {0}
    BY TwoPlaces, Radix
  <2>3. e \div SM = e2
    <3> DEFINE r == s + S * m
    <3>1. r \in 0..SM - 1 /\ e = SM * e2 + r
      BY <2>1, <2>2
    <3> HIDE DEF e, e1, e2, SM, r
    <3>2. \A q \in Int, x \in 0..SM - 1 : (SM * q + x) \div SM = q
      BY <2>2, DivModUnique
    <3>. QED
      BY <1>4, <3>1, <3>2
  <2>4. e2 % H = h
    <3>1. e2 = H * y + h
      BY <1>2, Radix
    <3>. QED
      BY <3>1, <1>2, Radix, DivModUnique
  <2>. QED
    BY <2>3, <2>4
<1>8. (e \div SMH) % D = y
  <2> DEFINE r == s + S * (m + M * h)
  <2>1. m + M * h \in 0..M * H - 1 /\ M * H \in Nat \ {0}
    BY TwoPlaces, Radix
  <2>2. r \in 0..S * (M * H) - 1
    <3> DEFINE MH == M * H
               x == m + M * h
    <3> HIDE DEF MH, x
    <3>1. MH \in Nat \ {0} /\ x \in 0..MH - 1
      BY <2>1 DEF MH, x
    <3>2. s + S * x \in 0..S * MH - 1
      BY <3>1, TwoPlaces, Radix
    <3>. QED
      BY <3>2 DEF MH, x
  <2>3. S * (M * H) = SMH
    BY Radix
  <2>4. e = SMH * y + r
    <3>1. M * (h + H * y) = M * h + M * H * y
      BY <1>2, Radix
    <3>2. S * (m + (M * h + M * H * y)) = S * (m + M * h) + S * (M * H * y)
      <4> DEFINE u == M * h
                 v == M * H * y
      <4>1. u \in Int /\ v \in Int
        BY <1>2, Radix
      <4> HIDE DEF u, v
      <4>2. S * (m + (u + v)) = S * (m + u) + S * v
        BY <4>1, <1>2, Radix
      <4>. QED
        BY <4>2 DEF u, v
    <3>3. S * (M * H * y) = S * M * H * y
      BY <1>2, Radix
    <3>4. M * h \in Int /\ S * M * H * y \in Int /\ S * (m + M * h) \in Int
      BY <1>2, Radix
    <3>. QED
      BY <1>2, <3>1, <3>2, <3>3, <3>4
  <2>5. e \div SMH = y
    <3>1. r \in 0..SMH - 1
      BY <2>2, <2>3
    <3> HIDE DEF e, SMH, r
    <3>. QED
      BY <1>2, <2>4, <3>1, Radix, DivModUnique DEF SMH
  <2>6. y % D = y
    BY Radix
  <2>. QED
    BY <2>5, <2>6
<1>9. Rtc!Date(e) = [second |-> s, minute |-> m, hour |-> h, day |-> y]
  <2> HIDE DEF e, e1, e2
  <2>. QED
    BY <1>5, <1>6, <1>7, <1>8 DEF Rtc!Date
<1>. QED
  BY <1>1, <1>3, <1>9

\* A second that is not the last of its minute changes nothing else.
LEMMA NoCarry ==
  ASSUME NEW d \in Rtc!Dates, d.second # S - 1
  PROVE  Rtc!Date(Rtc!Epoch(d) + 1) = [d EXCEPT !.second = d.second + 1]
<1> DEFINE c == [d EXCEPT !.second = d.second + 1]
<1>1. c \in Rtc!Dates
  BY Radix DEF Rtc!Dates
<1>2. Rtc!Epoch(c) = Rtc!Epoch(d) + 1
  <2>1. d.second \in Int /\ d.minute \in Int /\ d.hour \in Int /\ d.day \in Int
    BY Radix DEF Rtc!Dates
  <2>2. S * (d.minute + M * (d.hour + H * d.day)) \in Int
    BY <2>1, Radix
  <2>3. c.second = d.second + 1 /\ c.minute = d.minute /\ c.hour = d.hour /\ c.day = d.day
    BY DEF Rtc!Dates
  <2>. QED
    BY <2>1, <2>2, <2>3 DEF Rtc!Epoch
<1>. QED
  BY <1>1, <1>2, DateOfEpoch

-----------------------------------------------------------------------------
(* The clock: the invariant of Rtc. *)

\* The fields that are still to be written,
FieldsToWrite ==
  /\ rtc_pc \in {"time", "store"} =>
       rtc_rest \in {<<"second", "minute", "hour">>, <<"minute", "hour">>, <<"hour">>}
  /\ rtc_pc = "alarm" =>
       rtc_rest \in {<<"day", "second", "minute", "hour">>, <<"second", "minute", "hour">>,
                <<"minute", "hour">>, <<"hour">>}

\* and what the written ones are: the seconds may have gone on once,
Holds(c) ==
  /\ \E k \in 0..rtc_edges : c.second = rtc_arg.second + k
  /\ Len(rtc_rest) = 1 => c.minute = rtc_arg.minute

\* in the clock, or in what was read of it.
FieldsWritten ==
  Len(rtc_rest) < 3 /\ rtc_arg.second # S - 1 =>
    /\ rtc_pc = "time" => Holds(rtc_clock)
    /\ rtc_pc = "store" => Holds(rtc_loaded)

\* The inductive invariant of the clock.
RtcInv == Rtc!TypeOK /\ FieldsToWrite /\ FieldsWritten

\* The lists of the fields, as setTime() and setAlarmEpoch() write them.
LEMMA FieldLists ==
  /\ Rtc!TimeFields = <<"second", "minute", "hour">>
  /\ Rtc!AlarmFields = <<"day", "second", "minute", "hour">>
  /\ Len(<<"hour">>) = 1 /\ Head(<<"hour">>) = "hour" /\ Tail(<<"hour">>) = <<>>
  /\ Len(<<"minute", "hour">>) = 2 /\ Head(<<"minute", "hour">>) = "minute"
  /\ Tail(<<"minute", "hour">>) = <<"hour">>
  /\ Len(<<"second", "minute", "hour">>) = 3 /\ Head(<<"second", "minute", "hour">>) = "second"
  /\ Tail(<<"second", "minute", "hour">>) = <<"minute", "hour">>
  /\ Len(<<"day", "second", "minute", "hour">>) = 4
  /\ Head(<<"day", "second", "minute", "hour">>) = "day"
  /\ Tail(<<"day", "second", "minute", "hour">>) = <<"second", "minute", "hour">>
<1>1. Rtc!AlarmFields = <<"day", "second", "minute", "hour">>
  <2> DEFINE N == {"second", "minute", "hour", "day"}
             d == <<"day">>
             t == <<"second", "minute", "hour">>
             l == <<"day", "second", "minute", "hour">>
  <2>1. /\ d \in Seq(N) /\ t \in Seq(N) /\ l \in Seq(N)
        /\ Len(d) = 1 /\ Len(t) = 3 /\ Len(l) = 4
    OBVIOUS
  <2>2. \A i \in 1..4 : l[i] = IF i <= 1 THEN d[i] ELSE t[i - 1]
    OBVIOUS
  <2>3. Rtc!AlarmFields = d \o t
    BY DEF Rtc!AlarmFields, Rtc!TimeFields
  <2> HIDE DEF N, d, t, l
  <2>4. /\ d \o t \in Seq(N) /\ Len(d \o t) = Len(d) + Len(t)
        /\ \A i \in 1..Len(d) + Len(t) : (d \o t)[i] = IF i <= Len(d) THEN d[i] ELSE t[i - Len(d)]
    BY <2>1, ConcatProperties
  <2>6. Len(d \o t) = 4 /\ \A i \in 1..4 : (d \o t)[i] = l[i]
    BY <2>1, <2>2, <2>4
  <2>5. d \o t = l
    BY <2>1, <2>4, <2>6, SeqEqual
  <2>. QED
    BY <2>3, <2>5 DEF l
<1>. QED
  BY <1>1 DEF Rtc!TimeFields

\* A field that is written leaves a date.
LEMMA FieldSet ==
  ASSUME NEW d \in Rtc!Dates, NEW a \in Rtc!Dates, NEW f \in {"second", "minute", "hour", "day"}
  PROVE  [d EXCEPT ![f] = a[f]] \in Rtc!Dates
  BY DEF Rtc!Dates

\* The invariant holds at power on.
LEMMA RtcStart == Rtc!Init => RtcInv
<1> SUFFICES ASSUME Rtc!Init PROVE RtcInv
  OBVIOUS
<1>1. Rtc!Date(0) \in Rtc!Dates
  BY DateIsDate
<1>2. {rtc_ALARM0, rtc_enabled, rtc_configured} \subseteq BOOLEAN
  BY Zenon DEF Rtc!Init
<1>3. RtcCalls \in Nat /\ RtcResets \in Nat
  BY LibrariesAssumption DEF Rtc!RtcAssumption
<1>4. Rtc!TypeOK
  BY <1>1, <1>2, <1>3 DEF Rtc!Init, Rtc!TypeOK
<1>. QED
  BY <1>4 DEF RtcInv, FieldsToWrite, FieldsWritten, Rtc!Init

\* A second that passes keeps it: it carries into no field that is written already.
LEMMA TickStep == ASSUME RtcInv, Rtc!Tick PROVE RtcInv'
<1> USE DEF RtcInv
<1>1. rtc_clock \in Rtc!Dates /\ rtc_arg \in Rtc!Dates /\ Rtc!Epoch(rtc_clock) + 1 \in Nat
          /\ rtc_edges \in 0..1
  BY EpochIsNat DEF Rtc!TypeOK
<1>2. rtc_clock' \in Rtc!Dates
  BY <1>1, DateIsDate DEF Rtc!Tick
<1>3. rtc_ALARM0' \in BOOLEAN
  BY Zenon DEF Rtc!Tick
<1>4. /\ UNCHANGED <<rtc_alarm, rtc_mask, rtc_enabled, rtc_RCAUSE, rtc_configured, rtc_pc,
                     rtc_rest, rtc_arg, rtc_calls, rtc_resets, rtc_loaded>>
      /\ rtc_edges' \in 0..1
  BY <1>1 DEF Rtc!Tick
<1>5. Rtc!TypeOK'
  BY <1>2, <1>3, <1>4 DEF Rtc!TypeOK
<1>6. FieldsToWrite'
  BY <1>4 DEF FieldsToWrite
<1>7. ASSUME rtc_pc = "time", Len(rtc_rest) < 3, rtc_arg.second # S - 1
      PROVE  Holds(rtc_clock)'
  <2> SUFFICES /\ \E k \in 0..rtc_edges' : rtc_clock'.second = rtc_arg.second + k
               /\ Len(rtc_rest) = 1 => rtc_clock'.minute = rtc_arg.minute
    BY <1>4 DEF Holds
  <2>1. rtc_edges = 0 /\ rtc_edges' = 1 /\ rtc_clock' = Rtc!Date(Rtc!Epoch(rtc_clock) + 1)
    BY <1>7 DEF Rtc!Tick, Rtc!Resting
  <2>2. rtc_clock.second = rtc_arg.second /\ (Len(rtc_rest) = 1
            => rtc_clock.minute = rtc_arg.minute)
    <3>1. rtc_arg.second \in Int
      BY <1>1, Radix DEF Rtc!Dates
    <3>. QED
      BY <1>7, <2>1, <3>1 DEF FieldsWritten, Holds
  <2>3. rtc_clock' = [rtc_clock EXCEPT !.second = rtc_clock.second + 1]
    BY <1>1, <1>7, <2>1, <2>2, NoCarry
  <2>4. rtc_clock'.second = rtc_arg.second + 1 /\ rtc_clock'.minute = rtc_clock.minute
    BY <1>1, <2>2, <2>3 DEF Rtc!Dates
  <2>. QED
    BY <2>1, <2>2, <2>4
<1>8. ASSUME rtc_pc = "store", Len(rtc_rest) < 3, rtc_arg.second # S - 1
      PROVE  Holds(rtc_loaded)'
  <2>1. Holds(rtc_loaded) /\ 0..rtc_edges \subseteq 0..rtc_edges'
    BY <1>1, <1>8 DEF FieldsWritten, Rtc!Tick, Rtc!Resting
  <2>. QED
    BY <1>4, <2>1 DEF Holds
<1>9. FieldsWritten'
  BY <1>4, <1>7, <1>8 DEF FieldsWritten
<1>. QED
  BY <1>5, <1>6, <1>9

\* There is a field to write within setTime() and setAlarmEpoch().
LEMMA Fields4 == ASSUME RtcInv, rtc_pc \in {"time", "store", "alarm"}
  PROVE rtc_rest # <<>> /\ Head(rtc_rest) \in {"second", "minute", "hour", "day"}
  BY FieldLists DEF RtcInv, FieldsToWrite

\* The read of the register keeps it,
LEMMA LoadFieldStep == ASSUME RtcInv, Rtc!LoadField PROVE RtcInv'
<1> USE DEF RtcInv, Rtc!hardware
<1>1. /\ rtc_pc = "time" /\ rtc_pc' = "store" /\ rtc_loaded' = rtc_clock
      /\ UNCHANGED <<rtc_clock, rtc_ALARM0, rtc_alarm, rtc_mask, rtc_enabled, rtc_RCAUSE,
                     rtc_configured, rtc_rest, rtc_arg, rtc_edges, rtc_calls, rtc_resets>>
  BY DEF Rtc!LoadField
<1>2. Rtc!TypeOK' /\ FieldsToWrite'
  BY <1>1 DEF Rtc!TypeOK, FieldsToWrite
<1>3. Holds(rtc_clock) => Holds(rtc_loaded)'
  BY <1>1 DEF Holds
<1>. QED
  BY <1>1, <1>2, <1>3 DEF FieldsWritten

\* the write of a field by setTime(),
LEMMA SetFieldStep == ASSUME RtcInv, Rtc!SetField PROVE RtcInv'
<1> USE DEF RtcInv
<1>1. /\ rtc_loaded \in Rtc!Dates /\ rtc_arg \in Rtc!Dates /\ rtc_pc = "store"
      /\ rtc_edges \in 0..1
  BY DEF Rtc!TypeOK, Rtc!SetField
<1>2. rtc_clock' = [rtc_loaded EXCEPT ![Head(rtc_rest)] = rtc_arg[Head(rtc_rest)]]
          /\ rtc_clock' \in Rtc!Dates
  BY <1>1, Fields4, FieldSet DEF Rtc!SetField
<1>3. /\ UNCHANGED <<rtc_ALARM0, rtc_alarm, rtc_mask, rtc_enabled, rtc_RCAUSE, rtc_configured,
                     rtc_arg, rtc_edges, rtc_calls, rtc_resets, rtc_loaded>>
      /\ rtc_rest' = Tail(rtc_rest)
      /\ rtc_pc' = (IF Len(rtc_rest) = 1 THEN "idle" ELSE "time")
  BY DEF Rtc!SetField
<1>4. Rtc!TypeOK'
  BY <1>1, <1>2, <1>3 DEF Rtc!TypeOK
<1>5. CASE rtc_rest = <<"second", "minute", "hour">>
  <2>1. /\ rtc_rest' = <<"minute", "hour">> /\ Len(rtc_rest') = 2 /\ Head(rtc_rest) = "second"
        /\ Len(rtc_rest) = 3
    BY <1>3, <1>5, FieldLists
  <2>2. rtc_clock'.second = rtc_arg.second + 0 /\ 0 \in 0..rtc_edges
    <3>1. rtc_clock'.second = rtc_arg.second
      BY <1>1, <1>2, <2>1 DEF Rtc!Dates
    <3>2. rtc_arg.second \in Int
      BY <1>1, Radix DEF Rtc!Dates
    <3>. QED
      BY <1>1, <3>1, <3>2
  <2>3. FieldsWritten'
    BY <1>3, <2>1, <2>2 DEF FieldsWritten, Holds
  <2>4. FieldsToWrite'
    BY <1>1, <1>3, <2>1 DEF FieldsToWrite
  <2>. QED
    BY <1>4, <2>3, <2>4
<1>6. CASE rtc_rest = <<"minute", "hour">>
  <2>1. /\ rtc_rest' = <<"hour">> /\ Len(rtc_rest') = 1 /\ Head(rtc_rest) = "minute"
        /\ Len(rtc_rest) = 2
    BY <1>3, <1>6, FieldLists
  <2>2. rtc_clock'.second = rtc_loaded.second /\ rtc_clock'.minute = rtc_arg.minute
    BY <1>1, <1>2, <2>1 DEF Rtc!Dates
  <2>3. FieldsWritten'
    BY <1>1, <1>3, <2>1, <2>2 DEF FieldsWritten, Holds
  <2>4. FieldsToWrite'
    BY <1>1, <1>3, <2>1 DEF FieldsToWrite
  <2>. QED
    BY <1>4, <2>3, <2>4
<1>7. CASE rtc_rest = <<"hour">>
  <2>1. rtc_pc' = "idle"
    BY <1>3, <1>7, FieldLists
  <2>. QED
    BY <1>4, <2>1 DEF FieldsToWrite, FieldsWritten
<1>. QED
  BY <1>1, <1>5, <1>6, <1>7 DEF FieldsToWrite

\* and one of setAlarmEpoch().
LEMMA SetAlarmFieldStep == ASSUME RtcInv, Rtc!SetAlarmField PROVE RtcInv'
<1> USE DEF RtcInv
<1>1. rtc_alarm \in Rtc!Dates /\ rtc_arg \in Rtc!Dates /\ rtc_pc = "alarm"
  BY DEF Rtc!TypeOK, Rtc!SetAlarmField
<1>2. rtc_alarm' \in Rtc!Dates
  BY <1>1, Fields4, FieldSet DEF Rtc!SetAlarmField
<1>3. /\ UNCHANGED <<rtc_clock, rtc_ALARM0, rtc_mask, rtc_enabled, rtc_RCAUSE, rtc_configured,
                     rtc_arg, rtc_edges, rtc_calls, rtc_resets, rtc_loaded>>
      /\ rtc_rest' = Tail(rtc_rest)
      /\ rtc_pc' = (IF Len(rtc_rest) = 1 THEN "enable" ELSE rtc_pc)
  BY DEF Rtc!SetAlarmField, Rtc!hardware
<1>4. Rtc!TypeOK'
  BY <1>1, <1>2, <1>3 DEF Rtc!TypeOK
<1>5. FieldsToWrite'
  <2>1. CASE rtc_rest = <<"hour">>
    BY <1>3, <2>1, FieldLists DEF FieldsToWrite
  <2>2. CASE rtc_rest = <<"minute", "hour">>
    BY <1>1, <1>3, <2>2, FieldLists DEF FieldsToWrite
  <2>3. CASE rtc_rest = <<"second", "minute", "hour">>
    BY <1>1, <1>3, <2>3, FieldLists DEF FieldsToWrite
  <2>4. CASE rtc_rest = <<"day", "second", "minute", "hour">>
    BY <1>1, <1>3, <2>4, FieldLists DEF FieldsToWrite
  <2>. QED
    BY <1>1, <2>1, <2>2, <2>3, <2>4 DEF FieldsToWrite
<1>. QED
  BY <1>1, <1>3, <1>4, <1>5 DEF FieldsWritten

\* begin() sets a date, whatever it restores.
LEMMA RestoredDate == ASSUME NEW b
                      PROVE  Rtc!Restored(b) \in Rtc!Dates /\ Rtc!Date(0) \in Rtc!Dates
  BY DateIsDate DEF Rtc!Restored, Rtc!oldTime

\* So does the begin of a call,
LEMMA RtcCallStep ==
  ASSUME RtcInv, Rtc!Begin \/ (\E t \in Times : Rtc!SetEpoch(t) \/ Rtc!SetTime(t))
             \/ (\E k \in Sleeps : Rtc!SleepFor(k))
  PROVE  RtcInv'
<1> USE DEF RtcInv, Rtc!hardware
<1>1. /\ rtc_clock \in Rtc!Dates /\ rtc_alarm \in Rtc!Dates /\ rtc_arg \in Rtc!Dates
      /\ rtc_loaded \in Rtc!Dates /\ Rtc!Date(0) \in Rtc!Dates
      /\ RtcCalls \in Nat /\ Times \subseteq Nat /\ Sleeps \subseteq Nat
  BY LibrariesAssumption, RestoredDate DEF Rtc!TypeOK, Rtc!RtcAssumption
<1>2. /\ rtc_calls' \in 0..RtcCalls /\ rtc_edges' \in 0..1 /\ rtc_resets' = rtc_resets
      /\ rtc_loaded' = rtc_loaded
  <2>1. rtc_calls \in Nat /\ rtc_calls < RtcCalls /\ rtc_calls' = rtc_calls + 1
            /\ rtc_edges' = 0 /\ rtc_resets' = rtc_resets /\ rtc_loaded' = rtc_loaded
    <3>1. rtc_calls \in Nat
      BY <1>1 DEF Rtc!TypeOK
    <3>3. rtc_resets' = rtc_resets /\ rtc_loaded' = rtc_loaded
      BY DEF Rtc!Begin, Rtc!SetEpoch, Rtc!SetTime, Rtc!SleepFor
    <3>2. \E w \in {"idle", "time", "alarm", "begin"} : Rtc!Call(w)
      BY DEF Rtc!Begin, Rtc!SetEpoch, Rtc!SetTime, Rtc!SleepFor
    <3>. QED
      BY <3>1, <3>2, <3>3 DEF Rtc!Call
  <2>. QED
    BY <1>1, <2>1
<1>3. CASE Rtc!Begin
  <2>1. /\ rtc_clock' \in Rtc!Dates /\ rtc_alarm' \in Rtc!Dates /\ rtc_mask' = "OFF"
        /\ rtc_pc' = "idle"
        /\ rtc_arg' = rtc_arg /\ rtc_RCAUSE' = rtc_RCAUSE
    BY <1>3, RestoredDate DEF Rtc!Begin, Rtc!Configure, Rtc!Call
  <2>2. {rtc_ALARM0', rtc_enabled', rtc_configured'} \subseteq BOOLEAN
    BY <1>3, Zenon DEF Rtc!Begin, Rtc!Configure
  <2>3. Rtc!TypeOK'
    BY <1>1, <1>2, <2>1, <2>2 DEF Rtc!TypeOK
  <2>. QED
    BY <2>1, <2>3 DEF FieldsToWrite, FieldsWritten
<1>4. CASE \E t \in Times : Rtc!SetEpoch(t)
  <2>1. PICK t \in Times : Rtc!SetEpoch(t)
    BY <1>4
  <2>2. /\ rtc_clock' \in Rtc!Dates /\ rtc_pc' = "idle"
        /\ UNCHANGED <<rtc_ALARM0, rtc_alarm, rtc_mask, rtc_enabled, rtc_RCAUSE, rtc_configured,
                       rtc_arg>>
    BY <1>1, <2>1, DateIsDate DEF Rtc!SetEpoch, Rtc!Call
  <2>3. Rtc!TypeOK'
    BY <1>1, <1>2, <2>2 DEF Rtc!TypeOK
  <2>. QED
    BY <2>2, <2>3 DEF FieldsToWrite, FieldsWritten
<1>5. CASE \E t \in Times : Rtc!SetTime(t)
  <2>1. PICK t \in Times : Rtc!SetTime(t)
    BY <1>5
  <2>2. Rtc!Date(t) \in Rtc!Dates
    BY <1>1, DateIsDate
  <2>3. rtc_arg' = [Rtc!Date(t) EXCEPT !.day = rtc_clock.day] /\ rtc_arg' \in Rtc!Dates
    BY <1>1, <2>1, <2>2 DEF Rtc!SetTime, Rtc!Dates
  <2>4. /\ rtc_pc' = "time" /\ rtc_rest' = Rtc!TimeFields
        /\ UNCHANGED <<rtc_clock, rtc_ALARM0, rtc_alarm, rtc_mask, rtc_enabled, rtc_RCAUSE,
                       rtc_configured>>
    BY <2>1 DEF Rtc!SetTime, Rtc!Call
  <2>5. Rtc!TypeOK'
    BY <1>1, <1>2, <2>3, <2>4 DEF Rtc!TypeOK
  <2>6. rtc_rest' = <<"second", "minute", "hour">> /\ Len(rtc_rest') = 3
    BY <2>4, FieldLists
  <2>. QED
    BY <2>4, <2>5, <2>6 DEF FieldsToWrite, FieldsWritten
<1>6. CASE \E k \in Sleeps : Rtc!SleepFor(k)
  <2>1. PICK k \in Sleeps : Rtc!SleepFor(k)
    BY <1>6
  <2>2. Rtc!Date(k) \in Rtc!Dates /\ Rtc!Date(Rtc!Epoch(rtc_clock) + k) \in Rtc!Dates
    BY <1>1, DateIsDate, EpochIsNat
  <2>3. CASE rtc_configured
    <3>1. /\ rtc_pc' = "alarm" /\ rtc_rest' = Rtc!AlarmFields /\ rtc_arg' \in Rtc!Dates
          /\ UNCHANGED <<rtc_clock, rtc_ALARM0, rtc_alarm, rtc_mask, rtc_enabled, rtc_RCAUSE,
                         rtc_configured>>
      BY <2>1, <2>2, <2>3 DEF Rtc!SleepFor, Rtc!Call
    <3>2. Rtc!TypeOK'
      BY <1>1, <1>2, <3>1 DEF Rtc!TypeOK
    <3>. QED
      BY <3>1, <3>2, FieldLists DEF FieldsToWrite, FieldsWritten
  <2>4. CASE ~rtc_configured
    <3>1. /\ rtc_pc' = "begin" /\ rtc_arg' \in Rtc!Dates /\ rtc_clock' \in Rtc!Dates
          /\ rtc_alarm' \in Rtc!Dates
          /\ rtc_mask' = "OFF" /\ rtc_RCAUSE' = rtc_RCAUSE
      BY <2>1, <2>2, <2>4, RestoredDate DEF Rtc!SleepFor, Rtc!Call, Rtc!Configure
    <3>2. {rtc_ALARM0', rtc_enabled', rtc_configured'} \subseteq BOOLEAN
      BY <2>1, <2>4, Zenon DEF Rtc!SleepFor, Rtc!Configure
    <3>3. Rtc!TypeOK'
      BY <1>1, <1>2, <3>1, <3>2 DEF Rtc!TypeOK
    <3>. QED
      BY <3>1, <3>3 DEF FieldsToWrite, FieldsWritten
  <2>. QED
    BY <2>3, <2>4
<1>. QED
  BY <1>3, <1>4, <1>5, <1>6

\* the interrupt, the sleep and the waking, a reset, and a step of anything else.
LEMMA RtcOtherStep ==
  ASSUME RtcInv, Rtc!Handler \/ Rtc!SleepBegun \/ Rtc!EnableAndSleep \/ Rtc!Wake
             \/ Rtc!Reset
             \/ UNCHANGED Rtc!vars
  PROVE  RtcInv'
<1> USE DEF RtcInv, Rtc!hardware
<1>1. CASE Rtc!Handler
  <2>1. rtc_ALARM0' \in BOOLEAN
    BY <1>1, Zenon DEF Rtc!Handler
  <2>2. /\ UNCHANGED <<rtc_clock, rtc_alarm, rtc_mask, rtc_enabled, rtc_RCAUSE, rtc_configured,
                       rtc_rest, rtc_arg, rtc_edges, rtc_calls, rtc_resets, rtc_loaded>>
        /\ rtc_pc' = IF rtc_pc = "asleep" THEN "waking" ELSE rtc_pc
    BY <1>1 DEF Rtc!Handler
  <2>3. Rtc!TypeOK'
    BY <2>1, <2>2 DEF Rtc!TypeOK
  <2>. QED
    BY <2>2, <2>3 DEF FieldsToWrite, FieldsWritten, Holds
<1>2. CASE Rtc!SleepBegun
  <2>1. rtc_clock \in Rtc!Dates /\ rtc_arg \in Rtc!Dates
    BY DEF Rtc!TypeOK
  <2>2. Rtc!Epoch(rtc_clock) + Rtc!Epoch(rtc_arg) \in Nat
    BY <2>1, EpochIsNat
  <2>3. rtc_arg' \in Rtc!Dates /\ rtc_rest' = Rtc!AlarmFields /\ rtc_pc' = "alarm"
    BY <1>2, <2>2, DateIsDate DEF Rtc!SleepBegun
  <2>4. Rtc!TypeOK'
    BY <1>2, <2>3 DEF Rtc!TypeOK, Rtc!SleepBegun
  <2>. QED
    BY <2>3, <2>4, FieldLists DEF FieldsToWrite, FieldsWritten
<1>3. CASE Rtc!EnableAndSleep
  <2>1. rtc_pc' \in {"wfi", "asleep"} /\ (rtc_mask' = rtc_mask \/ rtc_mask' = "YYMMDDHHMMSS")
    BY <1>3 DEF Rtc!EnableAndSleep
  <2>2. Rtc!TypeOK'
    BY <1>3, <2>1 DEF Rtc!TypeOK, Rtc!EnableAndSleep
  <2>. QED
    BY <2>1, <2>2 DEF FieldsToWrite, FieldsWritten
<1>4. CASE Rtc!Reset
  <2>1. {rtc_ALARM0', rtc_enabled', rtc_configured'} \subseteq BOOLEAN
    <3>1. rtc_ALARM0' = rtc_ALARM0 /\ rtc_configured' = FALSE /\ rtc_enabled' = FALSE
      BY <1>4 DEF Rtc!Reset
    <3>. QED
      BY <3>1, Zenon DEF Rtc!TypeOK
  <2>2. rtc_resets' \in 0..RtcResets /\ rtc_edges' = 0
    BY <1>4, LibrariesAssumption DEF Rtc!Reset, Rtc!TypeOK, Rtc!RtcAssumption
  <2>3. Rtc!TypeOK'
    BY <1>4, <2>1, <2>2 DEF Rtc!TypeOK, Rtc!Reset
  <2>. QED
    BY <1>4, <2>3 DEF FieldsToWrite, FieldsWritten, Rtc!Reset
<1>5. CASE UNCHANGED Rtc!vars
  BY <1>5 DEF Rtc!vars, Rtc!TypeOK, FieldsToWrite, FieldsWritten, Holds
<1>6. CASE Rtc!Wake
  BY <1>6 DEF Rtc!Wake, Rtc!TypeOK, FieldsToWrite, FieldsWritten
<1>. QED
  BY <1>1, <1>2, <1>3, <1>4, <1>5, <1>6

\* Every step keeps it.
LEMMA RtcStep == RtcInv /\ [Rtc!Next]_Rtc!vars => RtcInv'
  BY TickStep, LoadFieldStep, SetFieldStep, SetAlarmFieldStep, RtcCallStep, RtcOtherStep DEF Rtc!Next

\* The inductive invariant of the clock (RTCR34.cpp), whose fields are written one by one while
\* it goes on.
THEOREM RtcInvariance == Rtc!Spec => []RtcInv
  BY RtcStart, RtcStep, PTL DEF Rtc!Spec

\* Every register and variable of the clock stays in its type: no write and no carry leaves a date
\* that is none.
THEOREM RtcTypes == Rtc!Spec => []Rtc!TypeOK
<1>1. RtcInv => Rtc!TypeOK
  BY DEF RtcInv
<1>. QED
  BY <1>1, RtcInvariance, PTL

\* Only the last write of setTime() leaves no field to write.
LEMMA LastWrite ==
  ASSUME RtcInv, [Rtc!Next]_Rtc!vars, rtc_pc = "store", Len(rtc_rest) = 1,
         rtc_rest' # rtc_rest, rtc_calls' = rtc_calls, rtc_resets' = rtc_resets
  PROVE  Rtc!SetField
<1>1. rtc_calls \in Int /\ rtc_resets \in Int
  BY DEF RtcInv, Rtc!TypeOK
<1>2. /\ ~Rtc!Tick /\ ~Rtc!Handler /\ ~Rtc!LoadField /\ ~Rtc!SleepBegun /\ ~Rtc!SetAlarmField
      /\ ~Rtc!EnableAndSleep /\ ~Rtc!Wake /\ ~UNCHANGED Rtc!vars
  BY DEF Rtc!Tick, Rtc!Handler, Rtc!LoadField, Rtc!SleepBegun, Rtc!SetAlarmField,
         Rtc!EnableAndSleep, Rtc!Wake, Rtc!vars
<1>3. ~Rtc!Begin /\ ~Rtc!Reset /\ ~(\E t \in Times : Rtc!SetEpoch(t)
          \/ Rtc!SetTime(t)) /\ ~(\E k \in Sleeps : Rtc!SleepFor(k))
  BY <1>1 DEF Rtc!Begin, Rtc!Reset, Rtc!SetEpoch, Rtc!SetTime, Rtc!SleepFor, Rtc!Call
<1>. QED
  BY <1>2, <1>3 DEF Rtc!Next

\* After it the clock has the time it was given, or the second after it.
LEMMA LastWriteSets ==
  ASSUME RtcInv, Rtc!SetField, Len(rtc_rest) = 1, rtc_arg.second # S - 1,
         rtc_clock'.day = rtc_arg.day
  PROVE  Rtc!Epoch(rtc_clock') - Rtc!Epoch(rtc_arg) \in {0, 1}
<1>1. rtc_pc = "store" /\ rtc_loaded \in Rtc!Dates /\ rtc_arg \in Rtc!Dates /\ rtc_edges \in 0..1
  BY DEF RtcInv, Rtc!TypeOK, Rtc!SetField
<1>2. Head(rtc_rest) = "hour"
  <2>1. Len(<<"minute", "hour">>) # 1 /\ Len(<<"second", "minute", "hour">>) # 1
    BY FieldLists
  <2>2. rtc_rest = <<"hour">>
    BY <1>1, <2>1 DEF RtcInv, FieldsToWrite
  <2>. QED
    BY <2>2, FieldLists
<1>3. PICK k \in 0..1 : rtc_loaded.second = rtc_arg.second + k
  BY <1>1 DEF RtcInv, FieldsWritten, Holds
<1>4. rtc_loaded.minute = rtc_arg.minute
  BY <1>1 DEF RtcInv, FieldsWritten, Holds
<1>5. rtc_clock' = [rtc_loaded EXCEPT !["hour"] = rtc_arg["hour"]]
  BY <1>2 DEF Rtc!SetField
<1>6. rtc_clock'.second = rtc_arg.second + k /\ rtc_clock'.minute = rtc_arg.minute
          /\ rtc_clock'.hour = rtc_arg.hour
  BY <1>1, <1>3, <1>4, <1>5 DEF Rtc!Dates
<1>7. rtc_arg.second \in Int /\ rtc_arg.minute \in Int /\ rtc_arg.hour \in Int
          /\ rtc_arg.day \in Int
  BY <1>1, Radix DEF Rtc!Dates
<1>8. S * (rtc_arg.minute + M * (rtc_arg.hour + H * rtc_arg.day)) \in Int
  BY <1>7, Radix
<1>. QED
  BY <1>3, <1>6, <1>7, <1>8 DEF Rtc!Epoch

\* setTime() (RTCR34.cpp) leaves the time that it was given, but for a second that passed, although
\* the clock goes on between its reads and writes, if the given second is not the last of a minute
\* and no day ends.  For every number of seconds, minutes, hours and days, and of calls and resets.
THEOREM SetTimeSetsTheTime == Rtc!Spec => TimeIsSet
<1>1. RtcInv /\ [Rtc!Next]_Rtc!vars =>
        [(rtc_pc = "store" /\ Len(rtc_rest) = 1 /\ rtc_rest' # rtc_rest
            /\ rtc_calls' = rtc_calls /\ rtc_resets' = rtc_resets
        /\ rtc_arg.second # S - 1 /\ rtc_clock'.day = rtc_arg.day)
       => Rtc!Epoch(rtc_clock') - Rtc!Epoch(rtc_arg) \in {0, 1}]_Rtc!vars
  BY LastWrite, LastWriteSets
<1>. QED
  BY <1>1, RtcInvariance, PTL DEF Rtc!Spec, TimeIsSet, Rtc!TimeIsSet

-----------------------------------------------------------------------------
(* print(): the invariant of PrintNumber. *)

\* The digits of the base,
Digits == 0..nu_base - 1
\* and the operation that takes one more of them.
Horner == [m \in Nat |-> [d \in Digits |-> m * nu_base + d]]

\* It is one on the numbers.
LEMMA HornerIs ==
  ASSUME nu_base \in Nat

  PROVE  Horner \in Operations(Nat, Digits) /\ \A m \in Nat, d \in Digits : Horner[m][d] = m * nu_base + d
<1>1. \A m \in Nat, d \in Digits : m * nu_base + d \in Nat
  BY DEF Digits
<1>. QED
  BY <1>1 DEF Horner, Operations

\* The number that digits write is its fold.
LEMMA NumberIsFold ==
  ASSUME nu_base \in Nat, NEW x \in Seq(Digits)
  PROVE  IsFold(Nu!Number(x), Nat, Horner, 0, x)
<1> DEFINE G == Horner
           E == Digits
           Eq(f) == f = [s \in SUBSET (DOMAIN x) |-> IF s = {} THEN 0
               ELSE f[s \ {Max(s)}] * nu_base + x[Max(s)]]
           h == CHOOSE f : Eq(f)
<1>0. Len(x) \in Nat /\ x \in [1..Len(x) -> E] /\ DOMAIN x = 1..Len(x)
  OBVIOUS
<1>1. Nu!Number(x) = h[DOMAIN x]
  BY DEF Nu!Number, Nu!FoldLeft, Nu!MapThenFoldSet, Max, Nu!Max
<1>2. G \in Operations(Nat, E) /\ \A n \in Nat, e \in E : G[n][e] = n * nu_base + e
  BY HornerIs
<1> HIDE DEF G, E
<1>a. \A s \in SUBSET (DOMAIN x) : s # {} => x[Max(s)] \in E
  BY <1>0, MaxIn
<1>3. \E f : Eq(f)
  <2>1. PICK f : IsFoldFunction(f, Nat, G, 0, x, Len(x))
    BY <1>0, <1>2, 0 \in Nat, FoldExists DEF E
  <2>2. /\ f \in [SUBSET (DOMAIN x) -> Nat] /\ f[{}] = 0
        /\ \A s \in SUBSET (DOMAIN x) : s # {} => f[s] = G[f[s \ {Max(s)}]][x[Max(s)]]
    BY <1>0, <2>1 DEF IsFoldFunction
  <2>3. ASSUME NEW s \in SUBSET (DOMAIN x)
        PROVE  f[s] = IF s = {} THEN 0 ELSE f[s \ {Max(s)}] * nu_base + x[Max(s)]
    <3>1. f[s \ {Max(s)}] \in Nat
      BY <2>2
    <3>. QED
      BY <1>2, <1>a, <2>2, <3>1
  <2>4. Eq(f)
    BY <2>2, <2>3
  <2>. QED
    BY <2>4
<1>4. Eq(h)
  BY <1>3
<1> HIDE DEF h
<1>5. FoldGoes(h, Nat, G, 0, x, Len(x))
  <2>1. h[{}] = 0
    BY <1>4
  <2>2. ASSUME NEW s \in SUBSET (DOMAIN x), s # {}, h[s \ {Max(s)}] \in Nat
        PROVE  h[s] = G[h[s \ {Max(s)}]][x[Max(s)]]
    <3>1. h[s] = h[s \ {Max(s)}] * nu_base + x[Max(s)]
      BY <1>4, <2>2
    <3>. QED
      BY <1>2, <1>a, <2>2, <3>1
  <2>. QED
    BY <1>0, <2>1, <2>2 DEF FoldGoes
<1>6. IsFold(h[1..Len(x)], Nat, G, 0, x)
  <2>1. x \in Seq(E)
    BY DEF E
  <2>. QED
    BY <1>2, <1>5, <2>1, 0 \in Nat, FoldSteps
<1>. QED
  BY <1>0, <1>1, <1>6 DEF G

\* The digit that is divided off is in front of those before it.
LEMMA ReverseAppend ==
  ASSUME NEW E, NEW s \in Seq(E), NEW e \in E
  PROVE  Nu!Reverse(s) \in Seq(E) /\ Nu!Reverse(Append(s, e)) = <<e>> \o Nu!Reverse(s)
<1> DEFINE N == Len(s)
           t == Append(s, e)
           x == Nu!Reverse(s)
           y == Nu!Reverse(t)
<1>1. N \in Nat /\ s \in [1..N -> E] /\ Len(t) = N + 1 /\ t[N + 1] = e
          /\ \A i \in 1..N : t[i] = s[i]
  OBVIOUS
<1>2. x = [i \in 1..N |-> s[(N - i) + 1]] /\ y = [i \in 1..Len(t) |-> t[(Len(t) - i) + 1]]
  BY DEF Nu!Reverse
<1> HIDE DEF N, t, x, y
<1>3. x \in Seq(E) /\ Len(x) = N
  <2>1. \A i \in 1..N : N - i + 1 \in 1..N
    BY <1>1
  <2>2. x \in [1..N -> E]
    BY <1>1, <1>2, <2>1
  <2>. QED
    BY <1>1, <2>2, SeqDef, LenProperties
<1> DEFINE z == <<e>> \o x
<1>4. Len(z) = N + 1 /\ z \in Seq(E) /\ z[1] = e /\ \A i \in 1..N : z[i + 1] = x[i]
  <2>1. <<e>> \in Seq(E) /\ Len(<<e>>) = 1 /\ <<e>>[1] = e
    OBVIOUS
  <2>2. z \in Seq(E) /\ Len(z) = N + 1
    BY <1>1, <1>3, <2>1
  <2>3. z[1] = e
    BY <1>1, <1>3, <2>1
  <2>4. ASSUME NEW i \in 1..N PROVE z[i + 1] = x[i]
    BY <1>1, <1>3, <2>1
  <2>. QED
    BY <2>2, <2>3, <2>4
<1> HIDE DEF z
<1>5. DOMAIN y = 1..N + 1 /\ DOMAIN z = 1..N + 1
  BY <1>1, <1>2, <1>4
<1>6. ASSUME NEW i \in 1..N + 1 PROVE y[i] = z[i]
  <2>1. y[i] = t[(N + 1 - i) + 1]
    BY <1>1, <1>2
  <2>2. CASE i = 1
    BY <1>1, <1>4, <2>1, <2>2
  <2>3. CASE i # 1
    <3>1. i - 1 \in 1..N /\ i - 1 + 1 = i /\ N - (i - 1) + 1 \in 1..N
              /\ (N + 1 - i) + 1 = N - (i - 1) + 1
      BY <1>1, <2>3
    <3>2. z[i - 1 + 1] = x[i - 1]
      BY <1>4, <3>1
    <3>3. x[i - 1] = s[N - (i - 1) + 1]
      BY <1>2, <3>1
    <3>4. t[N - (i - 1) + 1] = s[N - (i - 1) + 1]
      BY <1>1, <3>1
    <3>. QED
      BY <2>1, <3>1, <3>2, <3>3, <3>4
  <2>. QED
    BY <2>2, <2>3
<1>7. y = z
  <2>1. y = [i \in 1..N + 1 |-> y[i]]
    BY <1>1, <1>2
  <2>2. z = [i \in 1..N + 1 |-> z[i]]
    BY <1>4
  <2>. QED
    BY <1>6, <2>1, <2>2
<1>. QED
  BY <1>3, <1>7 DEF z, y, x, t

\* A quotient of numbers is no larger than what is divided, and not 0 if that is not smaller.
LEMMA QuotientBounds ==
  ASSUME NEW x \in Nat, NEW b \in Nat \ {0}
  PROVE  /\ x \div b \in Nat /\ x \div b <= x /\ x % b \in 0..b - 1
         /\ x = b * (x \div b) + (x % b) /\ (x >= b => x \div b >= 1)
<1> DEFINE q == x \div b
           m == x % b
<1>1. q \in Int /\ m \in 0..b - 1 /\ x = b * q + m
  BY DivMod
<1> HIDE DEF q, m
<1>2. q >= 0
  <2> SUFFICES ASSUME q <= -1 PROVE FALSE
    BY <1>1
  <2>1. b * q = -b + b * (q + 1) /\ b * (q + 1) <= 0
    BY <1>1
  <2>. QED
    BY <1>1, <2>1
<1>3. q <= x
  <2>1. b * q = q + (b - 1) * q /\ (b - 1) * q >= 0
    BY <1>1, <1>2
  <2>. QED
    BY <1>1, <2>1
<1>4. x >= b => q >= 1
  BY <1>1, <1>2
<1>. QED
  BY <1>1, <1>2, <1>3, <1>4 DEF q, m

\* The quotient of what is below a product is below the other factor,
LEMMA QuotientBelow ==
  ASSUME NEW x \in Nat, NEW b \in Nat \ {0}, NEW y \in Nat, x < y * b
  PROVE  x \div b < y
<1> DEFINE q == x \div b
<1>1. q \in Nat /\ b * q <= x
  BY QuotientBounds
<1> HIDE DEF q
<1>2. ASSUME q >= y PROVE FALSE
  <2>1. b * q = b * y + b * (q - y) /\ b * (q - y) >= 0
    BY <1>1, <1>2
  <2>. QED
    BY <1>1, <2>1
<1>. QED
  BY <1>1, <1>2 DEF q

\* and a number below a quotient gives a product that is no larger.
LEMMA ProductBelow ==
  ASSUME NEW x \in Nat, NEW b \in Nat \ {0}, NEW y \in Nat, x < y \div b
  PROVE  x * b <= y
<1> DEFINE q == y \div b
<1>1. q \in Nat /\ b * q <= y /\ x < q
  BY QuotientBounds
<1> HIDE DEF q
<1>2. b * q = b * x + b * (q - x) /\ b * (q - x) >= 0
  BY <1>1
<1>. QED
  BY <1>1, <1>2

\* What is smaller is its own remainder.
LEMMA SmallRemainder ==
  ASSUME NEW n \in Nat \ {0}, NEW x \in 0..n - 1
  PROVE  x % n = x
<1>1. x = n * 0 + x
  OBVIOUS
<1>2. 0 \in Int => (n * 0 + x) % n = x
  BY DivModUnique
<1>. QED
  BY <1>1, <1>2

\* A quotient, put together again.
LEMMA Rest ==
  ASSUME NEW m \in Nat, NEW b \in Nat, NEW y \in Nat, NEW q \in Nat, NEW d \in Nat
  PROVE  (m * y + q) * b + d = m * (y * b) + (b * q + d)
OBVIOUS

\* The powers of the base, up to the size of a chunk.
Powers(power) ==
  /\ power \in [0..nu_innerLoops -> Nat \ {0}]
  /\ power[0] = 1 /\ power[nu_innerLoops] = nu_th16
  /\ \A k \in 1..nu_innerLoops : power[k] = power[k - 1] * nu_base

\* The number that is printed without its sign,
Magnitude == (IF nu_out = <<>> THEN nu_arg ELSE -nu_arg) % Word

\* which is what is left, before the digits so far.
Split(power) ==
  /\ nu_r < power[nu_j]
  /\ IsFold(Magnitude, Nat, Horner, nu_n * power[nu_j] + nu_r, Nu!Reverse(nu_buf))

\* From the first step of print() to the last.
Dividing == nu_pc \in {"scale", "chunks", "digits"}

\* The types; from the second step on the base has two digits at least.
PrintTypes ==
  /\ nu_arg \in Values /\ nu_wide \in BOOLEAN /\ nu_innerLoops \in Nat
  /\ nu_j \in 0..nu_innerLoops
  /\ nu_pc \in {"print", "scale", "chunks", "digits", "returned"}
  /\ nu_n \in 0..Word - 1 /\ nu_th16 \in 1..Max16 /\ nu_r \in 0..nu_th16 - 1
  /\ nu_base \in Nat /\ nu_base > (IF nu_pc = "print" THEN 0 ELSE 1)
  /\ nu_pc # "print" => nu_buf \in Seq(Digits)

\* What has its initial value still.
NothingDone ==
  /\ nu_pc = "print" => nu_out = <<>> /\ nu_th16 = 1 /\ nu_innerLoops = 0
  /\ nu_pc \in {"print", "scale"} => nu_buf = <<>> /\ nu_j = 0 /\ nu_r = 0

\* After the first chunk there is something left, and the last digit is not 0.
NoZeroInFront ==
  /\ nu_pc = "chunks" /\ (nu_j > 0 \/ nu_buf # <<>>) => nu_n > 0
  /\ nu_pc = "digits" =>
       nu_j = 0 /\ (nu_n > 0 \/ nu_buf = <<>> \/ Len(nu_buf) = 1 \/ nu_buf[Len(nu_buf)] # 0)

\* The result: a sign, and digits that write the number.
Written ==
  nu_pc = "returned" => \E s \in Seq(Digits), sign \in {<<>>, <<Nu!Minus>>} :
    /\ nu_out = sign \o s
    /\ ~(nu_wide /\ nu_arg % Word = 0) =>
         /\ IsFold((IF sign = <<>> THEN nu_arg ELSE -nu_arg) % Word, Nat, Horner, 0, s)
         /\ s # <<>> /\ (Len(s) > 1 => s[1] # 0)

\* The inductive invariant of print().
PrintInv ==
  /\ PrintTypes /\ NothingDone /\ NoZeroInFront /\ Written
  /\ Dividing => nu_out \in {<<>>, <<Nu!Minus>>} /\ \E power : Powers(power) /\ Split(power)

\* What the constants are.
LEMMA PrintConstants ==
  /\ Values \subseteq Int /\ Word \in Nat \ {0} /\ Max16 \in Nat
  /\ Bases \subseteq Nat \ {0} /\ ByteMod \in Nat \ {0} /\ Max16 >= 1
  /\ \A a \in Values : -Word <= a /\ a <= Word
BY LibrariesAssumption DEF Nu!PrintAssumption

\* The invariant holds when print() is called.
LEMMA PrintStart == Nu!Init => PrintInv
<1> SUFFICES ASSUME Nu!Init PROVE PrintInv
  OBVIOUS
<1>1. PrintTypes
  BY PrintConstants DEF Nu!Init, PrintTypes
<1>2. NothingDone /\ NoZeroInFront /\ Written /\ ~Dividing
  BY DEF Nu!Init, NothingDone, NoZeroInFront, Written, Dividing
<1>. QED
  BY <1>1, <1>2 DEF PrintInv
\* The sign keeps it,
LEMMA SignedStep == ASSUME PrintInv, Nu!Signed PROVE PrintInv'
<1>1. /\ nu_pc = "print" /\ nu_pc' \in {"scale", "digits"}
      /\ nu_out' \in {<<>>, <<Nu!Minus>>}
      /\ nu_n' = (IF nu_out' = <<>> THEN nu_arg ELSE -nu_arg) % Word
      /\ nu_base' = Nu!BaseOf(nu_base)
      /\ UNCHANGED <<nu_arg, nu_wide, nu_th16, nu_innerLoops, nu_r, nu_j, nu_buf>>
  BY DEF Nu!Signed, Nu!chunk
<1>2. /\ nu_arg \in Values /\ nu_wide \in BOOLEAN /\ nu_th16 \in 1..Max16 /\ nu_base \in Nat
      /\ nu_base > 0 /\ nu_out = <<>> /\ nu_th16 = 1 /\ nu_innerLoops = 0 /\ nu_buf = <<>>
      /\ nu_j = 0 /\ nu_r = 0
  BY <1>1 DEF PrintInv, PrintTypes, NothingDone
<1>3. nu_base' \in Nat /\ nu_base' > 1
  BY <1>1, <1>2, PrintConstants DEF Nu!BaseOf
<1>4. nu_arg \in Int /\ Word \in Nat \ {0}
  BY <1>2, PrintConstants
<1>5. nu_n' \in 0..Word - 1 /\ nu_n' \in Nat /\ nu_n' = Magnitude'
  <2>1. nu_n' \in 0..Word - 1
    BY <1>1, <1>4, DivMod
  <2>. QED
    BY <1>1, <1>4, <2>1 DEF Magnitude
<1>6. PrintTypes'
  BY <1>1, <1>2, <1>3, <1>5 DEF PrintTypes
<1>7. NothingDone' /\ NoZeroInFront' /\ Written'
  BY <1>1, <1>2 DEF NothingDone, NoZeroInFront, Written
<1>8. \E power : Powers(power)' /\ Split(power)'
  <2> DEFINE one == [k \in 0..0 |-> 1]
  <2>1. one \in [0..0 -> Nat \ {0}] /\ one[0] = 1
    OBVIOUS
  <2> HIDE DEF one
  <2>2. Powers(one)'
    BY <1>1, <1>2, <2>1 DEF Powers
  <2>3. nu_n' * one[nu_j'] + nu_r' = nu_n' /\ nu_r' < one[nu_j']
    BY <1>1, <1>2, <1>5, <2>1
  <2>4. Nu!Reverse(nu_buf)' = <<>>
    BY <1>1, <1>2 DEF Nu!Reverse
  <2>5. IsFold(Magnitude', Nat, Horner', nu_n', <<>>)
    BY <1>5, FoldOfEmpty
  <2>6. Split(one)'
    BY <2>3, <2>4, <2>5 DEF Split
  <2>. QED
    BY <2>2, <2>6
<1>. QED
  BY <1>1, <1>6, <1>7, <1>8 DEF PrintInv, Dividing

\* the size of a chunk is one power more, and stays in 16 bits,
LEMMA ScaleStep == ASSUME PrintInv, Nu!Scale PROVE PrintInv'
<1>1. /\ nu_pc = "scale" /\ nu_pc' \in {"scale", "chunks"}
      /\ UNCHANGED <<nu_arg, nu_base, nu_wide, nu_n, nu_r, nu_j, nu_buf, nu_out>>
  BY DEF Nu!Scale
<1>2. /\ PrintTypes /\ nu_buf = <<>> /\ nu_j = 0 /\ nu_r = 0 /\ nu_base \in Nat /\ nu_base > 1
      /\ nu_th16 \in 1..Max16 /\ nu_innerLoops \in Nat /\ nu_out \in {<<>>, <<Nu!Minus>>}
  BY <1>1 DEF PrintInv, PrintTypes, NothingDone, Dividing
<1>3. PICK power : Powers(power) /\ Split(power)
  BY <1>1 DEF PrintInv, Dividing
<1>4. \/ UNCHANGED <<nu_th16, nu_innerLoops>>
      \/ /\ nu_th16' = nu_th16 * nu_base /\ nu_th16' \in 1..Max16
         /\ nu_innerLoops' = nu_innerLoops + 1
  <2> SUFFICES ASSUME ~UNCHANGED <<nu_th16, nu_innerLoops>>
               PROVE  /\ nu_th16' = nu_th16 * nu_base /\ nu_th16' \in 1..Max16
                      /\ nu_innerLoops' = nu_innerLoops + 1
    OBVIOUS
  <2>1. /\ nu_th16 < Max16 \div nu_base /\ nu_th16' = (nu_th16 * nu_base) % (Max16 + 1)
        /\ nu_innerLoops' = nu_innerLoops + 1
    BY DEF Nu!Scale
  <2>2. nu_th16 \in Nat /\ nu_base \in Nat \ {0} /\ Max16 \in Nat /\ nu_th16 >= 1
    BY <1>2, PrintConstants
  <2>3. nu_th16 * nu_base <= Max16
    BY <2>1, <2>2, ProductBelow
  <2>4. nu_th16 * nu_base \in Nat /\ nu_th16 * nu_base >= 1
    BY <2>2
  <2> DEFINE x == nu_th16 * nu_base
  <2>5. x % (Max16 + 1) = x
    <3> DEFINE w == Max16 + 1
    <3>1. x \in 0..w - 1 /\ w \in Nat \ {0}
      BY <2>2, <2>3, <2>4
    <3> HIDE DEF x, w
    <3>2. x % w = x
      BY <3>1, SmallRemainder
    <3>. QED
      BY <3>2 DEF w
  <2>. QED
    BY <2>1, <2>2, <2>3, <2>4, <2>5
<1>5. PrintTypes'
  <2>1. nu_innerLoops' \in Nat /\ nu_th16' \in 1..Max16 /\ nu_j' \in 0..nu_innerLoops'
            /\ nu_r' \in 0..nu_th16' - 1
    BY <1>1, <1>2, <1>4
  <2>2. nu_buf' \in Seq(Digits')
    BY <1>1, <1>2
  <2>. QED
    BY <1>1, <1>2, <2>1, <2>2 DEF PrintTypes
<1>6. NothingDone' /\ NoZeroInFront' /\ Written'
  BY <1>1, <1>2 DEF NothingDone, NoZeroInFront, Written
<1>7. Magnitude' = Magnitude /\ Horner' = Horner /\ Nu!Reverse(nu_buf)' = Nu!Reverse(nu_buf)
  BY <1>1 DEF Magnitude, Horner, Digits, Nu!Reverse
<1>8. \E p : Powers(p)' /\ Split(p)'
  <2>1. CASE UNCHANGED <<nu_th16, nu_innerLoops>>
    <3>1. Powers(power)' /\ Split(power)'
      BY <1>1, <1>3, <1>7, <2>1 DEF Powers, Split
    <3>. QED
      BY <3>1
  <2>2. CASE /\ nu_th16' = nu_th16 * nu_base /\ nu_th16' \in 1..Max16
             /\ nu_innerLoops' = nu_innerLoops + 1
    <3> DEFINE L == nu_innerLoops
               longer == [k \in 0..L + 1 |-> IF k = L + 1 THEN nu_th16 * nu_base ELSE power[k]]
    <3>1. /\ power \in [0..L -> Nat \ {0}] /\ power[0] = 1 /\ power[L] = nu_th16
          /\ \A k \in 1..L : power[k] = power[k - 1] * nu_base
      BY <1>3 DEF Powers
    <3>2. L \in Nat
      BY <1>2
    <3>9. nu_th16 * nu_base \in Nat \ {0}
      BY <1>2
    <3>0. PICK p : p = longer
      OBVIOUS
    <3>3. p[L + 1] = nu_th16 * nu_base
      BY <3>0, <3>2
    <3>4. \A k \in 0..L : p[k] = power[k]
      BY <3>0, <3>2
    <3>5. p \in [0..L + 1 -> Nat \ {0}]
      <4>1. ASSUME NEW k \in 0..L + 1
            PROVE  (IF k = L + 1 THEN nu_th16 * nu_base ELSE power[k]) \in Nat \ {0}
        BY <3>1, <3>2, <3>9
      <4>. QED
        BY <3>0, <4>1
    <3> HIDE DEF longer
    <3>6. ASSUME NEW k \in 1..L + 1 PROVE p[k] = p[k - 1] * nu_base
      <4>1. CASE k = L + 1
        <5>1. k - 1 = L /\ L \in 0..L
          BY <3>2, <4>1
        <5>. QED
          BY <3>1, <3>3, <3>4, <4>1, <5>1
      <4>2. CASE k # L + 1
        <5>1. k \in 1..L /\ k \in 0..L /\ k - 1 \in 0..L
          BY <3>2, <4>2
        <5>. QED
          BY <3>1, <3>4, <5>1
      <4>. QED
        BY <4>1, <4>2
    <3>7. p[0] = 1
      BY <3>1, <3>2, <3>4
    <3>8. Powers(p)'
      BY <1>1, <2>2, <3>3, <3>5, <3>6, <3>7 DEF Powers
    <3>10. Split(p)'
      <4>1. p[nu_j'] = power[nu_j]
        BY <1>1, <1>2, <3>1, <3>7
      <4>. QED
        BY <1>1, <1>3, <1>7, <4>1 DEF Split
    <3>. QED
      BY <3>8, <3>10
  <2>. QED
    BY <1>4, <2>1, <2>2
<1>. QED
  BY <1>1, <1>2, <1>5, <1>6, <1>8 DEF PrintInv, Dividing
\* a chunk is divided off, or the last is done,
LEMMA DivideStep == ASSUME PrintInv, Nu!Divide PROVE PrintInv'
<1>1. /\ nu_pc = "chunks" /\ nu_j = 0 /\ nu_pc' \in {"chunks", "digits"}
      /\ UNCHANGED <<nu_arg, nu_base, nu_wide, nu_th16, nu_innerLoops, nu_buf, nu_out>>
  BY DEF Nu!Divide
<1>2. /\ PrintTypes /\ nu_buf \in Seq(Digits) /\ nu_base \in Nat /\ nu_base > 1 /\ Word \in Nat
      /\ nu_th16 \in 1..Max16 /\ nu_innerLoops \in Nat /\ nu_out \in {<<>>, <<Nu!Minus>>}
      /\ nu_n \in 0..Word - 1 /\ nu_n \in Nat /\ nu_r \in 0..nu_th16 - 1 /\ Max16 \in Nat
  BY <1>1, PrintConstants DEF PrintInv, PrintTypes, Dividing
<1>3. PICK power : Powers(power) /\ Split(power)
  BY <1>1 DEF PrintInv, Dividing
<1>4. /\ Magnitude' = Magnitude /\ Horner' = Horner /\ Nu!Reverse(nu_buf)' = Nu!Reverse(nu_buf)
      /\ Powers(power)' /\ Digits' = Digits
  BY <1>1, <1>3 DEF Magnitude, Horner, Digits, Nu!Reverse, Powers
<1>5. power[0] = 1 /\ power[nu_innerLoops] = nu_th16
  BY <1>3 DEF Powers
<1>6. nu_r = 0 /\ nu_n * power[0] + nu_r = nu_n
  <2>1. nu_r < 1
    BY <1>1, <1>3, <1>5 DEF Split
  <2>. QED
    BY <1>2, <1>5, <2>1
<1>7. CASE nu_n > nu_th16
  <2>1. /\ nu_r' = nu_n % nu_th16 /\ nu_n' = nu_n \div nu_th16 /\ nu_j' = nu_innerLoops
        /\ nu_pc' = "chunks"
    BY <1>1, <1>7 DEF Nu!Divide
  <2>2. nu_th16 \in Nat \ {0} /\ nu_n >= nu_th16
    BY <1>2, <1>7
  <2>3. /\ nu_n' \in Nat /\ nu_n' <= nu_n /\ nu_r' \in 0..nu_th16 - 1 /\ nu_n' >= 1
        /\ nu_n = nu_th16 * nu_n' + nu_r'
    <3>1. nu_n \in Nat
      BY <1>2
    <3>2. /\ nu_n \div nu_th16 \in Nat /\ nu_n \div nu_th16 <= nu_n
          /\ nu_n % nu_th16 \in 0..nu_th16 - 1 /\ nu_n \div nu_th16 >= 1
          /\ nu_n = nu_th16 * (nu_n \div nu_th16) + (nu_n % nu_th16)
      BY <2>2, <3>1, QuotientBounds, Zenon
    <3>. QED
      BY <2>1, <3>2
  <2>4. nu_n' * power[nu_j'] + nu_r' = nu_n * power[nu_j] + nu_r
    <3>1. nu_n' * nu_th16 = nu_th16 * nu_n'
      BY <1>2, <2>3
    <3>. QED
      BY <1>1, <1>5, <1>6, <2>1, <2>3, <3>1
  <2>5. Split(power)'
    <3>1. nu_r' < power[nu_j']
      BY <1>2, <1>5, <2>1, <2>3
    <3>. QED
      BY <1>3, <1>4, <2>4, <3>1 DEF Split
  <2>6. PrintTypes'
    BY <1>1, <1>2, <1>4, <2>1, <2>3 DEF PrintTypes
  <2>7. NothingDone' /\ NoZeroInFront' /\ Written'
    BY <1>1, <2>1, <2>3 DEF NothingDone, NoZeroInFront, Written
  <2>. QED
    BY <1>1, <1>2, <1>4, <2>5, <2>6, <2>7 DEF PrintInv, Dividing
<1>8. CASE ~(nu_n > nu_th16)
  <2>1. nu_pc' = "digits" /\ UNCHANGED <<nu_n, nu_r, nu_j>>
    BY <1>8 DEF Nu!Divide
  <2>2. Split(power)'
    BY <1>3, <1>4, <2>1 DEF Split
  <2>3. PrintTypes'
    BY <1>1, <1>2, <1>4, <2>1 DEF PrintTypes
  <2>4. NothingDone' /\ NoZeroInFront' /\ Written'
    BY <1>1, <2>1 DEF PrintInv, NothingDone, NoZeroInFront, Written
  <2>. QED
    BY <1>1, <1>2, <1>4, <2>2, <2>3, <2>4 DEF PrintInv, Dividing
<1>. QED
  BY <1>7, <1>8

\* a digit that is divided off leaves the number,
LEMMA OneDigit ==
  ASSUME nu_base \in Nat, nu_base > 1, nu_buf \in Seq(Digits), NEW d \in Digits,
         NEW v \in Nat, NEW w, IsFold(w, Nat, Horner, v * nu_base + d, Nu!Reverse(nu_buf))
  PROVE  /\ Append(nu_buf, d) \in Seq(Digits)
         /\ IsFold(w, Nat, Horner, v, Nu!Reverse(Append(nu_buf, d)))
<1>1. /\ Nu!Reverse(nu_buf) \in Seq(Digits)
      /\ Nu!Reverse(Append(nu_buf, d)) = <<d>> \o Nu!Reverse(nu_buf)
  BY ReverseAppend
<1>2. Horner[v][d] = v * nu_base + d
  BY HornerIs
<1>3. IsFold(w, Nat, Horner, Horner[v][d], Nu!Reverse(nu_buf))
  BY <1>2
<1>4. IsFold(w, Nat, Horner, v, <<d>> \o Nu!Reverse(nu_buf))
  BY <1>1, <1>3, FoldOfCons
<1>5. Append(nu_buf, d) \in Seq(Digits)
  OBVIOUS
<1>. QED
  BY <1>1, <1>4, <1>5

\* from a remainder,
LEMMA DivideRemainderStep == ASSUME PrintInv, Nu!DivideRemainder PROVE PrintInv'
<1>1. /\ nu_pc = "chunks" /\ nu_j > 0 /\ nu_pc' = nu_pc
      /\ nu_buf' = Append(nu_buf, nu_r % nu_base) /\ nu_r' = nu_r \div nu_base /\ nu_j' = nu_j - 1
      /\ UNCHANGED <<nu_arg, nu_base, nu_wide, nu_n, nu_th16, nu_innerLoops, nu_out>>
  BY DEF Nu!DivideRemainder, Nu!LoopsLeft
<1>2. /\ PrintTypes /\ nu_buf \in Seq(Digits) /\ nu_base \in Nat /\ nu_base > 1
      /\ nu_th16 \in 1..Max16 /\ nu_innerLoops \in Nat /\ nu_out \in {<<>>, <<Nu!Minus>>}
      /\ nu_n \in Nat /\ nu_r \in 0..nu_th16 - 1 /\ Max16 \in Nat /\ nu_j \in 0..nu_innerLoops
      /\ Word \in Nat /\ nu_n \in 0..Word - 1
  BY <1>1, PrintConstants DEF PrintInv, PrintTypes, Dividing
<1>3. PICK power : Powers(power) /\ Split(power)
  BY <1>1 DEF PrintInv, Dividing
<1>4. /\ Magnitude' = Magnitude /\ Horner' = Horner /\ Powers(power)' /\ Digits' = Digits
  BY <1>1, <1>3 DEF Magnitude, Horner, Digits, Powers
<1>5. /\ nu_j - 1 \in 0..nu_innerLoops /\ nu_j \in 1..nu_innerLoops
      /\ power[nu_j - 1] \in Nat \ {0} /\ power[nu_j] = power[nu_j - 1] * nu_base
  <2>1. nu_j - 1 \in 0..nu_innerLoops /\ nu_j \in 1..nu_innerLoops
    BY <1>1, <1>2
  <2>. QED
    BY <1>3, <2>1 DEF Powers
<1>6. nu_r \in Nat /\ nu_base \in Nat \ {0} /\ nu_r < power[nu_j - 1] * nu_base
  BY <1>2, <1>3, <1>5 DEF Split
<1> DEFINE y == power[nu_j - 1]
           d == nu_r % nu_base
           q == nu_r \div nu_base
<1>7. /\ q \in Nat /\ q <= nu_r /\ d \in 0..nu_base - 1 /\ nu_r = nu_base * q + d /\ q < y
  <2>1. /\ q \in Nat /\ q <= nu_r /\ d \in 0..nu_base - 1
        /\ nu_r = nu_base * q + d
    BY <1>6, QuotientBounds, Zenon
  <2>2. y \in Nat /\ nu_r < y * nu_base
    BY <1>5, <1>6
  <2> HIDE DEF y
  <2>3. q < y
    BY <1>6, <2>2, QuotientBelow, Zenon
  <2>. QED
    BY <2>1, <2>3
<1>8. d \in Nat /\ d \in Digits /\ y \in Nat
  BY <1>5, <1>6, <1>7 DEF Digits
<1>9. (nu_n * y + q) * nu_base + d = nu_n * power[nu_j] + nu_r
  <2>1. power[nu_j] = y * nu_base
    BY <1>5
  <2> HIDE DEF y, d, q
  <2>2. (nu_n * y + q) * nu_base + d = nu_n * (y * nu_base) + (nu_base * q + d)
    BY <1>2, <1>7, <1>8, Rest
  <2>. QED
    BY <1>7, <2>1, <2>2
<1>10. nu_n * y + q \in Nat
  <2> HIDE DEF y, d, q
  <2>. QED
    BY <1>2, <1>7, <1>8
<1>11. /\ nu_buf' \in Seq(Digits)
       /\ IsFold(Magnitude, Nat, Horner, nu_n * y + q, Nu!Reverse(Append(nu_buf, d)))
  <2>1. IsFold(Magnitude, Nat, Horner, (nu_n * y + q) * nu_base + d, Nu!Reverse(nu_buf))
    BY <1>3, <1>9 DEF Split
  <2> HIDE DEF y, q
  <2>2. nu_buf' = Append(nu_buf, d)
    BY <1>1
  <2> HIDE DEF d
  <2>. QED
    BY <1>2, <1>8, <1>10, <2>1, <2>2, OneDigit
<1>12. Split(power)'
  <2>1. nu_r' < power[nu_j']
    BY <1>1, <1>7
  <2>2. Nu!Reverse(nu_buf)' = Nu!Reverse(Append(nu_buf, d))
    BY <1>1 DEF Nu!Reverse
  <2>3. nu_n' * power[nu_j'] + nu_r' = nu_n * y + q
    BY <1>1
  <2>. QED
    BY <1>4, <1>11, <2>1, <2>2, <2>3 DEF Split
<1>13. PrintTypes'
  <2>1. nu_r' \in 0..nu_th16 - 1
    BY <1>1, <1>2, <1>7
  <2>2. nu_j' \in 0..nu_innerLoops
    BY <1>1, <1>5
  <2>. QED
    BY <1>1, <1>2, <1>4, <1>11, <2>1, <2>2 DEF PrintTypes
<1>14. NothingDone' /\ NoZeroInFront' /\ Written'
  BY <1>1 DEF PrintInv, NothingDone, NoZeroInFront, Written
<1>. QED
  BY <1>1, <1>2, <1>4, <1>12, <1>13, <1>14 DEF PrintInv, Dividing
\* or from what is left;
LEMMA DigitStep == ASSUME PrintInv, Nu!Digit PROVE PrintInv'
<1>1. /\ nu_pc = "digits" /\ (nu_n > 0 \/ nu_buf = <<>>) /\ nu_pc' = nu_pc
      /\ nu_buf' = Append(nu_buf, nu_n % nu_base) /\ nu_n' = nu_n \div nu_base
      /\ UNCHANGED <<nu_arg, nu_base, nu_wide, nu_th16, nu_innerLoops, nu_r, nu_j, nu_out>>
  BY DEF Nu!Digit, Nu!chunk
<1>2. /\ PrintTypes /\ nu_buf \in Seq(Digits) /\ nu_base \in Nat /\ nu_base > 1
      /\ nu_th16 \in 1..Max16 /\ nu_innerLoops \in Nat /\ nu_out \in {<<>>, <<Nu!Minus>>}
      /\ nu_n \in Nat /\ nu_r \in 0..nu_th16 - 1 /\ nu_j = 0 /\ Word \in Nat
      /\ nu_n \in 0..Word - 1
  BY <1>1, PrintConstants DEF PrintInv, PrintTypes, Dividing, NoZeroInFront
<1>3. PICK power : Powers(power) /\ Split(power)
  BY <1>1 DEF PrintInv, Dividing
<1>4. /\ Magnitude' = Magnitude /\ Horner' = Horner /\ Powers(power)' /\ Digits' = Digits
  BY <1>1, <1>3 DEF Magnitude, Horner, Digits, Powers
<1>5. power[nu_j] = 1 /\ nu_r = 0
  <2>1. power[nu_j] = 1 /\ nu_r < 1
    BY <1>2, <1>3 DEF Powers, Split
  <2>. QED
    BY <1>2, <2>1
<1> DEFINE d == nu_n % nu_base
           q == nu_n \div nu_base
<1>6. q \in Nat /\ q <= nu_n /\ d \in 0..nu_base - 1 /\ nu_n = nu_base * q + d
  <2>1. nu_base \in Nat \ {0}
    BY <1>2
  <2>. QED
    BY <1>2, <2>1, QuotientBounds, Zenon
<1>7. d \in Digits /\ d \in Nat /\ q * nu_base + d = nu_n * power[nu_j] + nu_r
  <2>1. d \in Digits /\ d \in Nat
    BY <1>2, <1>6 DEF Digits
  <2> HIDE DEF d, q
  <2>2. q * nu_base = nu_base * q
    BY <1>2, <1>6
  <2>. QED
    BY <1>2, <1>5, <1>6, <2>1, <2>2
<1>8. /\ nu_buf' \in Seq(Digits)
      /\ IsFold(Magnitude, Nat, Horner, q, Nu!Reverse(Append(nu_buf, d)))
  <2>1. IsFold(Magnitude, Nat, Horner, q * nu_base + d, Nu!Reverse(nu_buf))
    BY <1>3, <1>7 DEF Split
  <2> HIDE DEF q
  <2>2. nu_buf' = Append(nu_buf, d)
    BY <1>1
  <2> HIDE DEF d
  <2>. QED
    BY <1>2, <1>6, <1>7, <2>1, <2>2, OneDigit
<1>9. Split(power)'
  <2>1. nu_r' < power[nu_j']
    BY <1>1, <1>2, <1>5
  <2>2. Nu!Reverse(nu_buf)' = Nu!Reverse(Append(nu_buf, d))
    BY <1>1 DEF Nu!Reverse
  <2>3. nu_n' * power[nu_j'] + nu_r' = q
    BY <1>1, <1>5, <1>6
  <2>. QED
    BY <1>4, <1>8, <2>1, <2>2, <2>3 DEF Split
<1>10. PrintTypes'
  <2>1. nu_n' \in 0..Word - 1
    BY <1>1, <1>2, <1>6
  <2>. QED
    BY <1>1, <1>2, <1>4, <1>8, <2>1 DEF PrintTypes
<1>11. NoZeroInFront'
  <2>1. Len(nu_buf') = Len(nu_buf) + 1 /\ nu_buf'[Len(nu_buf')] = d
    BY <1>1, <1>2
  <2>2. CASE nu_buf = <<>>
    <3>1. Len(nu_buf') = 1
      BY <2>1, <2>2
    <3>. QED
      BY <1>1, <1>2, <3>1 DEF NoZeroInFront
  <2>3. CASE nu_n > 0
    <3>1. nu_n' = q
      BY <1>1
    <3> HIDE DEF d, q
    <3>2. q = 0 => d # 0
      <4>1. q = 0 => nu_base * q = 0
        BY <1>2
      <4>. QED
        BY <1>2, <1>6, <1>7, <2>3, <4>1
    <3>. QED
      BY <1>1, <1>2, <1>6, <2>1, <3>1, <3>2 DEF NoZeroInFront
  <2>. QED
    BY <1>1, <2>2, <2>3
<1>12. NothingDone' /\ Written'
  BY <1>1 DEF NothingDone, Written
<1>. QED
  BY <1>1, <1>2, <1>4, <1>9, <1>10, <1>11, <1>12 DEF PrintInv, Dividing

\* a number that leaves no digits is 0;
LEMMA NothingIsZero ==
  ASSUME NEW a \in Values, ((-a) % Word = 0) \/ a % Word = 0
  PROVE  a % Word = 0
<1>1. a \in Int /\ Word \in Nat \ {0} /\ -Word <= a /\ a <= Word
  BY PrintConstants
<1> SUFFICES ASSUME (-a) % Word = 0 PROVE a % Word = 0
  OBVIOUS
<1> DEFINE q == (-a) \div Word
<1>2. q \in Int /\ -a = Word * q + 0
  <2>1. -a \in Int
    BY <1>1
  <2>. QED
    BY <1>1, <2>1, DivMod
<1> HIDE DEF q
<1>3. a = Word * (-q) + 0 /\ -q \in Int /\ 0 \in 0..Word - 1
  BY <1>1, <1>2
<1>4. (Word * (-q) + 0) % Word = 0
  BY <1>1, <1>3, DivModUnique
<1>. QED
  BY <1>3, <1>4

\* and the last digit is written first.
LEMMA ReverseLast ==
  ASSUME NEW E, NEW s \in Seq(E)
  PROVE  /\ Nu!Reverse(s) \in Seq(E) /\ Len(Nu!Reverse(s)) = Len(s)
         /\ s # <<>> => Nu!Reverse(s) # <<>> /\ Nu!Reverse(s)[1] = s[Len(s)]
<1>1. Len(s) \in Nat /\ s \in [1..Len(s) -> E]
  OBVIOUS
<1> DEFINE x == Nu!Reverse(s)
<1>2. x = [i \in 1..Len(s) |-> s[(Len(s) - i) + 1]]
  BY DEF Nu!Reverse
<1> HIDE DEF x
<1>3. \A i \in 1..Len(s) : (Len(s) - i) + 1 \in 1..Len(s)
  BY <1>1
<1>4. x \in [1..Len(s) -> E]
  BY <1>1, <1>2, <1>3
<1>5. x \in Seq(E) /\ Len(x) = Len(s)
  BY <1>1, <1>4, SeqDef, LenProperties
<1>6. s # <<>> => 1 \in 1..Len(s) /\ (Len(s) - 1) + 1 = Len(s)
  BY <1>1
<1>7. s # <<>> => x # <<>> /\ x[1] = s[Len(s)]
  <2> SUFFICES ASSUME s # <<>> PROVE x # <<>> /\ x[1] = s[Len(s)]
    OBVIOUS
  <2>1. x[1] = s[Len(s)]
    BY <1>2, <1>6
  <2>2. Len(x) # 0
    BY <1>5, <1>6
  <2>3. Len(<<>>) = 0
    OBVIOUS
  <2>. QED
    BY <2>1, <2>2, <2>3
<1>. QED
  BY <1>5, <1>7 DEF x

\* So what is written is the number.
LEMMA WriteStep == ASSUME PrintInv, Nu!Write PROVE PrintInv'
<1>1. /\ nu_pc = "digits" /\ nu_n = 0 /\ (nu_wide \/ nu_buf # <<>>) /\ nu_pc' = "returned"
      /\ nu_out' = nu_out \o Nu!Reverse(nu_buf)
      /\ UNCHANGED <<nu_arg, nu_base, nu_wide, nu_n, nu_th16, nu_innerLoops, nu_r, nu_j, nu_buf>>
  BY DEF Nu!Write, Nu!chunk
<1>2. /\ PrintTypes /\ nu_buf \in Seq(Digits) /\ nu_out \in {<<>>, <<Nu!Minus>>} /\ nu_j = 0
      /\ nu_buf # <<>> => Len(nu_buf) = 1 \/ nu_buf[Len(nu_buf)] # 0
      /\ nu_arg \in Values /\ nu_r \in 0..nu_th16 - 1 /\ nu_th16 \in 1..Max16
  BY <1>1 DEF PrintInv, PrintTypes, Dividing, NoZeroInFront
<1>3. PICK power : Powers(power) /\ Split(power)
  BY <1>1 DEF PrintInv, Dividing
<1>4. nu_n * power[nu_j] + nu_r = 0
  <2>1. power[nu_j] = 1 /\ nu_r < 1
    BY <1>2, <1>3 DEF Powers, Split
  <2>2. nu_r \in Nat
    BY <1>2, PrintConstants
  <2>. QED
    BY <1>1, <2>1, <2>2
<1> DEFINE s == Nu!Reverse(nu_buf)
<1>5. IsFold(Magnitude, Nat, Horner, 0, s)
  BY <1>3, <1>4 DEF Split
<1>6. /\ s \in Seq(Digits) /\ Len(s) = Len(nu_buf)
      /\ nu_buf # <<>> => s # <<>> /\ s[1] = nu_buf[Len(nu_buf)]
  BY <1>2, ReverseLast
<1>7. nu_buf = <<>> => Magnitude = 0
  <2> SUFFICES ASSUME nu_buf = <<>> PROVE Magnitude = 0
    OBVIOUS
  <2>1. s = <<>>
    BY DEF Nu!Reverse
  <2> HIDE DEF s
  <2>. QED
    BY <1>5, <2>1, FoldOfNone
<1>8. Magnitude = 0 => nu_arg % Word = 0
  BY <1>2, NothingIsZero DEF Magnitude
<1>9. ~(nu_wide /\ nu_arg % Word = 0) => s # <<>> /\ (Len(s) > 1 => s[1] # 0)
  <2> HIDE DEF s
  <2> SUFFICES ASSUME ~(nu_wide /\ nu_arg % Word = 0) PROVE s # <<>> /\ (Len(s) > 1 => s[1] # 0)
    OBVIOUS
  <2>1. nu_buf # <<>>
    BY <1>1, <1>7, <1>8
  <2>. QED
    BY <1>2, <1>6, <2>1
<1>10. Written'
  <2>1. s \in Seq(Digits') /\ Horner' = Horner
    BY <1>1, <1>6 DEF Digits, Horner
  <2> HIDE DEF s
  <2>2. IsFold((IF nu_out = <<>> THEN nu_arg ELSE -nu_arg) % Word, Nat, Horner', 0, s)
    BY <1>5, <2>1 DEF Magnitude
  <2>3. nu_out' = nu_out \o s
    BY <1>1 DEF s
  <2>. QED
    BY <1>1, <1>2, <1>9, <2>1, <2>2, <2>3 DEF Written
<1>11. PrintTypes'
  <2>1. Digits' = Digits
    BY <1>1 DEF Digits
  <2>. QED
    BY <1>1, <1>2, <2>1 DEF PrintTypes
<1>12. NothingDone' /\ NoZeroInFront' /\ ~Dividing'
  BY <1>1 DEF NothingDone, NoZeroInFront, Dividing
<1>. QED
  BY <1>10, <1>11, <1>12 DEF PrintInv

\* Every step keeps the invariant.
LEMMA PrintStep == PrintInv /\ [Nu!Next]_Nu!vars => PrintInv'
<1> SUFFICES ASSUME PrintInv, [Nu!Next]_Nu!vars PROVE PrintInv'
  OBVIOUS
<1>1. CASE UNCHANGED Nu!vars
  <2>1. /\ UNCHANGED <<nu_arg, nu_base, nu_wide, nu_pc, nu_n, nu_th16, nu_innerLoops, nu_r>>
        /\ UNCHANGED <<nu_j, nu_buf, nu_out>>
    BY <1>1 DEF Nu!vars, Nu!chunk
  <2>2. PrintTypes' /\ NothingDone' /\ NoZeroInFront'
    BY <2>1 DEF PrintInv, PrintTypes, NothingDone, NoZeroInFront, Digits
  <2>3. Written'
    BY <2>1 DEF PrintInv, Written, Digits, Horner
  <2>4. Dividing' => nu_out' \in {<<>>, <<Nu!Minus>>} /\ \E power : Powers(power)'
            /\ Split(power)'
    <3> SUFFICES ASSUME Dividing'

                 PROVE  nu_out' \in {<<>>, <<Nu!Minus>>} /\ \E power : Powers(power)' /\ Split(power)'
      OBVIOUS
    <3>1. Dividing
      BY <2>1 DEF Dividing
    <3>2. PICK power : Powers(power) /\ Split(power)
      BY <3>1 DEF PrintInv
    <3>3. Powers(power)'
      BY <2>1, <3>2 DEF Powers
    <3>4. Split(power)'
      BY <2>1, <3>2 DEF Split, Magnitude, Horner, Digits, Nu!Reverse
    <3>. QED
      BY <2>1, <3>1, <3>3, <3>4 DEF PrintInv
  <2>. QED
    BY <2>2, <2>3, <2>4 DEF PrintInv
<1>. QED
  BY <1>1, SignedStep, ScaleStep, DivideStep, DivideRemainderStep, DigitStep, WriteStep
     DEF Nu!Next

\* The invariant gives the types and the digits.
LEMMA PrintGives == PrintInv => Nu!TypeOK /\ PrintsTheDigits
<1> SUFFICES ASSUME PrintInv PROVE Nu!TypeOK /\ PrintsTheDigits
  OBVIOUS
<1>1. Nu!TypeOK
  BY DEF PrintInv, PrintTypes, Nu!TypeOK
<1>2. ASSUME nu_pc = "returned", ~(nu_wide /\ nu_arg % Word = 0)
      PROVE  LET digits == SubSeq(nu_out, Nu!Sign + 1, Len(nu_out)) IN
               /\ \A d \in Nu!ToSet(digits) : d \in 0..nu_base - 1
               /\ Nu!Number(digits) = (IF Nu!Sign = 1 THEN -nu_arg ELSE nu_arg) % Word
               /\ (digits # <<>> /\ (Len(digits) > 1 => Head(digits) # 0))
  <2>1. PICK s \in Seq(Digits), sign \in {<<>>, <<Nu!Minus>>} :
          /\ nu_out = sign \o s
          /\ IsFold((IF sign = <<>> THEN nu_arg ELSE -nu_arg) % Word, Nat, Horner, 0, s)
          /\ s # <<>> /\ (Len(s) > 1 => s[1] # 0)
    BY <1>2 DEF PrintInv, Written
  <2>2. nu_base \in Nat /\ nu_base > 1
    BY <1>2 DEF PrintInv, PrintTypes
  <2>3. Len(s) \in Nat /\ Len(s) > 0 /\ s[1] \in Digits /\ Head(s) = s[1]
    BY <2>1
  <2>4. s[1] # Nu!Minus
    BY <2>2, <2>3 DEF Digits, Nu!Minus
  <2>5. /\ Nu!Sign = IF sign = <<>> THEN 0 ELSE 1
        /\ SubSeq(nu_out, Nu!Sign + 1, Len(nu_out)) = s
    <3>1. CASE sign = <<>>
      <4>1. nu_out = s
        BY <2>1, <3>1
      <4>2. Nu!Sign = 0
        BY <2>3, <2>4, <4>1 DEF Nu!Sign
      <4>3. SubSeq(s, 0 + 1, Len(s)) = s
        BY <2>3
      <4>. QED
        BY <3>1, <4>1, <4>2, <4>3
    <3>2. CASE sign = <<Nu!Minus>>
      <4> DEFINE t == <<Nu!Minus>> \o s
      <4>1. Nu!Minus \in Int /\ s \in Seq(Int)
        BY <2>1, <2>2 DEF Nu!Minus, Digits
      <4>2. t \in Seq(Int) /\ Len(t) = Len(s) + 1 /\ Head(t) = Nu!Minus /\ t # <<>>
        BY <2>3, <4>1
      <4>3. SubSeq(t, 2, Len(s) + 1) = s
        BY <2>3, <4>1
      <4> HIDE DEF t
      <4>4. nu_out = t
        BY <2>1, <3>2 DEF t
      <4>5. Nu!Sign = 1
        BY <4>2, <4>4 DEF Nu!Sign
      <4>6. SubSeq(nu_out, Nu!Sign + 1, Len(nu_out)) = s
        BY <4>2, <4>3, <4>4, <4>5
      <4>7. sign # <<>>
        BY <3>2
      <4>. QED
        BY <4>5, <4>6, <4>7
    <3>. QED
      BY <3>1, <3>2
  <2>6. Nu!Number(s) = (IF Nu!Sign = 1 THEN -nu_arg ELSE nu_arg) % Word
    <3>1. IsFold(Nu!Number(s), Nat, Horner, 0, s)
      BY <2>2, NumberIsFold
    <3> DEFINE u == (IF sign = <<>> THEN nu_arg ELSE -nu_arg) % Word
    <3>2. u = (IF Nu!Sign = 1 THEN -nu_arg ELSE nu_arg) % Word
      BY <2>5
    <3>3. IsFold(u, Nat, Horner, 0, s)
      BY <2>1
    <3> HIDE DEF u
    <3>. QED
      BY <3>1, <3>2, <3>3, FoldIsOne
  <2>7. \A d \in Nu!ToSet(s) : d \in 0..nu_base - 1
    <3>1. s \in [1..Len(s) -> Digits]
      OBVIOUS
    <3>2. \A i \in DOMAIN s : s[i] \in Digits
      BY <3>1
    <3>. QED
      BY <3>2 DEF Nu!ToSet, Digits
  <2>. QED
    BY <2>1, <2>3, <2>5, <2>6, <2>7
<1>3. PrintsTheDigits
  BY <1>2 DEF PrintsTheDigits, Nu!PrintsTheDigits
<1>. QED
  BY <1>1, <1>3

\* The inductive invariant of print() (api/Print.cpp).
THEOREM PrintInvariance == Nu!Spec => []PrintInv
BY PrintStart, PrintStep, PTL DEF Nu!Spec

\* The remainder and the size of a chunk stay in 16 bits, for every base and every number.
THEOREM PrintTyped == Nu!Spec => []Nu!TypeOK
BY PrintInvariance, PrintGives, PTL

\* print() writes the digits of the number in its base, in one division or in chunks, without zeros
\* in front, for every width of the number and of the fast division, and every base: one that does
\* not fit a byte is taken for its low byte, and the long long 0 prints nothing.
THEOREM PrintsDigits == Nu!Spec => []PrintsTheDigits
BY PrintInvariance, PrintGives, PTL

-----------------------------------------------------------------------------
(* The calls of Stream: the invariant of TextStream. *)

\* The characters.
Chars == 0..Tx!Letter

\* The types; no call has given up before it returns.
TextTypes ==
  /\ tx_text \in Seq(Chars) /\ tx_taken \in Seq(Chars) /\ tx_targets \in Seq(Seq(Chars))
  /\ tx_index \in [DOMAIN tx_targets -> Nat]
  /\ tx_isNegative \in BOOLEAN /\ tx_gaveUp \in BOOLEAN
  /\ tx_value \in -LongHalf..LongHalf - 1
  /\ tx_buffer \in Seq(Chars) /\ tx_length \in Nat /\ Len(tx_buffer) <= tx_length
  /\ tx_ignore \in {Tx!Comma, Tx!None} /\ (tx_pc # "returned" => ~tx_gaveUp)
  /\ \/ tx_call = "find" /\ tx_pc \in {"loop", "returned"}
     \/ tx_call = "parseInt" /\ tx_pc \in {"skip", "number", "returned"} /\ tx_targets = <<>>
     \/ tx_call = "readBytesUntil" /\ tx_pc \in {"loop", "returned"} /\ tx_targets = <<>>

\* readBytesUntil() has placed what it took, and the terminator has not come.
Placed == tx_taken = tx_buffer /\ ~Tx!Contains(tx_buffer, tx_terminator)
\* Its invariant, and what it promises.
UntilInv ==
  /\ (tx_call = "readBytesUntil" /\ tx_pc = "loop") => Placed
  /\ Tx!TakesUntil

\* The first n of the characters that parseInt() took may be skipped,
Skipped(n) ==
  \A i \in 1..n :
    ~Tx!IsDigit(tx_taken[i]) /\ tx_taken[i] # Tx!Minus /\ Tx!Skips(tx_taken[i])

\* and those behind them are of the number.
OfNumber(n) ==
  \A i \in n + 1..Len(tx_taken) :
    \/ Tx!IsDigit(tx_taken[i])
    \/ i > n + 1 /\ tx_taken[i] = tx_ignore
    \/ i = n + 1 /\ tx_taken[i] = Tx!Minus

\* So are those it took so far, and its value is the number they write, if a long holds it.
Parsed ==
  /\ Tx!Written(tx_taken) < LongHalf => tx_value = Tx!Written(tx_taken)
  /\ tx_isNegative <=> Tx!Contains(tx_taken, Tx!Minus)
  /\ tx_pc = "skip" => Skipped(Len(tx_taken)) /\ tx_value = 0
  /\ tx_pc = "number" =>
       \E n \in 0..Len(tx_taken) : n < Len(tx_taken) /\ Skipped(n) /\ OfNumber(n)

\* Its invariant, and what it promises.
ParseInv ==
  /\ (tx_call = "parseInt" /\ tx_pc # "returned") => Parsed
  /\ Tx!ParsesTheNumber

\* The characters x end with the first k of the string,
Ends(x, s, k) == k <= Len(s) /\ k <= Len(x) /\ \A j \in 1..k : x[Len(x) - k + j] = s[j]

\* and with no longer beginning of it.
Longest(x, s, k) == Ends(x, s, k) /\ \A m \in 0..Len(s) : Ends(x, s, m) => m <= k

\* The string has come with the first n of the characters.
Came(x, s, n) == Len(s) <= n /\ \A j \in 1..Len(s) : x[n - Len(s) + j] = s[j]

\* findMulti() knows of each string the longest beginning that the characters end with; an
\* empty one is found before a character is taken, and no other is complete.
Searched ==
  /\ \A t \in DOMAIN tx_targets : Longest(tx_taken, tx_targets[t], tx_index[t])
  /\ Tx!EmptyTargets # {} => tx_taken = <<>>
  /\ Tx!EmptyTargets = {} => \A t \in DOMAIN tx_targets : tx_index[t] < Len(tx_targets[t])

\* None has come.
NoneCame ==
  \A n \in 1..Len(tx_taken) : \A t \in DOMAIN tx_targets : ~Came(tx_taken, tx_targets[t], n)

\* Its invariant, and what it promises.
FindInv ==
  tx_call = "find" =>
    /\ tx_pc = "loop" => Searched /\ NoneCame
    /\ \A t \in DOMAIN tx_targets : tx_index[t] <= Len(tx_targets[t])
    /\ tx_pc = "returned" => Tx!FindsTheFirst

\* The inductive invariant of the three calls.
TextInv == TextTypes /\ UntilInv /\ ParseInv /\ FindInv

\* What the constants are.
LEMMA TextConstants ==
  /\ \A s \in Texts \cup Numbers : s \in Seq(Chars)
  /\ \A s \in Targets : s \in Seq(Seq(Chars))
  /\ MaxLength \in Nat /\ LongHalf \in Nat /\ LongHalf > 0
BY LibrariesAssumption DEF Tx!TextAssumption, Chars

\* A long is one, and keeps the integers it holds.
LEMMA LongIs ==
  ASSUME NEW v \in Int
  PROVE  /\ Tx!Long(v) \in -LongHalf..LongHalf - 1
         /\ v \in -LongHalf..LongHalf - 1 => Tx!Long(v) = v
<1> DEFINE u == v + LongHalf
           w == 2 * LongHalf
<1>1. u \in Int /\ w \in Int /\ w > 0 /\ LongHalf \in Nat /\ LongHalf > 0
  BY TextConstants
<1>2. Tx!Long(v) = (u % w) - LongHalf /\ v = u - LongHalf
  BY <1>1 DEF Tx!Long
<1>3. w = 2 * LongHalf
  OBVIOUS
<1> HIDE DEF u, w
<1>4. u % w \in 0..w - 1
  BY <1>1
<1>5. u \in 0..w - 1 => u % w = u
  BY <1>1
<1>. QED
  BY <1>1, <1>2, <1>3, <1>4, <1>5

\* The operation of a number that is read, one character more,
Reads == [m \in Nat |-> [c \in Chars |-> IF Tx!IsDigit(c) THEN m * 10 + c ELSE m]]

\* which is one on the numbers.
LEMMA ReadsIs ==
  /\ Reads \in Operations(Nat, Chars)
  /\ \A m \in Nat, c \in Chars : Reads[m][c] = IF Tx!IsDigit(c) THEN m * 10 + c ELSE m
<1>1. \A m \in Nat, c \in Chars : (IF Tx!IsDigit(c) THEN m * 10 + c ELSE m) \in Nat
  BY DEF Chars, Tx!Letter
<1>. QED
  BY <1>1 DEF Reads, Operations

\* The number that the characters write is its fold:
LEMMA WrittenIsFold ==
  ASSUME NEW x \in Seq(Chars)
  PROVE  IsFold(Tx!Written(x), Nat, Reads, 0, x)
<1> DEFINE G == Reads
           E == Chars
           Eq(f) == f = [s \in SUBSET (DOMAIN x) |-> IF s = {} THEN 0 ELSE
                           IF Tx!IsDigit(x[Max(s)]) THEN f[s \ {Max(s)}] * 10 + x[Max(s)]
                               ELSE f[s \ {Max(s)}]]
           h == CHOOSE f : Eq(f)
<1>0. Len(x) \in Nat /\ x \in [1..Len(x) -> E] /\ DOMAIN x = 1..Len(x)
  OBVIOUS
<1>1. Tx!Written(x) = h[DOMAIN x]
  BY DEF Tx!Written, Tx!FoldLeft, Tx!MapThenFoldSet, Max, Tx!Max
<1>2. G \in Operations(Nat, E)
          /\ \A n \in Nat, e \in E : G[n][e] = IF Tx!IsDigit(e) THEN n * 10 + e ELSE n
  BY ReadsIs
<1> HIDE DEF G, E
<1>a. \A s \in SUBSET (DOMAIN x) : s # {} => x[Max(s)] \in E
  BY <1>0, MaxIn
<1>3. \E f : Eq(f)
  <2>1. PICK f : IsFoldFunction(f, Nat, G, 0, x, Len(x))
    BY <1>0, <1>2, 0 \in Nat, FoldExists DEF E
  <2>2. /\ f \in [SUBSET (DOMAIN x) -> Nat] /\ f[{}] = 0
        /\ \A s \in SUBSET (DOMAIN x) : s # {} => f[s] = G[f[s \ {Max(s)}]][x[Max(s)]]
    BY <1>0, <2>1 DEF IsFoldFunction
  <2>3. ASSUME NEW s \in SUBSET (DOMAIN x)
        PROVE  f[s] = IF s = {} THEN 0 ELSE
                        IF Tx!IsDigit(x[Max(s)]) THEN f[s \ {Max(s)}] * 10 + x[Max(s)]
                            ELSE f[s \ {Max(s)}]
    <3>1. f[s \ {Max(s)}] \in Nat
      BY <2>2
    <3>. QED
      BY <1>2, <1>a, <2>2, <3>1
  <2>4. Eq(f)
    BY <2>2, <2>3
  <2>. QED
    BY <2>4
<1>4. Eq(h)
  BY <1>3
<1> HIDE DEF h
<1>5. FoldGoes(h, Nat, G, 0, x, Len(x))
  <2>1. h[{}] = 0
    BY <1>4
  <2>2. ASSUME NEW s \in SUBSET (DOMAIN x), s # {}, h[s \ {Max(s)}] \in Nat
        PROVE  h[s] = G[h[s \ {Max(s)}]][x[Max(s)]]
    <3>1. h[s] = IF Tx!IsDigit(x[Max(s)]) THEN h[s \ {Max(s)}] * 10 + x[Max(s)]
              ELSE h[s \ {Max(s)}]
      BY <1>4, <2>2
    <3>. QED
      BY <1>2, <1>a, <2>2, <3>1
  <2>. QED
    BY <1>0, <2>1, <2>2 DEF FoldGoes
<1>6. IsFold(h[1..Len(x)], Nat, G, 0, x)
  <2>1. x \in Seq(E)
    BY DEF E
  <2>. QED
    BY <1>2, <1>5, <2>1, 0 \in Nat, FoldSteps
<1>. QED
  BY <1>0, <1>1, <1>6 DEF G

\* none writes 0,
LEMMA WrittenNone == Tx!Written(<<>>) = 0
<1>1. <<>> \in Seq(Chars)
  OBVIOUS
<1>. QED
  BY <1>1, WrittenIsFold, FoldOfNone

\* and one more is a digit more, or nothing.
LEMMA WrittenAppend ==
  ASSUME NEW x \in Seq(Chars), NEW c \in Chars
  PROVE  /\ Tx!Written(x) \in Nat
         /\ Tx!Written(Append(x, c)) = IF Tx!IsDigit(c) THEN Tx!Written(x) * 10 + c
                ELSE Tx!Written(x)
<1> DEFINE v == Tx!Written(x)
           w == Tx!Written(Append(x, c))
<1>1. Append(x, c) \in Seq(Chars)
  OBVIOUS
<1>2. IsFold(v, Nat, Reads, 0, x) /\ IsFold(w, Nat, Reads, 0, Append(x, c))
  BY <1>1, WrittenIsFold
<1> HIDE DEF v, w
<1>3. v \in Nat /\ w = Reads[v][c]
  BY <1>2, FoldOfAppend, FoldTyped
<1>. QED
  BY <1>3, ReadsIs DEF v, w

LEMMA WrittenTyped ==
  ASSUME NEW x \in Seq(Chars)
  PROVE  Tx!Written(x) \in Nat
<1>1. 0 \in Chars
  BY DEF Chars, Tx!Letter
<1>. QED
  BY <1>1, WrittenAppend

\* What is in a longer sequence is in the sequence, or the element that came.
LEMMA ContainsAppend ==
  ASSUME NEW x \in Seq(Chars), NEW c \in Chars
  PROVE  \A e : Tx!Contains(Append(x, c), e) <=> Tx!Contains(x, e) \/ e = c
<1>1. Len(x) \in Nat /\ Len(Append(x, c)) = Len(x) + 1 /\ Append(x, c)[Len(x) + 1] = c
  OBVIOUS
<1>2. \A i \in 1..Len(x) : i \in 1..Len(x) + 1 /\ Append(x, c)[i] = x[i]
  BY <1>1
<1>3. \A i \in 1..Len(x) + 1 : i \in 1..Len(x) \/ i = Len(x) + 1
  BY <1>1
<1> DEFINE y == Append(x, c)
<1> HIDE DEF y
<1>. QED
  BY <1>1, <1>2, <1>3 DEF Tx!Contains, y

\* A character that was peeked and is read is behind those taken.
LEMMA ReadStep ==
  ASSUME TextTypes, NEW c \in Chars, Tx!Peeked(c), Tx!Read
  PROVE  /\ tx_taken' = Append(tx_taken, c) /\ tx_taken' \in Seq(Chars) /\ tx_text' \in Seq(Chars)
         /\ Len(tx_taken') = Len(tx_taken) + 1 /\ tx_taken'[Len(tx_taken) + 1] = c
         /\ Len(tx_taken) \in Nat
         /\ \A i \in 1..Len(tx_taken) : tx_taken'[i] = tx_taken[i]
<1>1. tx_text # <<>> /\ c = Head(tx_text) /\ tx_taken' = Append(tx_taken, Head(tx_text))
          /\ tx_text' = Tail(tx_text)
  BY DEF Tx!Peeked, Tx!Read
<1>2. tx_taken \in Seq(Chars) /\ tx_text \in Seq(Chars)
  BY DEF TextTypes
<1>. QED
  BY <1>1, <1>2

\* Max of the community modules, for the lengths of the beginnings of a string,
LEMMA TextMax ==
  ASSUME NEW n \in Nat, NEW T \in SUBSET (0..n), T # {}
  PROVE  Tx!Max(T) \in T /\ \A y \in T : Tx!Max(T) >= y
<1> DEFINE R == {k \in Nat : \E i \in T : k = n - i}
<1>1. R \in SUBSET Nat /\ R # {}
  <2>1. PICK i \in T : TRUE
    OBVIOUS
  <2>2. n - i \in R
    BY <2>1
  <2>. QED
    BY <2>2
<1>2. PICK k \in R : \A m \in R : k <= m
  <2> HIDE DEF R
  <2>. QED
    BY <1>1, LeastNumber
<1>3. PICK i \in T : k = n - i
  OBVIOUS
<1>4. \A j \in T : n - j \in R
  OBVIOUS
<1>5. \A j \in T : i >= j
  BY <1>2, <1>3, <1>4
<1>. QED
  BY <1>5 DEF Tx!Max

\* and Min, for the places in a list.
LEMMA TextMin ==
  ASSUME NEW T \in SUBSET Nat, T # {}
  PROVE  Tx!Min(T) \in T /\ \A y \in T : Tx!Min(T) <= y
<1>1. \E n \in T : \A m \in T : n <= m
  BY LeastNumber
<1>. QED
  BY <1>1 DEF Tx!Min

\* The characters end with a beginning of the string if they did, one character before, with
\* the beginning before and its next character came.
LEMMA EndsAppend ==
  ASSUME NEW x \in Seq(Chars), NEW s \in Seq(Chars), NEW c \in Chars, NEW k \in Nat,
         k + 1 <= Len(s)
  PROVE  Ends(Append(x, c), s, k + 1) <=> Ends(x, s, k) /\ s[k + 1] = c
<1> DEFINE y == Append(x, c)
           n == Len(x)
<1>1. n \in Nat /\ Len(y) = n + 1 /\ y[n + 1] = c /\ \A i \in 1..n : y[i] = x[i]
  OBVIOUS
<1>2. Len(s) \in Nat
  OBVIOUS
<1> HIDE DEF y, n
<1>3. ASSUME Ends(y, s, k + 1) PROVE Ends(x, s, k) /\ s[k + 1] = c
  <2>1. k <= n /\ \A j \in 1..k + 1 : y[n + 1 - (k + 1) + j] = s[j]
    BY <1>1, <1>3 DEF Ends
  <2>2. n + 1 - (k + 1) + (k + 1) = n + 1 /\ k + 1 \in 1..k + 1
    BY <1>1
  <2>3. s[k + 1] = c
    BY <1>1, <2>1, <2>2
  <2>4. ASSUME NEW j \in 1..k PROVE x[n - k + j] = s[j]
    <3>1. j \in 1..k + 1 /\ n + 1 - (k + 1) + j = n - k + j /\ n - k + j \in 1..n
      BY <1>1, <2>1
    <3>. QED
      BY <1>1, <2>1, <3>1
  <2>. QED
    BY <1>2, <2>1, <2>3, <2>4 DEF Ends, n
<1>4. ASSUME Ends(x, s, k), s[k + 1] = c PROVE Ends(y, s, k + 1)
  <2>1. k <= n /\ \A j \in 1..k : x[n - k + j] = s[j]
    BY <1>4 DEF Ends, n
  <2>2. ASSUME NEW j \in 1..k + 1 PROVE y[Len(y) - (k + 1) + j] = s[j]
    <3>1. Len(y) - (k + 1) + j = n - k + j
      BY <1>1
    <3>2. CASE j = k + 1
      <4>1. n - k + j = n + 1
        BY <1>1, <3>2
      <4>. QED
        BY <1>1, <1>4, <3>1, <3>2, <4>1
    <3>3. CASE j # k + 1
      <4>1. j \in 1..k /\ n - k + j \in 1..n
        BY <1>1, <2>1, <3>3
      <4>. QED
        BY <1>1, <2>1, <3>1, <4>1
    <3>. QED
      BY <3>2, <3>3
  <2>. QED
    BY <1>1, <2>1, <2>2 DEF Ends
<1>. QED
  BY <1>3, <1>4 DEF y

\* Where they end with one beginning, they end with a shorter one if that one does.
LEMMA EndsBoth ==
  ASSUME NEW x \in Seq(Chars), NEW s \in Seq(Chars), NEW i \in Nat, NEW m \in 0..i,
         Ends(x, s, i)
  PROVE  Ends(x, s, m) <=> \A j \in 1..m : s[j] = s[j + i - m]
<1> DEFINE n == Len(x)
<1>1. n \in Nat /\ Len(s) \in Nat
  OBVIOUS
<1>2. i <= Len(s) /\ i <= n /\ \A j \in 1..i : x[n - i + j] = s[j]
  BY DEF Ends
<1> HIDE DEF n
<1>3. ASSUME NEW j \in 1..m PROVE x[n - m + j] = s[j + i - m]
  <2>1. j + i - m \in 1..i /\ n - i + (j + i - m) = n - m + j
    BY <1>1
  <2>. QED
    BY <1>2, <2>1
<1>. QED
  BY <1>1, <1>2, <1>3 DEF Ends, n

\* So what findMulti() does with one more character, whether it matches or not, leaves the
\* longest beginning that they end with.
LEMMA AdvancedIsLongest ==
  ASSUME NEW x \in Seq(Chars), NEW s \in Seq(Chars), NEW c \in Chars, NEW i \in Nat,
         Longest(x, s, i), i < Len(s)
  PROVE  /\ Tx!Advanced(s, i, c) \in 0..Len(s)
         /\ Longest(Append(x, c), s, Tx!Advanced(s, i, c))
<1> DEFINE y == Append(x, c)
           A == Tx!Advanced(s, i, c)
           R == Tx!Shorter(s, i, c)
<1>1. Len(s) \in Nat /\ Ends(x, s, i) /\ \A m \in 0..Len(s) : Ends(x, s, m) => m <= i
  BY DEF Longest
<1>2. R \in SUBSET (0..i - 1)
  BY DEF Tx!Shorter
<1>3. \A k \in Nat : k + 1 <= Len(s) => (Ends(y, s, k + 1) <=> Ends(x, s, k) /\ s[k + 1] = c)
  BY EndsAppend
<1>4. ASSUME NEW k \in 0..i - 1 PROVE k \in R <=> Ends(x, s, k) /\ s[k + 1] = c
  <2>1. k \in 0..i
    OBVIOUS
  <2>2. Ends(x, s, k) <=> \A j \in 1..k : s[j] = s[j + i - k]
    BY <1>1, <2>1, EndsBoth
  <2>. QED
    BY <2>2 DEF Tx!Shorter
<1>5. Ends(y, s, 0)
  BY <1>1 DEF Ends
<1>6. ASSUME NEW m \in 0..Len(s), Ends(y, s, m), m # 0
      PROVE  m - 1 \in 0..i /\ s[m] = c /\ (m - 1 = i \/ m - 1 \in R)
  <2>1. m - 1 \in Nat /\ m - 1 + 1 = m /\ m - 1 + 1 <= Len(s) /\ m - 1 \in 0..Len(s)
    BY <1>1, <1>6
  <2>2. Ends(x, s, m - 1) /\ s[m - 1 + 1] = c
    BY <1>3, <1>6, <2>1
  <2>3. m - 1 <= i
    BY <1>1, <2>1, <2>2
  <2>4. m - 1 # i => m - 1 \in 0..i - 1
    BY <2>1, <2>3
  <2>. QED
    BY <1>4, <2>1, <2>2, <2>3, <2>4
<1>7. A = IF c = s[i + 1] THEN i + 1 ELSE IF R = {} THEN 0 ELSE Tx!Max(R) + 1
  BY DEF Tx!Advanced
<1> HIDE DEF y, A, R
<1>8. CASE c = s[i + 1]
  <2>1. A = i + 1 /\ i + 1 \in 0..Len(s) /\ Ends(y, s, i + 1)
    BY <1>1, <1>3, <1>7, <1>8
  <2>2. ASSUME NEW m \in 0..Len(s), Ends(y, s, m) PROVE m <= i + 1
    <3>1. m # 0 => m - 1 \in 0..i
      BY <1>6, <2>2
    <3>. QED
      BY <3>1
  <2>. QED
    BY <2>1, <2>2 DEF Longest, A, y
<1>9. CASE c # s[i + 1]
  <2>1. ASSUME NEW m \in 0..Len(s), Ends(y, s, m), m # 0 PROVE m - 1 \in R
    <3>1. m - 1 # i
      <4>1. m - 1 = i => m = i + 1
        BY <1>1
      <4>. QED
        BY <1>6, <1>9, <2>1, <4>1
    <3>. QED
      BY <1>6, <2>1, <3>1
  <2>2. CASE R = {}
    <3>1. A = 0 /\ 0 \in 0..Len(s)
      BY <1>1, <1>7, <1>9, <2>2
    <3>2. \A m \in 0..Len(s) : Ends(y, s, m) => m <= 0
      BY <2>1, <2>2
    <3>. QED
      BY <1>5, <3>1, <3>2 DEF Longest, A, y
  <2>3. CASE R # {}
    <3> DEFINE K == Tx!Max(R)
    <3>1. R \in SUBSET (0..i)
      BY <1>2
    <3>2. K \in R /\ \A k \in R : K >= k
      BY <2>3, <3>1, TextMax
    <3>3. A = K + 1
      BY <1>7, <1>9, <2>3
    <3> HIDE DEF K
    <3>4. K \in 0..i - 1
      BY <1>2, <3>2
    <3>5. K \in Nat /\ K + 1 \in 0..Len(s) /\ K + 1 <= Len(s)
      BY <1>1, <3>4
    <3>6. Ends(y, s, K + 1)
      BY <1>3, <1>4, <3>2, <3>4, <3>5
    <3>7. ASSUME NEW m \in 0..Len(s), Ends(y, s, m) PROVE m <= K + 1
      <4>1. m # 0 => K >= m - 1
        BY <2>1, <3>2, <3>7
      <4>. QED
        BY <3>5, <4>1
    <3>. QED
      BY <3>3, <3>5, <3>6, <3>7 DEF Longest, A, y
  <2>. QED
    BY <2>2, <2>3
<1>. QED
  BY <1>8, <1>9

\* The string has come: as a subsequence, and element for element.
LEMMA CameIs ==
  ASSUME NEW x \in Seq(Chars), NEW s \in Seq(Chars), NEW n \in 0..Len(x)
  PROVE  Len(s) <= n /\ SubSeq(x, n - Len(s) + 1, n) = s <=> Came(x, s, n)
<1>1. Len(s) \in Nat /\ Len(x) \in Nat /\ n \in Nat
  OBVIOUS
<1> SUFFICES ASSUME Len(s) <= n
             PROVE  SubSeq(x, n - Len(s) + 1, n) = s
                      <=> \A j \in 1..Len(s) : x[n - Len(s) + j] = s[j]
  BY DEF Came
<1> DEFINE a == n - Len(s) + 1
           u == SubSeq(x, a, n)
<1>2. a \in 1..Len(x) + 1 /\ n \in a - 1..Len(x) /\ n - a + 1 = Len(s)
  BY <1>1
<1>3. u \in Seq(Chars) /\ Len(u) = n - a + 1 /\ \A j \in 1..n - a + 1 : u[j] = x[a + j - 1]
  <2> HIDE DEF a
  <2>. QED
    BY <1>2, SubSeqProperties
<1>4. \A j \in 1..Len(s) : a + j - 1 = n - Len(s) + j
  BY <1>1
<1>5. u = s <=> \A j \in 1..Len(s) : u[j] = s[j]
  <2> HIDE DEF a, u
  <2>1. Len(u) = Len(s)
    BY <1>2, <1>3
  <2>. QED
    BY <1>3, <2>1, SeqEqual
<1> HIDE DEF u
<1>6. \A j \in 1..Len(s) : u[j] = x[n - Len(s) + j]
  <2> HIDE DEF a
  <2>. QED
    BY <1>2, <1>3, <1>4
<1>. QED
  BY <1>5, <1>6 DEF u

\* The longest is the largest of their lengths;
LEMMA LongestIsMax ==
  ASSUME NEW x \in Seq(Chars), NEW s \in Seq(Chars), NEW i \in Nat, Longest(x, s, i)
  PROVE  i = Tx!Max({k \in 0..Len(s) : Ends(x, s, k)})
<1> DEFINE T == {k \in 0..Len(s) : Ends(x, s, k)}
<1>1. Len(s) \in Nat /\ T \in SUBSET (0..Len(s)) /\ i <= Len(s) /\ Ends(x, s, i)
      /\ \A m \in 0..Len(s) : Ends(x, s, m) => m <= i
  BY DEF Longest, Ends
<1>2. i \in T /\ \A m \in T : m <= i
  BY <1>1
<1>3. Tx!Max(T) \in T /\ \A y \in T : Tx!Max(T) >= y
  <2> HIDE DEF T
  <2>. QED
    BY <1>1, <1>2, TextMax
<1> DEFINE K == Tx!Max(T)
<1>4. K \in Nat /\ K <= i /\ K >= i
  <2>1. K \in 0..Len(s)
    BY <1>1, <1>3
  <2> HIDE DEF K, T
  <2>2. K \in T /\ \A y \in T : K >= y
    BY <1>3 DEF K
  <2>. QED
    BY <1>1, <1>2, <2>1, <2>2
<1> HIDE DEF K
<1>5. i = K
  BY <1>4
<1>. QED
  BY <1>5 DEF K

\* a beginning has come when the characters end with it,
LEMMA BeginningCame ==
  ASSUME NEW x \in Seq(Chars), NEW s \in Seq(Chars), NEW k \in 0..Len(s)
  PROVE  Came(x, SubSeq(s, 1, k), Len(x)) <=> Ends(x, s, k)
<1>1. Len(s) \in Nat /\ k \in Nat
  OBVIOUS
<1>2. Len(SubSeq(s, 1, k)) = k /\ \A j \in 1..k : SubSeq(s, 1, k)[j] = s[j]
  BY <1>1
<1> DEFINE u == SubSeq(s, 1, k)
<1> HIDE DEF u
<1>. QED
  BY <1>1, <1>2, SMTT(30) DEF Came, Ends, u

\* which is what EndsAt says of the characters taken.
LEMMA EndsAtIs ==
  ASSUME TextTypes, NEW s \in Seq(Chars), NEW n \in 0..Len(tx_taken)
  PROVE  Tx!EndsAt(s, n) <=> Came(tx_taken, s, n)
<1>1. tx_taken \in Seq(Chars)
  BY DEF TextTypes
<1>. QED
  BY <1>1, CameIs DEF Tx!EndsAt

\* The types of one of the strings and its index.
LEMMA TargetTyped ==
  ASSUME TextTypes, NEW t \in DOMAIN tx_targets

  PROVE  tx_targets[t] \in Seq(Chars) /\ Len(tx_targets[t]) \in Nat /\ tx_index[t] \in Nat /\ t \in Nat \ {0}
<1>1. tx_targets \in Seq(Seq(Chars)) /\ tx_index \in [DOMAIN tx_targets -> Nat]
  BY DEF TextTypes
<1>2. DOMAIN tx_targets = 1..Len(tx_targets) /\ Len(tx_targets) \in Nat
  BY <1>1
<1>3. tx_targets[t] \in Seq(Chars)
  BY <1>1
<1>. QED
  BY <1>1, <1>2, <1>3

\* While findMulti() searches, its invariant is what it promises.
LEMMA FindIsRight ==
  ASSUME TextTypes, tx_call = "find", tx_pc = "loop", Searched, NoneCame
  PROVE  Tx!FindsTheFirst
<1>1. ASSUME NEW t \in DOMAIN tx_targets
      PROVE  tx_index[t] = Tx!Max({k \in 0..Len(tx_targets[t]) :
                             Tx!EndsAt(SubSeq(tx_targets[t], 1, k), Len(tx_taken))})
  <2> DEFINE s == tx_targets[t]
             x == tx_taken
  <2>1. s \in Seq(Chars) /\ Len(s) \in Nat /\ tx_index[t] \in Nat
    BY TargetTyped
  <2>2. x \in Seq(Chars) /\ Len(x) \in 0..Len(x)
    <3>1. x \in Seq(Chars)
      BY DEF TextTypes
    <3>2. Len(x) \in Nat
      BY <3>1
    <3>. QED
      BY <3>1, <3>2
  <2>3. Longest(x, s, tx_index[t])
    BY DEF Searched
  <2>4. ASSUME NEW k \in 0..Len(s)
        PROVE  Tx!EndsAt(SubSeq(s, 1, k), Len(x)) <=> Ends(x, s, k)
    <3>1. SubSeq(s, 1, k) \in Seq(Chars)
      BY <2>1
    <3>. QED
      BY <2>1, <2>2, <3>1, EndsAtIs, BeginningCame
  <2>5. {k \in 0..Len(s) : Tx!EndsAt(SubSeq(s, 1, k), Len(x))} = {k \in 0..Len(s) : Ends(x, s, k)}
    BY <2>4
  <2> HIDE DEF s, x
  <2>6. tx_index[t] = Tx!Max({k \in 0..Len(s) : Tx!EndsAt(SubSeq(s, 1, k), Len(x))})
    BY <2>1, <2>2, <2>3, <2>5, LongestIsMax
  <2>. QED
    BY <2>6 DEF s, x
<1>2. ASSUME NEW n \in 1..Len(tx_taken), NEW t \in DOMAIN tx_targets
      PROVE  ~Tx!EndsAt(tx_targets[t], n)
  <2>1. n \in 0..Len(tx_taken)
    OBVIOUS
  <2>. QED
    BY <2>1, TargetTyped, EndsAtIs DEF NoneCame
<1>. QED
  BY <1>1, <1>2 DEF Tx!FindsTheFirst

\* The invariant gives what the calls promise.
LEMMA TextGives == TextInv => TakesWhatItFinds /\ Tx!TypeOK
<1> SUFFICES ASSUME TextInv PROVE TakesWhatItFinds /\ Tx!TypeOK
  OBVIOUS
<1>1. TextTypes /\ UntilInv /\ ParseInv /\ FindInv
  BY DEF TextInv
<1>2. Tx!FindsTheFirst
  <2>1. CASE tx_call # "find"
    BY <2>1 DEF Tx!FindsTheFirst
  <2>2. CASE tx_call = "find"
    <3>1. tx_pc \in {"loop", "returned"}
      BY <1>1, <2>2 DEF TextTypes
    <3>. QED
      BY <1>1, <2>2, <3>1, FindIsRight DEF FindInv
  <2>. QED
    BY <2>1, <2>2
<1>3. \A t \in DOMAIN tx_targets : tx_index[t] \in 0..Len(tx_targets[t])
  <2>1. CASE tx_call # "find"
    <3>1. tx_targets = <<>>
      BY <1>1, <2>1 DEF TextTypes
    <3>. QED
      BY <3>1
  <2>2. CASE tx_call = "find"
    BY <1>1, <2>2, TargetTyped DEF FindInv
  <2>. QED
    BY <2>1, <2>2
<1>4. Tx!TypeOK
  BY <1>1, <1>3 DEF TextTypes, Tx!TypeOK
<1>. QED
  BY <1>1, <1>2, <1>4 DEF UntilInv, ParseInv, TakesWhatItFinds

\* It holds when a call begins.
LEMMA TextStart == Tx!Init => TextInv
<1> SUFFICES ASSUME Tx!Init PROVE TextInv
  OBVIOUS
<1> USE TextConstants
<1>1. /\ tx_taken = <<>> /\ tx_buffer = <<>> /\ tx_value = 0 /\ tx_isNegative = FALSE
      /\ tx_gaveUp = FALSE /\ tx_index = [t \in DOMAIN tx_targets |-> 0] /\ tx_pc # "returned"
  BY DEF Tx!Init, Tx!FindInit, Tx!ParseInit, Tx!UntilInit
<1>2. /\ tx_text \in Seq(Chars) /\ tx_targets \in Seq(Seq(Chars)) /\ tx_length \in Nat
      /\ tx_ignore \in {Tx!Comma, Tx!None}
  BY DEF Tx!Init, Tx!FindInit, Tx!ParseInit, Tx!UntilInit
<1>3. \/ tx_call = "find" /\ tx_pc \in {"loop", "returned"}
      \/ tx_call = "parseInt" /\ tx_pc \in {"skip", "number", "returned"} /\ tx_targets = <<>>
      \/ tx_call = "readBytesUntil" /\ tx_pc \in {"loop", "returned"} /\ tx_targets = <<>>
  BY DEF Tx!Init, Tx!FindInit, Tx!ParseInit, Tx!UntilInit
<1>4. TextTypes
  <2>1. <<>> \in Seq(Chars) /\ Len(<<>>) = 0
    OBVIOUS
  <2>2. tx_isNegative \in BOOLEAN /\ tx_gaveUp \in BOOLEAN
    BY <1>1, Zenon
  <2>3. tx_index \in [DOMAIN tx_targets -> Nat]
    BY <1>1
  <2>4. tx_value \in -LongHalf..LongHalf - 1 /\ Len(tx_buffer) <= tx_length
    BY <1>1, <1>2, <2>1
  <2>5. tx_pc # "returned" => ~tx_gaveUp
    BY <1>1
  <2>. QED
    BY <1>1, <1>2, <1>3, <2>1, <2>2, <2>3, <2>4, <2>5, Zenon DEF TextTypes
<1>5. UntilInv
  BY <1>1 DEF UntilInv, Placed, Tx!Contains, Tx!TakesUntil
<1>6. ParseInv
  <2>1. ~Tx!Contains(<<>>, Tx!Minus)
    BY DEF Tx!Contains
  <2>2. Skipped(Len(tx_taken))
    BY <1>1 DEF Skipped
  <2>3. tx_call = "parseInt" => tx_pc = "skip"
    BY DEF Tx!Init, Tx!FindInit, Tx!ParseInit, Tx!UntilInit
  <2>4. tx_call = "parseInt" => Parsed
    BY <1>1, <2>1, <2>2, <2>3, WrittenNone DEF Parsed
  <2>. QED
    BY <1>1, <2>4 DEF ParseInv, Tx!ParsesTheNumber
<1>7. FindInv
  <2>1. ASSUME NEW t \in DOMAIN tx_targets
        PROVE  Longest(tx_taken, tx_targets[t], tx_index[t]) /\ tx_index[t] <= Len(tx_targets[t])
               /\ (tx_targets[t] # <<>> => tx_index[t] < Len(tx_targets[t]))
    <3> DEFINE s == tx_targets[t]
    <3>1. s \in Seq(Chars) /\ Len(s) \in Nat /\ tx_index[t] = 0
      BY <1>1, <1>4, TargetTyped
    <3> HIDE DEF s
    <3>2. Len(<<>>) = 0
      OBVIOUS
    <3>3. Longest(<<>>, s, 0)
      BY <3>1, <3>2 DEF Longest, Ends
    <3>4. s # <<>> => 0 < Len(s)
      BY <3>1
    <3>. QED
      BY <1>1, <3>1, <3>3, <3>4 DEF s
  <2>2. Tx!EmptyTargets = {} => \A t \in DOMAIN tx_targets : tx_targets[t] # <<>>
    BY DEF Tx!EmptyTargets
  <2>3. Searched
    BY <1>1, <2>1, <2>2 DEF Searched
  <2>4. NoneCame
    BY <1>1 DEF NoneCame
  <2>. QED
    BY <1>1, <2>1, <2>3, <2>4 DEF FindInv
<1>. QED
  BY <1>4, <1>5, <1>6, <1>7 DEF TextInv

\* The steps of readBytesUntil() keep it,
LEMMA UntilSteps ==
  ASSUME TextInv, NEW c \in Chars, Tx!UntilFull \/ Tx!UntilGivesUp \/ Tx!UntilStep(c)
  PROVE  TextInv'
<1>1. TextTypes /\ UntilInv
  BY DEF TextInv
<1>2. /\ tx_call = "readBytesUntil" /\ tx_call' = tx_call /\ tx_pc = "loop"
      /\ tx_targets' = tx_targets /\ tx_index' = tx_index /\ tx_lookahead' = tx_lookahead
      /\ tx_ignore' = tx_ignore /\ tx_isNegative' = tx_isNegative /\ tx_value' = tx_value
      /\ tx_terminator' = tx_terminator /\ tx_length' = tx_length
  BY DEF Tx!UntilFull, Tx!UntilGivesUp, Tx!UntilStep, Tx!Takes, Tx!GiveUp, Tx!search, Tx!number,
         Tx!block
<1>3. Placed /\ tx_taken \in Seq(Chars) /\ tx_buffer \in Seq(Chars) /\ ~tx_gaveUp
  BY <1>1, <1>2 DEF UntilInv, TextTypes
<1>4. ParseInv' /\ FindInv'
  BY <1>2 DEF ParseInv, FindInv, Tx!ParsesTheNumber
<1>5. CASE Tx!UntilFull \/ Tx!UntilGivesUp
  <2>1. /\ tx_pc' = "returned" /\ tx_result' = Len(tx_buffer) /\ tx_buffer' = tx_buffer
        /\ tx_taken' = tx_taken /\ tx_text' = tx_text /\ tx_gaveUp' \in BOOLEAN
        /\ (tx_gaveUp' \/ Len(tx_buffer) = tx_length)
    <3>1. CASE Tx!UntilFull
      <4>1. tx_gaveUp' = tx_gaveUp /\ tx_gaveUp \in BOOLEAN
        BY <1>1, <3>1, Zenon DEF Tx!UntilFull, TextTypes
      <4>. QED
        BY <3>1, <4>1 DEF Tx!UntilFull, Tx!Return, Tx!block
    <3>2. CASE Tx!UntilGivesUp
      <4>1. tx_gaveUp' = TRUE
        BY <3>2 DEF Tx!UntilGivesUp, Tx!GiveUp
      <4>2. tx_gaveUp' \in BOOLEAN
        BY <4>1, Zenon
      <4>. QED
        BY <3>2, <4>1, <4>2 DEF Tx!UntilGivesUp, Tx!GiveUp, Tx!Return, Tx!block
    <3>. QED
      BY <1>5, <3>1, <3>2
  <2>2. TextTypes'
    BY <1>1, <1>2, <2>1 DEF TextTypes
  <2>3. UntilInv'
    BY <1>2, <1>3, <2>1 DEF UntilInv, Placed, Tx!TakesUntil, Tx!Contains
  <2>. QED
    BY <1>4, <2>2, <2>3 DEF TextInv
<1>6. CASE Tx!UntilStep(c)
  <2>1. /\ Len(tx_buffer) < tx_length /\ Tx!Peeked(c) /\ Tx!Read /\ tx_gaveUp' = tx_gaveUp
        /\ IF c = tx_terminator
           THEN tx_pc' = "returned" /\ tx_result' = Len(tx_buffer) /\ tx_buffer' = tx_buffer
           ELSE tx_buffer' = Append(tx_buffer, c) /\ tx_pc' = tx_pc
    BY <1>6 DEF Tx!UntilStep, Tx!Return
  <2>2. tx_taken' = Append(tx_taken, c) /\ tx_taken' \in Seq(Chars) /\ tx_text' \in Seq(Chars)
    BY <1>1, <2>1, ReadStep
  <2>3. /\ Append(tx_buffer, c) \in Seq(Chars) /\ Len(Append(tx_buffer, c)) = Len(tx_buffer) + 1
        /\ Len(tx_buffer) \in Nat /\ tx_length \in Nat
    BY <1>1, <1>3 DEF TextTypes
  <2>4. tx_buffer' \in Seq(Chars) /\ Len(tx_buffer') <= tx_length
            /\ tx_pc' \in {"loop", "returned"}
    <3>1. CASE c = tx_terminator
      BY <1>1, <1>3, <2>1, <3>1 DEF TextTypes
    <3>2. CASE c # tx_terminator
      <4>1. tx_buffer' = Append(tx_buffer, c) /\ tx_pc' = "loop"
        BY <1>2, <2>1, <3>2
      <4>2. Len(tx_buffer') = Len(tx_buffer) + 1
        BY <2>3, <4>1
      <4>. QED
        BY <2>1, <2>3, <4>1, <4>2
    <3>. QED
      BY <3>1, <3>2
  <2>5. TextTypes'
    <3>1. (tx_gaveUp \in BOOLEAN)' /\ ~tx_gaveUp'
      BY <1>1, <1>3, <2>1, Zenon DEF TextTypes
    <3>. QED
      BY <1>1, <1>2, <2>2, <2>4, <3>1 DEF TextTypes
  <2>6. UntilInv'
    <3>1. CASE c = tx_terminator
      BY <1>2, <1>3, <2>1, <2>2, <3>1 DEF UntilInv, Placed, Tx!TakesUntil, Tx!Contains
    <3>2. CASE c # tx_terminator
      <4>1. tx_buffer' = Append(tx_buffer, c) /\ tx_pc' = "loop" /\ tx_taken' = tx_buffer'
        BY <1>2, <1>3, <2>1, <2>2, <3>2 DEF Placed
      <4>2. ~Tx!Contains(Append(tx_buffer, c), tx_terminator)
        BY <1>3, <3>2, ContainsAppend DEF Placed
      <4>3. ~Tx!Contains(tx_buffer', tx_terminator')
        BY <1>2, <4>1, <4>2
      <4>4. Placed'
        BY <4>1, <4>3 DEF Placed
      <4>5. Tx!TakesUntil'
        BY <4>1 DEF Tx!TakesUntil
      <4>. QED
        BY <4>4, <4>5 DEF UntilInv
    <3>. QED
      BY <3>1, <3>2
  <2>. QED
    BY <1>4, <2>5, <2>6 DEF TextInv
<1>. QED
  BY <1>5, <1>6

\* so does the return of parseInt(), with what it has of the number,
LEMMA ParseReturns ==
  ASSUME TextInv, tx_call = "parseInt", tx_pc \in {"skip", "number"}, tx_pc' = "returned",
         UNCHANGED <<tx_call, tx_text, Tx!search, Tx!number, Tx!block, tx_taken>>,
         tx_gaveUp' \in BOOLEAN, tx_result' = Tx!Signed,
         (tx_pc = "number" /\ ~tx_gaveUp' /\ tx_text # <<>>) =>
           ~Tx!IsDigit(Head(tx_text)) /\ Head(tx_text) # tx_ignore
  PROVE  TextInv'
<1>1. TextTypes /\ ParseInv /\ Parsed
  BY DEF TextInv, ParseInv
<1>2. /\ tx_call' = tx_call /\ tx_text' = tx_text /\ tx_targets' = tx_targets
      /\ tx_index' = tx_index
      /\ tx_lookahead' = tx_lookahead /\ tx_ignore' = tx_ignore /\ tx_isNegative' = tx_isNegative
      /\ tx_value' = tx_value /\ tx_terminator' = tx_terminator /\ tx_length' = tx_length
      /\ tx_buffer' = tx_buffer /\ tx_taken' = tx_taken
  BY DEF Tx!search, Tx!number, Tx!block
<1>3. TextTypes'
  BY <1>1, <1>2 DEF TextTypes
<1>4. UntilInv' /\ FindInv'
  BY <1>2 DEF UntilInv, FindInv, Tx!TakesUntil
<1>5. Len(tx_taken) \in Nat
  BY <1>1 DEF TextTypes
<1>6. \E k \in 0..Len(tx_taken) : Skipped(k) /\ OfNumber(k) /\ (tx_pc = "skip"
          => k = Len(tx_taken))
  <2>1. CASE tx_pc = "skip"
    <3>1. Skipped(Len(tx_taken)) /\ OfNumber(Len(tx_taken)) /\ Len(tx_taken) \in 0..Len(tx_taken)
      BY <1>1, <1>5, <2>1 DEF Parsed, OfNumber
    <3>. QED
      BY <3>1
  <2>2. CASE tx_pc = "number"
    BY <1>1, <2>2 DEF Parsed
  <2>. QED
    BY <2>1, <2>2
<1>7. PICK k \in 0..Len(tx_taken) : Skipped(k) /\ OfNumber(k) /\ (tx_pc = "skip"
          => k = Len(tx_taken))
  BY <1>6
<1>8. Tx!Written(tx_taken) < LongHalf =>
        tx_result' = (IF Tx!Contains(tx_taken, Tx!Minus) THEN -1 ELSE 1) * Tx!Written(tx_taken)
  <2> DEFINE v == Tx!Written(tx_taken)
             m == Tx!Contains(tx_taken, Tx!Minus)
  <2>1. (v < LongHalf => tx_value = v) /\ (tx_isNegative <=> m) /\ v \in Nat
    BY <1>1, WrittenTyped DEF Parsed, TextTypes
  <2> HIDE DEF v, m
  <2>2. tx_result' = IF tx_isNegative THEN Tx!Long(-tx_value) ELSE tx_value
    BY DEF Tx!Signed
  <2>3. ASSUME v < LongHalf PROVE tx_result' = (IF m THEN -1 ELSE 1) * v
    <3>1. tx_value = v /\ -v \in Int /\ -v \in -LongHalf..LongHalf - 1
      BY <2>1, <2>3, TextConstants
    <3>2. Tx!Long(-v) = -v
      BY <3>1, LongIs
    <3>. QED
      BY <2>1, <2>2, <3>1, <3>2
  <2>. QED
    BY <2>3 DEF v, m
<1>9. Len(tx_taken) > k /\ ~tx_gaveUp' /\ tx_text # <<>> =>
        ~Tx!IsDigit(Head(tx_text)) /\ Head(tx_text) # tx_ignore
  BY <1>5, <1>7
<1>10. Tx!ParsesTheNumber'
  <2>1. k \in 0..Len(tx_taken')
    BY <1>2
  <2>2. \A i \in 1..k : (~Tx!IsDigit(tx_taken[i]) /\ tx_taken[i] # Tx!Minus
            /\ Tx!Skips(tx_taken[i]))'
    BY <1>2, <1>7 DEF Skipped, Tx!Skips, Tx!IsDigit
  <2>3. \A i \in k + 1..Len(tx_taken') :
          Tx!IsDigit(tx_taken'[i]) \/ (i > k + 1 /\ tx_taken'[i] = tx_ignore')
              \/ (i = k + 1 /\ tx_taken'[i] = Tx!Minus)
    BY <1>2, <1>7 DEF OfNumber
  <2>4. (Tx!Written(tx_taken) < LongHalf =>
           tx_result = (IF Tx!Contains(tx_taken, Tx!Minus) THEN -1 ELSE 1) * Tx!Written(tx_taken))'
    <3>1. Tx!Contains(tx_taken, Tx!Minus)' <=> Tx!Contains(tx_taken, Tx!Minus)
      BY <1>2 DEF Tx!Contains
    <3>2. Tx!Written(tx_taken)' = Tx!Written(tx_taken)
      BY <1>2 DEF Tx!Written, Tx!FoldLeft, Tx!MapThenFoldSet, Tx!IsDigit, Tx!Max, Max
    <3>. QED
      BY <1>8, <3>1, <3>2
  <2>5. (Len(tx_taken) > k /\ ~tx_gaveUp /\ tx_text # <<>> =>
          ~Tx!IsDigit(Head(tx_text)) /\ Head(tx_text) # tx_ignore)'
    BY <1>2, <1>9 DEF Tx!IsDigit
  <2>. QED
    BY <2>1, <2>2, <2>3, <2>4, <2>5 DEF Tx!ParsesTheNumber
<1>11. ParseInv'
  BY <1>10 DEF ParseInv
<1>. QED
  BY <1>3, <1>4, <1>11 DEF TextInv

\* another character that it takes,
LEMMA ParseTakes ==
  ASSUME TextInv, tx_call = "parseInt", tx_pc \in {"skip", "number"}, NEW c \in Chars, Tx!Peeked(c),
         Tx!Read, UNCHANGED <<tx_call, Tx!search, tx_lookahead, tx_ignore, Tx!block, tx_gaveUp>>,
         tx_isNegative' = (tx_isNegative \/ c = Tx!Minus),
         tx_value' = IF Tx!IsDigit(c) THEN Tx!Long(tx_value * 10 + c) ELSE tx_value,
         tx_pc' \in {"skip", "number"},
         tx_pc' = "skip" => (tx_pc = "skip" /\ ~Tx!IsDigit(c) /\ c # Tx!Minus /\ Tx!Skips(c)),
         tx_pc' = "number" =>
            \/ tx_pc = "skip" /\ (c = Tx!Minus \/ Tx!IsDigit(c))
            \/ tx_pc = "number" /\ (Tx!IsDigit(c) \/ c = tx_ignore)
  PROVE  TextInv'
<1>1. TextTypes /\ ParseInv /\ Parsed
  BY DEF TextInv, ParseInv
<1>2. /\ tx_call' = tx_call /\ tx_targets' = tx_targets /\ tx_index' = tx_index
      /\ tx_lookahead' = tx_lookahead /\ tx_ignore' = tx_ignore
      /\ tx_terminator' = tx_terminator /\ tx_length' = tx_length
      /\ tx_buffer' = tx_buffer /\ tx_gaveUp' = tx_gaveUp
  BY DEF Tx!search, Tx!block
<1> DEFINE N == Len(tx_taken)
<1>3. /\ tx_taken' = Append(tx_taken, c) /\ tx_taken' \in Seq(Chars) /\ tx_text' \in Seq(Chars)
      /\ Len(tx_taken') = N + 1 /\ tx_taken'[N + 1] = c /\ N \in Nat
      /\ \A i \in 1..N : tx_taken'[i] = tx_taken[i]
  BY <1>1, ReadStep
<1>4. /\ tx_taken \in Seq(Chars) /\ tx_value \in -LongHalf..LongHalf - 1
      /\ tx_isNegative \in BOOLEAN
  BY <1>1 DEF TextTypes
<1>5. /\ Tx!Written(tx_taken) \in Nat
      /\ Tx!Written(Append(tx_taken, c)) = IF Tx!IsDigit(c) THEN Tx!Written(tx_taken) * 10 + c ELSE Tx!Written(tx_taken)
  BY <1>4, WrittenAppend
<1>6. Tx!Written(tx_taken)' = Tx!Written(Append(tx_taken, c))
  BY <1>3 DEF Tx!Written, Tx!FoldLeft, Tx!MapThenFoldSet, Tx!IsDigit, Tx!Max, Max
<1>7. Tx!Written(tx_taken) < LongHalf => tx_value = Tx!Written(tx_taken)
  BY <1>1 DEF Parsed
<1>8. /\ (Tx!Written(tx_taken) < LongHalf => tx_value = Tx!Written(tx_taken))'
      /\ tx_value' \in -LongHalf..LongHalf - 1
  <2> DEFINE v == Tx!Written(tx_taken)
             w == Tx!Written(Append(tx_taken, c))
  <2> HIDE DEF v, w
  <2>1. v \in Nat /\ w = IF Tx!IsDigit(c) THEN v * 10 + c ELSE v
    BY <1>5 DEF v, w
  <2>2. c \in Nat /\ tx_value * 10 + c \in Int /\ LongHalf \in Nat
    BY <1>4, TextConstants DEF Chars, Tx!Letter
  <2>3. tx_value' \in -LongHalf..LongHalf - 1
    BY <1>4, <2>2, LongIs
  <2>4. ASSUME w < LongHalf PROVE tx_value' = w
    <3>1. v < LongHalf /\ w \in Nat
      BY <2>1, <2>2, <2>4
    <3>2. tx_value = v
      BY <1>7, <3>1 DEF v
    <3>3. w \in -LongHalf..LongHalf - 1
      BY <2>2, <2>4, <3>1
    <3>4. CASE Tx!IsDigit(c)
      <4>1. tx_value * 10 + c = w
        BY <2>1, <3>2, <3>4
      <4>. QED
        BY <2>2, <3>3, <3>4, <4>1, LongIs
    <3>5. CASE ~Tx!IsDigit(c)
      BY <2>1, <3>2, <3>5
    <3>. QED
      BY <3>4, <3>5
  <2>5. (Tx!Written(tx_taken) < LongHalf => tx_value = Tx!Written(tx_taken))' <=>
          (w < LongHalf => tx_value' = w)
    BY <1>6 DEF w
  <2>. QED
    BY <2>3, <2>4, <2>5
<1>9. (tx_isNegative <=> Tx!Contains(tx_taken, Tx!Minus))'
  <2>1. Tx!Contains(tx_taken, Tx!Minus)' <=> Tx!Contains(Append(tx_taken, c), Tx!Minus)
    BY <1>3 DEF Tx!Contains
  <2>2. Tx!Contains(Append(tx_taken, c), Tx!Minus) <=> Tx!Contains(tx_taken, Tx!Minus)
            \/ Tx!Minus = c
    BY <1>4, ContainsAppend
  <2>3. tx_isNegative <=> Tx!Contains(tx_taken, Tx!Minus)
    BY <1>1 DEF Parsed
  <2>. QED
    BY <2>1, <2>2, <2>3
<1>10. \A n \in 0..N : Skipped(n) => Skipped(n)'
  <2>1. \A n \in 0..N : \A i \in 1..n : i \in 1..N
    BY <1>3
  <2>2. \A e : (Tx!IsDigit(e)' <=> Tx!IsDigit(e)) /\ (Tx!Skips(e)' <=> Tx!Skips(e))
    BY <1>2 DEF Tx!IsDigit, Tx!Skips
  <2>3. SUFFICES ASSUME NEW n \in 0..N, Skipped(n), NEW i \in 1..n

                 PROVE  (~Tx!IsDigit(tx_taken[i]) /\ tx_taken[i] # Tx!Minus /\ Tx!Skips(tx_taken[i]))'
    BY DEF Skipped
  <2>4. tx_taken'[i] = tx_taken[i]
    BY <1>3, <2>1
  <2>5. ~Tx!IsDigit(tx_taken[i]) /\ tx_taken[i] # Tx!Minus /\ Tx!Skips(tx_taken[i])
    BY <2>3 DEF Skipped
  <2>. QED
    BY <1>2, <2>4, <2>5 DEF Tx!IsDigit, Tx!Skips
<1>11. tx_pc' = "skip" => Skipped(Len(tx_taken))' /\ tx_value' = 0
  <2> SUFFICES ASSUME tx_pc' = "skip" PROVE Skipped(Len(tx_taken))' /\ tx_value' = 0
    OBVIOUS
  <2>1. tx_pc = "skip" /\ ~Tx!IsDigit(c) /\ c # Tx!Minus /\ Tx!Skips(c)
    OBVIOUS
  <2>2. Skipped(N) /\ tx_value = 0
    BY <1>1, <2>1 DEF Parsed
  <2>3. tx_value' = 0
    BY <2>1, <2>2
  <2>4. ASSUME NEW i \in 1..N + 1
        PROVE  (~Tx!IsDigit(tx_taken[i]) /\ tx_taken[i] # Tx!Minus /\ Tx!Skips(tx_taken[i]))'
    <3>1. CASE i = N + 1
      <4>1. tx_taken'[i] = c
        BY <1>3, <3>1
      <4>. QED
        BY <1>2, <2>1, <4>1 DEF Tx!IsDigit, Tx!Skips
    <3>2. CASE i # N + 1
      <4>1. i \in 1..N
        BY <1>3, <3>2
      <4>2. tx_taken'[i] = tx_taken[i]
        BY <1>3, <4>1
      <4>3. ~Tx!IsDigit(tx_taken[i]) /\ tx_taken[i] # Tx!Minus /\ Tx!Skips(tx_taken[i])
        BY <2>2, <4>1 DEF Skipped
      <4>. QED
        BY <1>2, <4>2, <4>3 DEF Tx!IsDigit, Tx!Skips
    <3>. QED
      BY <3>1, <3>2
  <2>5. Skipped(Len(tx_taken))'
    BY <1>3, <2>4 DEF Skipped
  <2>. QED
    BY <2>3, <2>5
<1>12. tx_pc' = "number" =>
         \E n \in 0..Len(tx_taken') : n < Len(tx_taken') /\ Skipped(n)' /\ OfNumber(n)'
  <2> SUFFICES ASSUME tx_pc' = "number"

               PROVE  \E n \in 0..Len(tx_taken') : n < Len(tx_taken') /\ Skipped(n)' /\ OfNumber(n)'
    OBVIOUS
  <2>1. CASE tx_pc = "skip"
    <3>1. Skipped(N) /\ (c = Tx!Minus \/ Tx!IsDigit(c))
      BY <1>1, <2>1 DEF Parsed
    <3>2. N \in 0..N /\ N \in 0..Len(tx_taken') /\ N < Len(tx_taken')
      BY <1>3
    <3>3. \A i \in N + 1..Len(tx_taken') : i = N + 1 /\ tx_taken'[i] = c
      <4>1. \A i \in N + 1..N + 1 : i = N + 1
        BY <1>3
      <4>. QED
        BY <1>3, <4>1
    <3> HIDE DEF N
    <3>4. ASSUME NEW i \in N + 1..Len(tx_taken')
          PROVE  Tx!IsDigit(tx_taken'[i]) \/ (i = N + 1 /\ tx_taken'[i] = Tx!Minus)
      BY <3>1, <3>3
    <3>5. PICK n \in 0..N : n = N
      BY <3>2
    <3>6. OfNumber(n)'
      BY <3>4, <3>5 DEF OfNumber
    <3>7. Skipped(n)'
      BY <1>10, <3>1, <3>5
    <3>. QED
      BY <3>2, <3>5, <3>6, <3>7
  <2>2. CASE tx_pc = "number"
    <3>1. PICK n \in 0..N : n < N /\ Skipped(n) /\ OfNumber(n)
      BY <1>1, <2>2 DEF Parsed
    <3>2. n \in 0..Len(tx_taken') /\ n < Len(tx_taken')
      BY <1>3, <3>1
    <3>3. Tx!IsDigit(c) \/ c = tx_ignore
      BY <2>2
    <3>4. ASSUME NEW i \in n + 1..N + 1
          PROVE  \/ Tx!IsDigit(tx_taken'[i])
                 \/ i > n + 1 /\ tx_taken'[i] = tx_ignore'
                 \/ i = n + 1 /\ tx_taken'[i] = Tx!Minus
      <4>1. CASE i = N + 1
        <5>1. tx_taken'[i] = c /\ i > n + 1
          BY <1>3, <3>1, <4>1
        <5>. QED
          BY <1>2, <3>3, <5>1
      <4>2. CASE i # N + 1
        <5>1. i \in n + 1..N /\ i \in 1..N
          <6>. HIDE DEF N
          <6>1. N \in Nat /\ n \in Nat /\ i \in Int
            BY <1>3, <3>1
          <6>. QED
            BY <4>2, <6>1
        <5>2. tx_taken'[i] = tx_taken[i]
          BY <1>3, <5>1
        <5>. QED
          BY <1>2, <3>1, <5>1, <5>2 DEF OfNumber
      <4>. QED
        BY <4>1, <4>2
    <3>5. OfNumber(n)'
      BY <1>3, <3>4 DEF OfNumber
    <3>6. Skipped(n)'
      BY <1>10, <3>1
    <3>. QED
      BY <3>2, <3>5, <3>6
  <2>. QED
    BY <2>1, <2>2
<1>13. Parsed'
  BY <1>8, <1>9, <1>11, <1>12 DEF Parsed
<1>14. ParseInv'
  BY <1>13 DEF ParseInv, Tx!ParsesTheNumber
<1>15. UntilInv' /\ FindInv'
  BY <1>2 DEF UntilInv, FindInv, Tx!TakesUntil
<1>16. TextTypes'
  <2>1. tx_isNegative' \in BOOLEAN
    BY Zenon
  <2>. QED
    BY <1>1, <1>2, <1>3, <1>8, <2>1 DEF TextTypes
<1>. QED
  BY <1>14, <1>15, <1>16 DEF TextInv

\* which are all its steps,
LEMMA ParseSteps ==
  ASSUME TextInv, NEW c \in Chars,
         Tx!Skip(c) \/ Tx!ParseStep(c) \/ Tx!ParseEnd(c) \/ Tx!ParseGivesUp
  PROVE  TextInv'
<1>1. TextTypes /\ ParseInv
  BY DEF TextInv
<1>2. tx_call = "parseInt" /\ tx_pc \in {"skip", "number"} /\ tx_gaveUp \in BOOLEAN
  BY <1>1 DEF Tx!Skip, Tx!ParseStep, Tx!ParseEnd, Tx!ParseGivesUp, Tx!Parses, TextTypes
<1>3. CASE Tx!Skip(c)
  <2>1. /\ tx_pc = "skip" /\ Tx!Peeked(c) /\ c # Tx!Minus /\ ~Tx!IsDigit(c)
        /\ UNCHANGED <<tx_call, Tx!search, Tx!number, Tx!block, tx_gaveUp>>
        /\ IF Tx!Skips(c) THEN Tx!Read /\ UNCHANGED <<tx_pc, tx_result>>
           ELSE tx_pc' = "returned" /\ tx_result' = 0 /\ UNCHANGED <<tx_text, tx_taken>>
    BY <1>3 DEF Tx!Skip, Tx!Parses, Tx!Return
  <2>2. CASE Tx!Skips(c)
    <3>1. UNCHANGED <<tx_call, Tx!search, tx_lookahead, tx_ignore, Tx!block, tx_gaveUp>>
      BY <2>1 DEF Tx!number
    <3>2. tx_isNegative' = (tx_isNegative \/ c = Tx!Minus)
      <4>1. tx_isNegative' = tx_isNegative /\ tx_isNegative \in BOOLEAN /\ c # Tx!Minus
        BY <1>1, <2>1 DEF Tx!number, TextTypes
      <4>. QED
        BY <4>1, Zenon
    <3>3. tx_value' = IF Tx!IsDigit(c) THEN Tx!Long(tx_value * 10 + c) ELSE tx_value
      BY <2>1 DEF Tx!number
    <3>4. tx_pc' = "skip" /\ Tx!Read
      BY <2>1, <2>2
    <3>. QED
      BY <1>2, <2>1, <2>2, <3>1, <3>2, <3>3, <3>4, ParseTakes
  <2>3. CASE ~Tx!Skips(c)
    <3>1. tx_pc' = "returned" /\ tx_result' = 0 /\ UNCHANGED <<tx_text, tx_taken>>
      BY <2>1, <2>3
    <3>2. tx_gaveUp' \in BOOLEAN
      BY <1>2, <2>1
    <3>3. tx_result' = Tx!Signed
      <4>1. Parsed
        BY <1>1, <1>2 DEF ParseInv
      <4>2. tx_value = 0
        BY <2>1, <4>1 DEF Parsed
      <4>3. -tx_value = 0 - tx_value
        BY <1>1, TextConstants DEF TextTypes
      <4>4. -tx_value = 0
        BY <4>2, <4>3
      <4>5. 0 \in Int /\ 0 \in -LongHalf..LongHalf - 1
        BY TextConstants
      <4>6. Tx!Long(0) = 0
        BY <4>5, LongIs
      <4>7. Tx!Signed = 0
        <5>1. CASE tx_isNegative
          BY <4>4, <4>6, <5>1, Zenon DEF Tx!Signed
        <5>2. CASE ~tx_isNegative
          BY <4>2, <5>2, Zenon DEF Tx!Signed
        <5>. QED
          BY <5>1, <5>2
      <4>. QED
        BY <3>1, <4>7
    <3>4. UNCHANGED <<tx_call, tx_text, Tx!search, Tx!number, Tx!block, tx_taken>>
      BY <2>1, <3>1
    <3>. QED
      BY <1>2, <2>1, <3>1, <3>2, <3>3, <3>4, ParseReturns
  <2>. QED
    BY <2>2, <2>3
<1>4. CASE Tx!ParseStep(c)
  BY <1>2, <1>4, ParseTakes DEF Tx!ParseStep, Tx!Parses
<1>5. CASE Tx!ParseEnd(c)
  <2>1. /\ tx_pc = "number" /\ Tx!Peeked(c) /\ ~Tx!IsDigit(c) /\ c # tx_ignore
        /\ tx_pc' = "returned" /\ tx_result' = Tx!Signed
        /\ UNCHANGED <<tx_call, tx_text, Tx!search, Tx!number, Tx!block, tx_taken, tx_gaveUp>>
    BY <1>5 DEF Tx!ParseEnd, Tx!Parses, Tx!Return
  <2>2. tx_gaveUp' \in BOOLEAN
    BY <1>2, <2>1
  <2>3. c = Head(tx_text)
    BY <2>1 DEF Tx!Peeked
  <2>4. UNCHANGED <<tx_call, tx_text, Tx!search, Tx!number, Tx!block, tx_taken>>
    BY <2>1
  <2>. QED
    BY <1>2, <2>1, <2>2, <2>3, <2>4, ParseReturns
<1>6. CASE Tx!ParseGivesUp
  <2>1. /\ tx_gaveUp' = TRUE /\ tx_pc' = "returned" /\ tx_result' = Tx!Signed
        /\ UNCHANGED <<tx_call, tx_text, Tx!search, Tx!number, Tx!block, tx_taken>>
    BY <1>6 DEF Tx!ParseGivesUp, Tx!GiveUp, Tx!Return
  <2>2. tx_gaveUp' \in BOOLEAN
    BY <2>1, Zenon
  <2>. QED
    BY <1>2, <2>1, <2>2, ParseReturns
<1>. QED
  BY <1>3, <1>4, <1>5, <1>6

\* and the steps of findMulti(): the first string that is complete is the first that came.
LEMMA FindSteps ==
  ASSUME TextInv, NEW c \in Chars, Tx!FindsEmpty \/ Tx!FindGivesUp \/ Tx!FindStep(c)
  PROVE  TextInv'
<1>1. TextTypes /\ FindInv
  BY DEF TextInv
<1>2. /\ tx_call = "find" /\ tx_call' = tx_call /\ tx_pc = "loop" /\ tx_targets' = tx_targets
      /\ tx_lookahead' = tx_lookahead /\ tx_ignore' = tx_ignore /\ tx_isNegative' = tx_isNegative
      /\ tx_value' = tx_value /\ tx_terminator' = tx_terminator /\ tx_length' = tx_length
      /\ tx_buffer' = tx_buffer
  BY DEF Tx!FindsEmpty, Tx!FindGivesUp, Tx!FindStep, Tx!Searches, Tx!GiveUp, Tx!search, Tx!number,
         Tx!block
<1>3. /\ Searched /\ NoneCame /\ tx_gaveUp = FALSE /\ tx_taken \in Seq(Chars)
      /\ \A t \in DOMAIN tx_targets : tx_index[t] <= Len(tx_targets[t])
  BY <1>1, <1>2 DEF FindInv, TextTypes
<1>4. UntilInv' /\ ParseInv'
  BY <1>2 DEF UntilInv, ParseInv, Tx!TakesUntil, Tx!ParsesTheNumber
<1>5. ASSUME tx_taken' = tx_taken, tx_text' = tx_text, tx_index' = tx_index, tx_pc' = "returned",
             tx_gaveUp' \in BOOLEAN,
             IF tx_result' = -1 THEN tx_gaveUp'
                 ELSE Tx!EmptyTargets # {} /\ tx_result' + 1 \in Tx!EmptyTargets
      PROVE  TextInv'
  <2>1. TextTypes'
    BY <1>1, <1>2, <1>5 DEF TextTypes
  <2>2. ASSUME NEW n \in 1..Len(tx_taken), NEW t \in DOMAIN tx_targets
        PROVE  ~Tx!EndsAt(tx_targets[t], n)'
    <3>1. n \in 0..Len(tx_taken) /\ tx_targets[t] \in Seq(Chars)
      BY <1>1, TargetTyped
    <3>2. ~Tx!EndsAt(tx_targets[t], n)
      BY <1>1, <1>3, <3>1, EndsAtIs DEF NoneCame
    <3>. QED
      BY <1>2, <1>5, <3>2 DEF Tx!EndsAt
  <2>3. ASSUME tx_result' # -1 PROVE Tx!EndsAt(tx_targets[tx_result + 1], Len(tx_taken))'
    <3>1. Tx!EmptyTargets # {} /\ tx_result' + 1 \in Tx!EmptyTargets
      BY <1>5, <2>3
    <3>2. tx_taken = <<>> /\ tx_targets[tx_result' + 1] = <<>>
      BY <1>3, <3>1 DEF Searched, Tx!EmptyTargets
    <3>3. SubSeq(<<>>, 0 - 0 + 1, 0) = <<>> /\ Len(<<>>) = 0
      OBVIOUS
    <3>. QED
      BY <1>2, <1>5, <3>2, <3>3 DEF Tx!EndsAt
  <2>4. Tx!FindsTheFirst'
    BY <1>2, <1>5, <2>2, <2>3 DEF Tx!FindsTheFirst
  <2>5. FindInv'
    BY <1>2, <1>3, <1>5, <2>4 DEF FindInv
  <2>. QED
    BY <1>4, <2>1, <2>5 DEF TextInv
<1>6. CASE Tx!FindsEmpty
  <2>1. /\ tx_taken' = tx_taken /\ tx_text' = tx_text /\ tx_index' = tx_index
        /\ tx_pc' = "returned"
        /\ tx_gaveUp' = tx_gaveUp /\ tx_result' = Tx!Min(Tx!EmptyTargets) - 1
        /\ Tx!EmptyTargets # {}
    BY <1>6 DEF Tx!FindsEmpty, Tx!Return, Tx!search
  <2>2. tx_gaveUp' \in BOOLEAN
    BY <1>3, <2>1, Zenon
  <2>3. Tx!EmptyTargets \in SUBSET (Nat \ {0})
    BY <1>1, TargetTyped DEF Tx!EmptyTargets
  <2> DEFINE E == Tx!EmptyTargets
             m == Tx!Min(E)
  <2>4. m \in E
    <3>1. E \in SUBSET Nat
      BY <2>3
    <3>. QED
      BY <2>1, <3>1, TextMin
  <2>5. m \in Nat \ {0}
    BY <2>3, <2>4
  <2>6. tx_result' = m - 1
    BY <2>1
  <2> HIDE DEF m, E
  <2>7. tx_result' # -1 /\ tx_result' + 1 = m
    BY <2>5, <2>6
  <2>. QED
    BY <1>5, <2>1, <2>2, <2>4, <2>7 DEF E
<1>7. CASE Tx!FindGivesUp
  <2>1. /\ tx_taken' = tx_taken /\ tx_text' = tx_text /\ tx_index' = tx_index
        /\ tx_pc' = "returned"
        /\ tx_gaveUp' = TRUE /\ tx_result' = -1
    BY <1>7 DEF Tx!FindGivesUp, Tx!GiveUp, Tx!Return, Tx!search
  <2>2. tx_gaveUp' \in BOOLEAN
    BY <2>1, Zenon
  <2>. QED
    BY <1>5, <2>1, <2>2
<1>8. CASE Tx!FindStep(c)
  <2> DEFINE next == [t \in DOMAIN tx_targets |-> Tx!Advanced(tx_targets[t], tx_index[t], c)]
             complete == {t \in DOMAIN tx_targets : next[t] = Len(tx_targets[t])}
             y == Append(tx_taken, c)
             N == Len(tx_taken)
  <2>1. /\ Tx!EmptyTargets = {} /\ Tx!Peeked(c) /\ Tx!Read /\ tx_gaveUp' = tx_gaveUp
        /\ IF complete = {}
           THEN tx_index' = next /\ tx_pc' = tx_pc
           ELSE /\ tx_pc' = "returned" /\ tx_result' = Tx!Min(complete) - 1
                /\ tx_index' = [t \in DOMAIN tx_targets |-> IF t <= Tx!Min(complete) THEN next[t] ELSE tx_index[t]]
    BY <1>8 DEF Tx!FindStep, Tx!Return
  <2>2. /\ tx_taken' = y /\ y \in Seq(Chars) /\ tx_text' \in Seq(Chars) /\ Len(y) = N + 1
        /\ N \in Nat
        /\ \A i \in 1..N : y[i] = tx_taken[i]
    BY <1>1, <2>1, ReadStep
  <2>3. ASSUME NEW t \in DOMAIN tx_targets

        PROVE  /\ tx_targets[t] \in Seq(Chars) /\ Len(tx_targets[t]) \in Nat \ {0} /\ t \in Nat \ {0}
               /\ tx_index[t] \in 0..Len(tx_targets[t]) /\ next[t] \in 0..Len(tx_targets[t])
               /\ Longest(y, tx_targets[t], next[t])
    <3>1. /\ tx_targets[t] \in Seq(Chars) /\ Len(tx_targets[t]) \in Nat /\ tx_index[t] \in Nat
          /\ t \in Nat \ {0}
      BY <1>1, TargetTyped
    <3>2. Longest(tx_taken, tx_targets[t], tx_index[t]) /\ tx_index[t] < Len(tx_targets[t])
      BY <1>3, <2>1 DEF Searched
    <3>3. next[t] = Tx!Advanced(tx_targets[t], tx_index[t], c)
      OBVIOUS
    <3>4. next[t] \in 0..Len(tx_targets[t]) /\ Longest(y, tx_targets[t], next[t])
      BY <1>3, <3>1, <3>2, <3>3, AdvancedIsLongest
    <3>. QED
      BY <3>1, <3>2, <3>4
  <2> HIDE DEF y, next
  <2>4. ASSUME NEW n \in 1..N, NEW t \in DOMAIN tx_targets
        PROVE  ~Came(y, tx_targets[t], n)
    <3>1. ~Came(tx_taken, tx_targets[t], n)
      BY <1>3 DEF NoneCame
    <3>2. ASSUME NEW j \in 1..Len(tx_targets[t]), Len(tx_targets[t]) <= n
          PROVE  y[n - Len(tx_targets[t]) + j] = tx_taken[n - Len(tx_targets[t]) + j]
      <4>1. n - Len(tx_targets[t]) + j \in 1..N
        BY <2>2, <2>3, <3>2
      <4>. QED
        BY <2>2, <4>1
    <3>. QED
      BY <3>1, <3>2 DEF Came
  <2>5. ASSUME NEW t \in DOMAIN tx_targets
        PROVE  Came(y, tx_targets[t], N + 1) <=> t \in complete
    <3> DEFINE s == tx_targets[t]
               L == Len(tx_targets[t])
    <3>1. Came(y, s, N + 1) <=> Ends(y, s, L)
      BY <2>2, <2>3 DEF Came, Ends
    <3>2. next[t] \in 0..L /\ L \in Nat /\ Longest(y, s, next[t]) /\ L \in 0..L
      BY <2>3
    <3> HIDE DEF s, L
    <3>3. ASSUME Ends(y, s, L) PROVE next[t] = L
      <4>1. L <= next[t]
        BY <3>2, <3>3 DEF Longest, L, s
      <4>. QED
        BY <3>2, <4>1
    <3>4. next[t] = L => Ends(y, s, L)
      BY <3>2 DEF Longest
    <3>. QED
      BY <3>1, <3>3, <3>4 DEF s, L
  <2>6. tx_index' \in [DOMAIN tx_targets -> Nat]
            /\ \A t \in DOMAIN tx_targets : tx_index'[t] <= Len(tx_targets[t])
    <3>1. next = [t \in DOMAIN tx_targets |-> next[t]]
      BY DEF next
    <3>2. \A t \in DOMAIN tx_targets : /\ next[t] \in Nat /\ next[t] <= Len(tx_targets[t])
                                       /\ tx_index[t] \in Nat /\ tx_index[t] <= Len(tx_targets[t])
      BY <2>3
    <3>3. CASE complete = {}
      BY <2>1, <3>1, <3>2, <3>3
    <3>4. CASE complete # {}
      <4> DEFINE m == Tx!Min(complete)
      <4>1. tx_index' = [t \in DOMAIN tx_targets |-> IF t <= m THEN next[t] ELSE tx_index[t]]
        BY <2>1, <3>4
      <4> HIDE DEF m
      <4>. QED
        BY <3>2, <4>1
    <3>. QED
      BY <3>3, <3>4
  <2>7. TextTypes'
    <3>1. tx_pc' \in {"loop", "returned"} /\ (tx_gaveUp' = FALSE) /\ (tx_gaveUp \in BOOLEAN)'
      <4>1. tx_gaveUp' = FALSE
        BY <1>3, <2>1
      <4>2. tx_gaveUp' \in BOOLEAN
        BY <4>1, Zenon
      <4>. QED
        BY <1>2, <2>1, <4>1, <4>2
    <3>. QED
      BY <1>1, <1>2, <2>2, <2>6, <3>1 DEF TextTypes
  <2>8. CASE complete = {}
    <3>1. tx_index' = next /\ tx_pc' = "loop"
      BY <1>2, <2>1, <2>8
    <3>2. ASSUME NEW t \in DOMAIN tx_targets PROVE next[t] < Len(tx_targets[t])
      <4>1. next[t] # Len(tx_targets[t])
        BY <2>8
      <4>. QED
        BY <2>3, <4>1
    <3>3. Tx!EmptyTargets' = {}
      BY <1>2, <2>1 DEF Tx!EmptyTargets
    <3>4. Searched'
      BY <1>2, <2>2, <2>3, <3>1, <3>2, <3>3 DEF Searched
    <3>5. NoneCame'
      <4>1. ASSUME NEW n \in 1..N + 1, NEW t \in DOMAIN tx_targets
            PROVE  ~Came(y, tx_targets[t], n)
        <5>1. n \in 1..N \/ n = N + 1
          BY <2>2
        <5>. QED
          BY <2>4, <2>5, <2>8, <5>1
      <4>. QED
        BY <1>2, <2>2, <4>1 DEF NoneCame
    <3>6. FindInv'
      BY <1>2, <2>6, <3>1, <3>4, <3>5 DEF FindInv
    <3>. QED
      BY <1>4, <2>7, <3>6 DEF TextInv
  <2>9. CASE complete # {}
    <3> DEFINE m == Tx!Min(complete)
    <3>1. tx_pc' = "returned" /\ tx_result' = m - 1
      BY <2>1, <2>9
    <3>2. complete \in SUBSET Nat
      BY <2>3
    <3>3. m \in complete /\ \A t \in complete : m <= t
      <4> HIDE DEF complete
      <4>. QED
        BY <2>9, <3>2, TextMin
    <3>4. m \in Nat \ {0} /\ m \in DOMAIN tx_targets
      BY <2>3, <3>3
    <3>5. ASSUME NEW n \in 1..N + 1, NEW t \in DOMAIN tx_targets
          PROVE  Tx!EndsAt(tx_targets[t], n)' <=> Came(y, tx_targets[t], n)
      <4>1. n \in 0..Len(y) /\ tx_targets[t] \in Seq(Chars)
        BY <2>2, <2>3
      <4>. QED
        BY <1>2, <2>2, <4>1, CameIs DEF Tx!EndsAt
    <3> HIDE DEF m, complete
    <3>6. ASSUME NEW n \in 1..N + 1, NEW t \in DOMAIN tx_targets, Tx!EndsAt(tx_targets[t], n)'
          PROVE  n = N + 1 /\ tx_result' <= t - 1
      <4>1. Came(y, tx_targets[t], n)
        BY <3>5, <3>6
      <4>2. n \in 1..N \/ n = N + 1
        BY <2>2
      <4>3. n = N + 1
        BY <2>4, <4>1, <4>2
      <4>4. t \in complete /\ t \in Nat
        BY <2>3, <2>5, <4>1, <4>3
      <4>5. m <= t
        BY <3>3, <4>4
      <4>. QED
        BY <3>1, <3>4, <4>3, <4>4, <4>5
    <3>7. tx_result' # -1 /\ tx_result' + 1 = m
      BY <3>1, <3>4
    <3>8. Len(tx_targets[m]) <= N + 1
              /\ SubSeq(y, N + 1 - Len(tx_targets[m]) + 1, N + 1) = tx_targets[m]
      <4>1. N + 1 \in 0..Len(y)
        BY <2>2
      <4>2. Came(y, tx_targets[m], N + 1) /\ tx_targets[m] \in Seq(Chars)
        BY <2>3, <2>5, <3>3, <3>4
      <4>3. PICK s \in Seq(Chars) : s = tx_targets[m]
        BY <4>2
      <4>4. PICK n \in 0..Len(y) : n = N + 1
        BY <4>1
      <4>5. Len(s) <= n /\ SubSeq(y, n - Len(s) + 1, n) = s
        <5>1. Came(y, s, n)
          BY <4>2, <4>3, <4>4
        <5>. QED
          BY <2>2, <5>1, CameIs
      <4>. QED
        BY <4>3, <4>4, <4>5
    <3>9. Tx!FindsTheFirst'
      <4>1. Len(tx_taken)' = N + 1
        BY <2>2
      <4>2. \A n \in 1..Len(tx_taken)' : \A t \in DOMAIN tx_targets' : Tx!EndsAt(tx_targets[t], n)' =>
               tx_pc' = "returned" /\ n = Len(tx_taken)' /\ tx_result' <= t - 1
        BY <1>2, <3>1, <3>6, <4>1
      <4>3. Tx!EndsAt(tx_targets[tx_result + 1], Len(tx_taken))'
        <5>. QED
          BY <1>2, <2>2, <3>7, <3>8 DEF Tx!EndsAt
      <4>. QED
        BY <3>1, <3>7, <4>2, <4>3 DEF Tx!FindsTheFirst
    <3>10. FindInv'
      BY <1>2, <2>6, <3>1, <3>9 DEF FindInv
    <3>. QED
      BY <1>4, <2>7, <3>10 DEF TextInv
  <2>. QED
    BY <2>8, <2>9
<1>. QED
  BY <1>6, <1>7, <1>8

\* Every step keeps the invariant.
LEMMA TextStep == TextInv /\ [Tx!Next]_(Tx!vars) => TextInv'
<1> SUFFICES ASSUME TextInv, [Tx!Next]_(Tx!vars) PROVE TextInv'
  OBVIOUS
<1>1. CASE UNCHANGED Tx!vars
  <2>1. /\ tx_call' = tx_call /\ tx_pc' = tx_pc /\ tx_text' = tx_text /\ tx_targets' = tx_targets
        /\ tx_index' = tx_index /\ tx_lookahead' = tx_lookahead /\ tx_ignore' = tx_ignore
        /\ tx_isNegative' = tx_isNegative /\ tx_value' = tx_value
        /\ tx_terminator' = tx_terminator
        /\ tx_length' = tx_length /\ tx_buffer' = tx_buffer /\ tx_result' = tx_result
        /\ tx_taken' = tx_taken /\ tx_gaveUp' = tx_gaveUp
    BY <1>1 DEF Tx!vars, Tx!search, Tx!number, Tx!block
  <2>2. TextTypes /\ UntilInv /\ ParseInv /\ FindInv
    BY DEF TextInv
  <2>3. TextTypes'
    BY <2>1, <2>2 DEF TextTypes
  <2>4. UntilInv'
    BY <2>1, <2>2 DEF UntilInv, Placed, Tx!TakesUntil, Tx!Contains
  <2>5. ParseInv'
    <3>1. Tx!Written(tx_taken)' = Tx!Written(tx_taken)
      BY <2>1 DEF Tx!Written, Tx!FoldLeft, Tx!MapThenFoldSet, Tx!IsDigit, Tx!Max, Max
    <3>2. Tx!Contains(tx_taken, Tx!Minus)' <=> Tx!Contains(tx_taken, Tx!Minus)
      BY <2>1 DEF Tx!Contains
    <3>3. \A n : (Skipped(n)' <=> Skipped(n)) /\ (OfNumber(n)' <=> OfNumber(n))
      BY <2>1 DEF Skipped, OfNumber, Tx!Skips, Tx!IsDigit
    <3>4. Parsed => Parsed'
      BY <2>1, <3>1, <3>2, <3>3 DEF Parsed
    <3>5. Tx!ParsesTheNumber'
      BY <2>1, <2>2, <3>1, <3>2 DEF ParseInv, Tx!ParsesTheNumber, Tx!Skips, Tx!IsDigit
    <3>. QED
      BY <2>1, <2>2, <3>4, <3>5 DEF ParseInv
  <2>6. FindInv'
    BY <2>1, <2>2 DEF FindInv, Searched, NoneCame, Tx!FindsTheFirst, Tx!EndsAt, Tx!EmptyTargets,
       Tx!Max
  <2>. QED
    BY <2>3, <2>4, <2>5, <2>6 DEF TextInv
<1>2. CASE Tx!Next
  <2>1. 0..Tx!Letter = Chars /\ 0 \in Chars
    BY DEF Chars, Tx!Letter
  <2>. QED
    BY <1>2, <2>1, UntilSteps, ParseSteps, FindSteps DEF Tx!Next
<1>. QED
  BY <1>1, <1>2

\* The inductive invariant of the searching and reading calls (api/Stream.cpp).
THEOREM TextInvariance == Tx!Spec => []TextInv
<1>1. Tx!Init => TextInv
  BY TextStart
<1>2. TextInv /\ [Tx!Next]_(Tx!vars) => TextInv'
  BY TextStep
<1>. QED
  BY <1>1, <1>2, PTL DEF Tx!Spec

\* An index of findMulti() stays in its string and a block in its buffer, for every text.
THEOREM TextTyped == Tx!Spec => []Tx!TypeOK
<1>1. TextInv => Tx!TypeOK
  BY TextGives
<1>. QED
  BY <1>1, TextInvariance, PTL

\* findMulti() stops at the first string that comes, parseInt() and readBytesUntil() take what
\* they answer with and no more, for every text, every list of strings and every length.
THEOREM TakesWhatIsFound == Tx!Spec => []TakesWhatItFinds
<1>1. TextInv => TakesWhatItFinds
  BY TextGives
<1>. QED
  BY <1>1, TextInvariance, PTL

-----------------------------------------------------------------------------
(* The String: replace() finds on the way forth what it replaces on the way back.  The     *)
(* rest of a text is what becomes of it from a place on; the invariant says that the text  *)
(* is what is left of the old one in front of the place, and the rest of it behind.        *)

\* One sequence behind the other, and a sequence that is so made.
Join(a, b) == a \o b
IsJoin(r, a, b) == r = Join(a, b)

\* Where f is found in t,
Found(f, t) ==
  {at \in Nat : at + Len(f) <= Len(t) /\ \A j \in 1..Len(f) : t[at + j] = f[j]}

\* and no end of f begins w, or is begun by it.
Differs(f, w) ==
  \A k \in 2..Len(f) : \E j \in 1..Len(f) - k + 1 : j <= Len(w) /\ f[k + j - 1] # w[j]

\* The rest of t from each place on, with w in the place of f.
Goes(g, f, w, t) ==
  /\ g[Len(t)] = <<>>
  /\ \A i \in 0..Len(t) - 1 :
       /\ i \in Found(f, t) => g[i] = w \o g[i + Len(f)]
       /\ i \notin Found(f, t) => g[i] = <<t[i + 1]>> \o g[i + 1]
IsRest(g, E, f, w, t) == (\A i \in 0..Len(t) : g[i] \in Seq(E)) /\ Goes(g, f, w, t)

\* What a call replaces, in what; and what comes of it.
Called(f, w, t) == <<f, w>> \in Replacements /\ t \in Seq(St!Character) /\ t # <<>>
RestOf(f, w, t) == CHOOSE g : IsRest(g, St!Character, f, w, t)

\* The occurrences before r, and whether they are even.
Passed(f, t, r) == {at \in Found(f, t) : at < r}
Evenly(f, t, r) == Cardinality(Passed(f, t, r)) % 2 = 0

\* Each part of the call.
OverInv(f, w, t, s, r) ==
  /\ Len(w) = Len(f) /\ Len(s) = Len(t) /\ r \in 0..Len(t)
  /\ IsJoin(RestOf(f, w, t)[0], SubSeq(s, 1, r), RestOf(f, w, t)[r])
  /\ \A i \in r + 1..Len(t) : s[i] = t[i]

CountInv(f, w, t, r, d, z) ==
  /\ Len(w) # Len(f) /\ r \in 0..Len(t) /\ z \in Nat
  /\ Len(w) > Len(f) =>
       /\ d = Len(w) - Len(f) /\ (z = Len(t) => r = 0)
       /\ z >= Len(t) /\ z + r + Len(RestOf(f, w, t)[r]) = Len(t) + Len(RestOf(f, w, t)[0])
  /\ Len(w) < Len(f) =>
       IF Evenly(f, t, r) THEN d = Len(w) - Len(f) /\ z = Len(t)
       ELSE d = Len(f) - Len(w) /\ z = Len(t) - (Len(f) - Len(w))

BackInv(f, w, t, s, p, c) ==
  /\ Len(w) # Len(f) /\ p \in 0..Len(t) /\ (p = Len(t) \/ p \in Found(f, t))
  /\ IsJoin(s, SubSeq(t, 1, p), RestOf(f, w, t)[p])
  /\ Len(w) < Len(f) => ~ Evenly(f, t, Len(t))
  /\ Len(w) > Len(f) => c >= Len(RestOf(f, w, t)[0])

DoneInv(f, w, t, s) ==
  s = IF Len(w) < Len(f) /\ Evenly(f, t, Len(t)) THEN t ELSE RestOf(f, w, t)[0]

\* The text fits the buffer.
Fits(s, c) ==
  s \in Seq(St!Character) /\ c \in Int /\ c >= -1 /\ Len(s) <= (IF c = -1 THEN 0 ELSE c)

\* What is local to a call.
StringTypes ==
  /\ st_pc \in {"idle", "overwrite", "count", "backward", "returned"}
  /\ st_diff \in Int /\ st_size \in Nat /\ st_readFrom \in Nat
  /\ st_index \in Int /\ st_index >= -1
  /\ st_pc # "returned" => ~ st_replaced

\* Where the call is, and what it did.
StringCall ==
  /\ st_pc # "idle" => Called(st_find, st_replace, st_before) /\ st_capacity >= 0
  /\ st_pc = "overwrite" => OverInv(st_find, st_replace, st_before, st_text, st_readFrom)
  /\ st_pc = "count" =>
       st_text = st_before /\ CountInv(st_find, st_replace, st_before, st_readFrom, st_diff, st_size)
  /\ st_pc = "backward" =>
       BackInv(st_find, st_replace, st_before, st_text, st_index + 1, st_capacity)
  /\ st_pc = "returned" /\ st_replaced => DoneInv(st_find, st_replace, st_before, st_text)

\* The inductive invariant of the String.
StringInv == Fits(st_text, st_capacity) /\ StringTypes /\ StringCall

-----------------------------------------------------------------------------
(* Sequences. *)

\* A part of a sequence,
LEMMA SliceIs ==
  ASSUME NEW E, NEW t \in Seq(E), NEW i \in Nat, NEW j \in Nat, i <= j, j <= Len(t)
  PROVE  /\ SubSeq(t, i + 1, j) \in Seq(E) /\ Len(SubSeq(t, i + 1, j)) = j - i
         /\ \A m \in 1..j - i : SubSeq(t, i + 1, j)[m] = t[i + m]
OBVIOUS

\* nothing joined,
LEMMA NothingJoined == ASSUME NEW E, NEW a \in Seq(E) PROVE <<>> \o a = a /\ a \o <<>> = a
OBVIOUS

\* a part in two, and the parts at the ends.
LEMMA SliceSplit ==
  ASSUME NEW E, NEW t \in Seq(E), NEW i \in Nat, NEW k \in Nat, NEW j \in Nat,
         i <= k, k <= j, j <= Len(t)
  PROVE  SubSeq(t, i + 1, j) = SubSeq(t, i + 1, k) \o SubSeq(t, k + 1, j)
OBVIOUS

LEMMA SliceNone ==
  ASSUME NEW E, NEW t \in Seq(E), NEW i \in Nat PROVE SubSeq(t, i + 1, i) = <<>>
OBVIOUS

LEMMA SliceAll == ASSUME NEW E, NEW t \in Seq(E) PROVE SubSeq(t, 1, Len(t)) = t
OBVIOUS

\* Two sequences of the same elements,
LEMMA SameSequence ==
  ASSUME NEW E, NEW a \in Seq(E), NEW b \in Seq(E), Len(a) = Len(b),
         \A m \in 1..Len(a) : a[m] = b[m]
  PROVE  a = b
OBVIOUS

\* and a part of one.
LEMMA SliceOne ==
  ASSUME NEW E, NEW t \in Seq(E), NEW i \in Nat, i < Len(t)
  PROVE  SubSeq(t, i + 1, i + 1) = <<t[i + 1]>> /\ <<t[i + 1]>> \in Seq(E)
<1>1. \A s \in Seq(E) : Len(s) = 1 => s = <<s[1]>>
  OBVIOUS
<1>2. PICK j \in Nat : j = i + 1 /\ i <= j /\ j <= Len(t) /\ j - i = 1
  OBVIOUS
<1>3. /\ SubSeq(t, i + 1, j) \in Seq(E) /\ Len(SubSeq(t, i + 1, j)) = j - i
      /\ \A m \in 1..j - i : SubSeq(t, i + 1, j)[m] = t[i + m]
  BY <1>2, SliceIs, Zenon
<1>4. SubSeq(t, i + 1, j) = <<SubSeq(t, i + 1, j)[1]>>
  BY <1>1, <1>2, <1>3, Zenon
<1>5. SubSeq(t, i + 1, j)[1] = t[i + 1]
  BY <1>2, <1>3
<1>. QED
  BY <1>2, <1>3, <1>4, <1>5, Zenon

\* What is joined,
LEMMA JoinTyped ==
  ASSUME NEW E, NEW a \in Seq(E), NEW b \in Seq(E)
  PROVE  Join(a, b) \in Seq(E) /\ Len(Join(a, b)) = Len(a) + Len(b)
BY DEF Join

\* three sequences,
LEMMA JoinThree ==
  ASSUME NEW E, NEW a \in Seq(E), NEW b \in Seq(E), NEW c \in Seq(E)
  PROVE  Join(Join(a, b), c) = Join(a, Join(b, c))
BY DEF Join

\* and four.
LEMMA JoinFour ==
  ASSUME NEW E, NEW a \in Seq(E), NEW b \in Seq(E), NEW c \in Seq(E), NEW d \in Seq(E)
  PROVE  /\ Join(Join(Join(a, b), c), d) = Join(a, Join(b, Join(c, d)))
         /\ Join(Join(Join(a, b), c), d) = Join(Join(a, b), Join(c, d))
<1>1. Join(a, b) \in Seq(E) /\ Join(c, d) \in Seq(E)
  BY JoinTyped
<1>2. Join(Join(Join(a, b), c), d) = Join(Join(a, b), Join(c, d))
  BY <1>1, JoinThree
<1>3. Join(Join(a, b), Join(c, d)) = Join(a, Join(b, Join(c, d)))
  BY <1>1, JoinThree
<1>. QED
  BY <1>2, <1>3

\* The parts of what is joined.
LEMMA JoinParts ==
  ASSUME NEW E, NEW a \in Seq(E), NEW b \in Seq(E), NEW c \in Seq(E), IsJoin(c, a, b)
  PROVE  /\ SubSeq(c, 1, Len(a)) = a /\ SubSeq(c, Len(a) + 1, Len(c)) = b
         /\ Len(c) = Len(a) + Len(b)
         /\ \A m \in 1..Len(a) : c[m] = a[m]
         /\ \A m \in 1..Len(b) : c[Len(a) + m] = b[m]
BY DEF IsJoin, Join

\* A part of a sequence is two, joined.
LEMMA SplitAt ==
  ASSUME NEW E, NEW t \in Seq(E), NEW i \in Nat, NEW k \in Nat, NEW j \in Nat,
         i <= k, k <= j, j <= Len(t)
  PROVE  IsJoin(SubSeq(t, i + 1, j), SubSeq(t, i + 1, k), SubSeq(t, k + 1, j))
BY DEF IsJoin, Join

-----------------------------------------------------------------------------
(* Occurrences, and the rest of a text. *)

\* Two occurrences have nothing in common.
LEMMA FoundApart ==
  ASSUME NEW E, NEW f \in Seq(E), NEW t \in Seq(E), Differs(f, f),
         NEW a \in Found(f, t), NEW b \in Found(f, t), a < b
  PROVE  a + Len(f) <= b
<1> DEFINE n == Len(f)
           k == b - a + 1
<1>1. /\ a \in Nat /\ b \in Nat /\ n \in Nat
      /\ \A j \in 1..n : t[a + j] = f[j] /\ t[b + j] = f[j]
  <2>1. n \in Nat
    OBVIOUS
  <2>. QED
    BY <2>1, Zenon DEF Found
<1>2. SUFFICES ASSUME b < a + n PROVE FALSE
  BY <1>1
<1>3. k \in 2..n
  BY <1>1, <1>2
<1>4. PICK j \in 1..n - k + 1 : j <= n /\ f[k + j - 1] # f[j]
  BY <1>3 DEF Differs
<1>5. k + j - 1 \in 1..n /\ a + (k + j - 1) = b + j /\ j \in 1..n
  BY <1>1, <1>3, <1>4
<1>. QED
  BY <1>1, <1>4, <1>5

\* Where nothing is found the text stays.
LEMMA NoneBetween ==
  ASSUME NEW E, NEW f \in Seq(E), NEW w \in Seq(E), NEW t \in Seq(E), NEW g, IsRest(g, E, f, w, t),
         NEW i \in Nat, NEW j \in Nat, i <= j, j <= Len(t),
         \A k \in i..j - 1 : k \notin Found(f, t)
  PROVE  IsJoin(g[i], SubSeq(t, i + 1, j), g[j])
<1>1. /\ Len(t) \in Nat /\ \A k \in 0..Len(t) : g[k] \in Seq(E)
      /\ \A k \in 0..Len(t) - 1 : k \notin Found(f, t) => g[k] = <<t[k + 1]>> \o g[k + 1]
  <2>1. Len(t) \in Nat
    OBVIOUS
  <2>. QED
    BY <2>1, Zenon DEF IsRest, Goes
<1> DEFINE P(d) == \A k \in Nat : k <= j /\ k >= i /\ k = j - d => g[k] = SubSeq(t, k + 1, j) \o g[j]
           T == {d \in Nat : P(d)}
<1>2. P(0)
  <2>1. SubSeq(t, j + 1, j) = <<>> /\ g[j] \in Seq(E) /\ j - 0 = j
    BY <1>1, SliceNone
  <2>2. <<>> \o g[j] = g[j]
    BY <2>1, NothingJoined
  <2>. QED
    BY <2>1, <2>2
<1>3. ASSUME NEW d \in Nat, P(d) PROVE P(d + 1)
  <2>1. SUFFICES ASSUME NEW k \in Nat, k <= j, k >= i, k = j - (d + 1)
                 PROVE g[k] = SubSeq(t, k + 1, j) \o g[j]
    OBVIOUS
  <2>. PICK m \in Nat : m = k + 1
    OBVIOUS
  <2>3. g[k] = <<t[m]>> \o g[m]
    <3>1. k \in i..j - 1 /\ k \in 0..Len(t) - 1
      BY <1>1, <2>1
    <3>. QED
      BY <1>1, <3>1
  <2>4. g[m] = SubSeq(t, m + 1, j) \o g[j]
    <3>1. m <= j /\ m >= i /\ m = j - d
      BY <2>1
    <3>. QED
      BY <1>3, <3>1, Zenon
  <2>. HIDE DEF P, T
  <2>5. SubSeq(t, m, j) = SubSeq(t, m, m) \o SubSeq(t, m + 1, j)
    <3>1. k \in Nat /\ m \in Nat /\ k <= m /\ m <= j /\ j <= Len(t) /\ k + 1 = m
      BY <2>1
    <3>. QED
      <4>1. SubSeq(t, k + 1, j) = SubSeq(t, k + 1, m) \o SubSeq(t, m + 1, j)
        BY <3>1, SliceSplit
      <4>. QED
        BY <3>1, <4>1, Zenon
  <2>6. SubSeq(t, m, m) = <<t[m]>> /\ <<t[m]>> \in Seq(E)
    <3>1. k < Len(t) /\ k + 1 = m
      BY <1>1, <2>1
    <3>. QED
      BY <3>1, SliceOne, Zenon
  <2>7. SubSeq(t, m + 1, j) \in Seq(E) /\ g[j] \in Seq(E)
    <3>1. m <= j /\ j <= Len(t) /\ j \in 0..Len(t)
      BY <1>1, <2>1
    <3>. QED
      BY <1>1, <3>1, SliceIs, Zenon
  <2>8. g[k] = SubSeq(t, m, j) \o g[j]
    <3>1. PICK a \in Seq(E), b \in Seq(E), c \in Seq(E) :
            a = <<t[m]>> /\ b = SubSeq(t, m + 1, j) /\ c = g[j]
      BY <2>6, <2>7, Zenon
    <3>2. g[k] = a \o (b \o c) /\ SubSeq(t, m, j) = a \o b
      BY <2>3, <2>4, <2>5, <2>6, <3>1, Zenon
    <3>3. a \o (b \o c) = (a \o b) \o c
      <4>1. a \in Seq(E) /\ b \in Seq(E) /\ c \in Seq(E)
        OBVIOUS
      <4>. QED
        BY ONLY <4>1, SMT
    <3>. QED
      BY <3>1, <3>2, <3>3, Zenon
  <2>. QED
    BY <2>8
<1> HIDE DEF P
<1>4. T = Nat
  <2>1. 0 \in T /\ \A d \in T : d + 1 \in T
    BY <1>2, <1>3
  <2>2. T \in SUBSET Nat
    OBVIOUS
  <2>. HIDE DEF T
  <2>. QED
    BY <2>1, <2>2, ByInduction, Zenon
<1>5. P(j - i)
  <2>1. j - i \in Nat
    OBVIOUS
  <2>. QED
    BY <1>4, <2>1
<1>. QED
  <2>1. i <= j /\ i >= i /\ i = j - (j - i)
    OBVIOUS
  <2>. QED
    BY <1>5, <2>1, Zenon DEF P, IsJoin, Join

\* There is one,
LEMMA RestExists ==
  ASSUME NEW E, NEW f \in Seq(E), f # <<>>, NEW w \in Seq(E), NEW t \in Seq(E)
  PROVE  \E g \in [0..Len(t) -> Seq(E)] : IsRest(g, E, f, w, t)
<1>0. PICK n \in Nat, l \in Nat : n = Len(t) /\ l = Len(f) /\ l >= 1
  OBVIOUS
<1> DEFINE Right(g, i) == /\ i \in Found(f, t) => g[i] = w \o g[i + l]
                          /\ i \notin Found(f, t) => g[i] = <<t[i + 1]>> \o g[i + 1]
           P(k) == k <= n => \E g \in [0..n -> Seq(E)] :
                     g[n] = <<>> /\ \A i \in 0..n - 1 : i >= n - k => Right(g, i)
           T == {k \in Nat : P(k)}
<1>1. P(0)
  <2>. DEFINE g == [i \in 0..n |-> <<>>]
  <2>1. g \in [0..n -> Seq(E)] /\ g[n] = <<>>
    OBVIOUS
  <2>2. \A i \in 0..n - 1 : ~(i >= n - 0)
    OBVIOUS
  <2>. HIDE DEF g
  <2>. QED
    BY <2>1, <2>2, Zenon
<1>2. ASSUME NEW k \in Nat, P(k) PROVE P(k + 1)
  <2>1. SUFFICES ASSUME k + 1 <= n
                 PROVE  \E g \in [0..n -> Seq(E)] :
                          g[n] = <<>> /\ \A i \in 0..n - 1 : i >= n - (k + 1) => Right(g, i)
    OBVIOUS
  <2>2. PICK g \in [0..n -> Seq(E)] :
          g[n] = <<>> /\ \A i \in 0..n - 1 : i >= n - k => Right(g, i)
    <3>1. k <= n
      BY <2>1
    <3>. QED
      BY <1>2, <3>1, Zenon
  <2>3. PICK m \in Nat : m = n - (k + 1) /\ m < n /\ m + 1 = n - k
    BY <2>1
  <2>. DEFINE V == IF m \in Found(f, t) THEN w \o g[m + l] ELSE <<t[m + 1]>> \o g[m + 1]
              h == [i \in 0..n |-> IF i = m THEN V ELSE g[i]]
  <2>4. V \in Seq(E)
    <3>1. m \in Found(f, t) => m + l \in 0..n
      BY <1>0, <2>3 DEF Found
    <3>2. m + 1 \in 0..n /\ <<t[m + 1]>> \in Seq(E)
      BY <1>0, <2>3, SliceOne
    <3>3. (m \in Found(f, t) => g[m + l] \in Seq(E)) /\ g[m + 1] \in Seq(E)
      BY <3>1, <3>2, Zenon
    <3>4. \A a, b \in Seq(E) : a \o b \in Seq(E)
      OBVIOUS
    <3>. QED
      BY <3>2, <3>3, <3>4
  <2>. HIDE DEF V
  <2>5. h \in [0..n -> Seq(E)] /\ h[n] = <<>> /\ h[m] = V
        /\ \A i \in 0..n : i > m => h[i] = g[i]
    BY <2>2, <2>3, <2>4, SMTT(30)
  <2>. HIDE DEF h
  <2>6. ASSUME NEW i \in 0..n - 1, i >= n - (k + 1) PROVE Right(h, i)
    <3>1. i \in Found(f, t) => i + l \in 0..n /\ i + l > m
      BY <1>0, <2>3, <2>6 DEF Found
    <3>2. i + 1 \in 0..n /\ i + 1 > m
      BY <2>3, <2>6
    <3>3. (i \in Found(f, t) => h[i + l] = g[i + l]) /\ h[i + 1] = g[i + 1]
      BY <2>5, <3>1, <3>2, Zenon
    <3>4. CASE i = m
      BY <2>5, <3>3, <3>4, Zenon DEF V
    <3>5. CASE i # m
      <4>1. i >= n - k /\ i > m /\ i \in 0..n
        BY <2>3, <2>6, <3>5
      <4>2. Right(g, i) /\ h[i] = g[i]
        BY <2>2, <2>5, <4>1, Zenon
      <4>. QED
        BY <3>3, <4>2, Zenon
    <3>. QED
      BY <3>4, <3>5
  <2>. QED
    BY <2>5, <2>6, Zenon
<1>. HIDE DEF P
<1>3. T = Nat
  <2>1. 0 \in T /\ \A d \in T : d + 1 \in T
    BY <1>1, <1>2
  <2>2. T \in SUBSET Nat
    OBVIOUS
  <2>. HIDE DEF T
  <2>. QED
    BY <2>1, <2>2, ByInduction, Zenon
<1>4. P(n) /\ n <= n
  BY <1>3
<1>5. PICK g \in [0..n -> Seq(E)] : g[n] = <<>> /\ \A i \in 0..n - 1 : i >= n - n => Right(g, i)
  BY <1>4, Zenon DEF P
<1>6. (\A i \in 0..n - 1 : i >= n - n) /\ \A i \in 0..n : g[i] \in Seq(E)
  BY <1>5
<1>7. \A i \in 0..n - 1 : Right(g, i)
  BY <1>5, <1>6, Zenon
<1>8. g \in [0..Len(t) -> Seq(E)] /\ IsRest(g, E, f, w, t)
  BY <1>0, <1>5, <1>6, <1>7, Zenon DEF IsRest, Goes
<1>. QED
  BY <1>8

\* A beginning, character by character.
LEMMA BeginsIs ==
  ASSUME NEW E, NEW s \in Seq(E), NEW u \in Seq(E)
  PROVE  Len(s) <= Len(u) /\ SubSeq(s, 1, Len(s)) = SubSeq(u, 1, Len(s))
           <=> Len(s) <= Len(u) /\ \A j \in 1..Len(s) : s[j] = u[j]
<1>1. SubSeq(s, 1, Len(s)) = s
  BY SliceAll
<1>2. ASSUME Len(s) <= Len(u)
      PROVE  s = SubSeq(u, 1, Len(s)) <=> \A j \in 1..Len(s) : s[j] = u[j]
  <2>1. PICK v \in Seq(E) : v = SubSeq(u, 1, Len(s)) /\ Len(v) = Len(s)
                            /\ \A j \in 1..Len(s) : v[j] = u[j]
    <3>1. /\ SubSeq(u, 1, Len(s)) \in Seq(E) /\ Len(SubSeq(u, 1, Len(s))) = Len(s)
          /\ \A j \in 1..Len(s) : SubSeq(u, 1, Len(s))[j] = u[j]
      BY <1>2
    <3>. QED
      BY <3>1, Zenon
  <2>2. ASSUME \A j \in 1..Len(s) : s[j] = u[j] PROVE s = v
    <3>1. \A j \in 1..Len(s) : s[j] = v[j]
      BY <2>1, <2>2
    <3>. QED
      BY ONLY <2>1, <3>1, SameSequence, s \in Seq(E), v \in Seq(E)
  <2>. QED
    BY <2>1, <2>2
<1>. QED
  BY <1>1, <1>2

\* What strstr() and lastIndexOf() find.
LEMMA OccurrencesAre ==
  ASSUME NEW E, st_find \in Seq(E), st_find # <<>>, NEW t \in Seq(E)
  PROVE  St!OccurrencesIn(t) = Found(st_find, t)
<1>1. PICK f \in Seq(E), n \in Nat, l \in Nat : f = st_find /\ n = Len(t) /\ l = Len(f) /\ l >= 1
  OBVIOUS
<1>2. ASSUME NEW at \in 0..n - 1
      PROVE  St!IsPrefix(f, SubSeq(t, at + 1, n)) <=>
               at + l <= n /\ \A j \in 1..l : t[at + j] = f[j]
  <2>1. PICK u \in Seq(E) : u = SubSeq(t, at + 1, n) /\ Len(u) = n - at
                            /\ \A j \in 1..n - at : u[j] = t[at + j]
    <3>1. at \in Nat /\ n \in Nat /\ t \in Seq(E) /\ at <= n /\ n <= Len(t)
      BY <1>1
    <3>2. /\ SubSeq(t, at + 1, n) \in Seq(E) /\ Len(SubSeq(t, at + 1, n)) = n - at
          /\ \A j \in 1..n - at : SubSeq(t, at + 1, n)[j] = t[at + j]
      BY ONLY <3>1, SliceIs
    <3>. QED
      BY <3>2, Zenon
  <2>2. St!IsPrefix(f, u) <=> l <= n - at /\ \A j \in 1..l : f[j] = u[j]
    <3>1. St!IsPrefix(f, u) <=> Len(f) <= Len(u) /\ SubSeq(f, 1, Len(f)) = SubSeq(u, 1, Len(f))
      BY DEF St!IsPrefix
    <3>2. Len(f) <= Len(u) /\ SubSeq(f, 1, Len(f)) = SubSeq(u, 1, Len(f))
            <=> Len(f) <= Len(u) /\ \A j \in 1..Len(f) : f[j] = u[j]
      BY BeginsIs, Zenon
    <3>. QED
      BY <1>1, <2>1, <3>1, <3>2, Zenon
  <2>3. l <= n - at => \A j \in 1..l : u[j] = t[at + j]
    BY <1>1, <2>1
  <2>4. l <= n - at <=> at + l <= n
    BY <1>1
  <2>. QED
    BY <2>1, <2>2, <2>3, <2>4, Zenon
<1>3. \A at \in Nat : at + l <= n => at \in 0..n - 1
  BY <1>1
<1>4. \A at \in 0..n - 1 : at \in Nat
  OBVIOUS
<1>. QED
  BY <1>1, <1>2, <1>3, <1>4, Zenon DEF St!OccurrencesIn, Found

\* No end of find begins w, nor the other way round.
LEMMA ApartDiffers ==
  ASSUME NEW E, NEW f \in Seq(E), NEW w \in Seq(E), St!Apart(f, w)
  PROVE  Differs(f, w)
<1>1. SUFFICES ASSUME NEW k \in 2..Len(f),
                      \A j \in 1..Len(f) - k + 1 : j <= Len(w) => f[k + j - 1] = w[j]
               PROVE  FALSE
  BY Zenon DEF Differs
<1>2. PICK l \in Nat, m \in Nat, e \in Seq(E) :
        /\ e = SubSeq(f, k, Len(f)) /\ l = Len(e) /\ m = Len(w) /\ l = Len(f) - k + 1
        /\ \A j \in 1..l : e[j] = f[k + j - 1]
  <2>1. PICK i \in Nat : i + 1 = k /\ i <= Len(f) /\ Len(f) \in Nat
    OBVIOUS
  <2>2. /\ SubSeq(f, i + 1, Len(f)) \in Seq(E) /\ Len(SubSeq(f, i + 1, Len(f))) = Len(f) - i
        /\ \A j \in 1..Len(f) - i : SubSeq(f, i + 1, Len(f))[j] = f[i + j]
    BY <2>1, SliceIs
  <2>3. Len(f) - i = Len(f) - k + 1 /\ Len(f) - i \in Nat /\ Len(w) \in Nat
    BY <2>1
  <2>4. \A j \in 1..Len(f) - i : i + j = k + j - 1
    BY <2>1
  <2>5. PICK l \in Nat, m \in Nat : l = Len(f) - i /\ m = Len(w)
    BY <2>3, Zenon
  <2>6. PICK e \in Seq(E) : e = SubSeq(f, i + 1, Len(f))
    BY <2>2, Zenon
  <2>7. /\ e = SubSeq(f, k, Len(f)) /\ l = Len(e) /\ m = Len(w) /\ l = Len(f) - k + 1
        /\ \A j \in 1..l : e[j] = f[k + j - 1]
    BY <2>1, <2>2, <2>3, <2>4, <2>5, <2>6, Zenon
  <2>. QED
    BY <2>7, Zenon
<1>3. ~St!IsPrefix(e, w) /\ ~St!IsPrefix(w, e)
  BY <1>2, Zenon DEF St!Apart
<1>4. \A j \in 1..l : j <= m => e[j] = w[j]
  BY <1>1, <1>2, Zenon
<1>5. CASE l <= m
  <2>0. \A j \in 1..l : j <= m
    BY <1>5
  <2>1. \A j \in 1..l : e[j] = w[j]
    BY <1>4, <2>0, Zenon
  <2>2. Len(e) <= Len(w) /\ SubSeq(e, 1, Len(e)) = SubSeq(w, 1, Len(e))
    BY <1>2, <1>5, <2>1, BeginsIs, Zenon
  <2>. QED
    BY <1>3, <2>2, Zenon DEF St!IsPrefix
<1>6. CASE m <= l
  <2>0. \A j \in 1..m : j \in 1..l /\ j <= m
    BY <1>6
  <2>1. \A j \in 1..m : w[j] = e[j]
    BY <1>4, <2>0, Zenon
  <2>2. Len(w) <= Len(e) /\ SubSeq(w, 1, Len(w)) = SubSeq(e, 1, Len(w))
    BY <1>2, <1>6, <2>1, BeginsIs, Zenon
  <2>. QED
    BY <1>3, <2>2, Zenon DEF St!IsPrefix
<1>. QED
  BY <1>5, <1>6

\* What is found behind r in two texts that are the same there.
LEMMA FoundBehind ==
  ASSUME NEW E, NEW f \in Seq(E), f # <<>>, NEW s \in Seq(E), NEW t \in Seq(E), Len(s) = Len(t),
         NEW r \in Nat, \A i \in r + 1..Len(t) : s[i] = t[i], NEW at \in Nat, at >= r
  PROVE  at \in Found(f, s) <=> at \in Found(f, t)
<1>1. PICK n \in Nat, l \in Nat : n = Len(t) /\ n = Len(s) /\ l = Len(f)
  OBVIOUS
<1>2. at + l <= n => \A j \in 1..l : s[at + j] = t[at + j]
  <2>1. at + l <= n => \A j \in 1..l : at + j \in r + 1..n
    OBVIOUS
  <2>. QED
    BY <1>1, <2>1, Zenon
<1>3. /\ at \in Found(f, s) <=> at + l <= n /\ \A j \in 1..l : s[at + j] = f[j]
      /\ at \in Found(f, t) <=> at + l <= n /\ \A j \in 1..l : t[at + j] = f[j]
  BY <1>1, Zenon DEF Found
<1>. QED
  BY <1>2, <1>3, Zenon

\* What is found before p, where behind p stands w in the place of f.
LEMMA FoundBefore ==
  ASSUME NEW E, NEW f \in Seq(E), NEW w \in Seq(E), NEW t \in Seq(E), NEW v \in Seq(E),
         f # <<>>, Differs(f, f), Differs(f, w), NEW p \in Nat, p <= Len(t),
         \/ p = Len(t) /\ v = <<>>
         \/ p \in Found(f, t) /\ \E x \in Seq(E) : v = w \o x,
         NEW at \in Nat, at < p
  PROVE  at \in Found(f, SubSeq(t, 1, p) \o v) <=> at \in Found(f, t) /\ at + Len(f) <= p
<1>0. PICK n \in Nat, l \in Nat, m \in Nat : n = Len(t) /\ l = Len(f) /\ m = Len(v)
  OBVIOUS
<1>1. PICK u \in Seq(E) :
        /\ u = SubSeq(t, 1, p) \o v
        /\ Len(u) = p + m /\ \A j \in 1..p : u[j] = t[j]
        /\ \A j \in 1..m : u[p + j] = v[j]
  <2>1. PICK a \in Seq(E) : a = SubSeq(t, 1, p) /\ Len(a) = p /\ \A j \in 1..p : a[j] = t[j]
    <3>1. /\ SubSeq(t, 1, p) \in Seq(E) /\ Len(SubSeq(t, 1, p)) = p
          /\ \A j \in 1..p : SubSeq(t, 1, p)[j] = t[j]
      BY SMTT(30)
    <3>. QED
      BY <3>1, Zenon
  <2>2. /\ a \o v \in Seq(E) /\ Len(a \o v) = Len(a) + Len(v)
        /\ \A j \in 1..Len(a) : (a \o v)[j] = a[j]
        /\ \A j \in 1..Len(v) : (a \o v)[Len(a) + j] = v[j]
    OBVIOUS
  <2>3. PICK b \in Seq(E) : b = a \o v
    BY <2>2, Zenon
  <2>5. /\ Len(b) = p + m /\ \A j \in 1..p : b[j] = t[j]
        /\ \A j \in 1..m : b[p + j] = v[j]
    BY <1>0, <2>1, <2>2, <2>3, Zenon
  <2>6. b = SubSeq(t, 1, p) \o v
    BY <2>1, <2>3, Zenon
  <2>. QED
    BY <2>5, <2>6, Zenon
<1>2. /\ at \in Found(f, u) <=> at + l <= p + m /\ \A j \in 1..l : u[at + j] = f[j]
      /\ at \in Found(f, t) <=> at + l <= n /\ \A j \in 1..l : t[at + j] = f[j]
  BY <1>0, <1>1, Zenon DEF Found
<1>3. CASE at + l <= p
  <2>0. p <= n
    BY <1>0, Zenon
  <2>1. at + l <= p + m /\ at + l <= n /\ \A j \in 1..l : at + j \in 1..p
    BY ONLY <1>3, <2>0, at \in Nat, l \in Nat, m \in Nat, n \in Nat, p \in Nat
  <2>. QED
    BY <1>0, <1>1, <1>2, <1>3, <2>1, Zenon
<1>4. ASSUME at + l > p, at \in Found(f, u) PROVE FALSE
  <2>1. m # 0
    BY <1>2, <1>4
  <2>2. PICK x \in Seq(E) : v = w \o x
    <3>1. v # <<>>
      BY <1>0, <1>1, <2>1
    <3>. QED
      BY <3>1, Zenon
  <2>3. Len(w) \in Nat /\ Len(w) <= m /\ \A j \in 1..Len(w) : v[j] = w[j]
    BY <1>0, <1>1, <2>2
  <2>4. PICK k \in 2..l : k = p - at + 1
    BY <1>4
  <2>5. PICK j \in 1..l - k + 1 : j <= Len(w) /\ f[k + j - 1] # w[j]
    BY <1>0, <1>1, <2>4, Zenon DEF Differs
  <2>6. k + j - 1 \in 1..l /\ at + (k + j - 1) = p + j /\ j \in 1..m /\ j \in 1..Len(w)
    BY <2>3, <2>4, <2>5
  <2>7. u[at + (k + j - 1)] = f[k + j - 1]
    BY <1>2, <1>4, <2>6, Zenon
  <2>. QED
    BY <1>0, <1>1, <2>3, <2>5, <2>6, <2>7, Zenon
<1>. QED
  BY <1>0, <1>1, <1>3, <1>4

\* It is only one,
SameUpTo(h, g, n) == \A i \in 0..n : h[i] = g[i]
LEMMA SameRest ==
  ASSUME NEW f, Len(f) \in Nat, Len(f) >= 1, NEW w, NEW t, Len(t) \in Nat,
         NEW g, NEW h, Goes(g, f, w, t), Goes(h, f, w, t)
  PROVE  SameUpTo(h, g, Len(t))
<1>1. PICK n \in Nat, l \in Nat : n = Len(t) /\ l = Len(f) /\ l >= 1
  OBVIOUS
<1>2. /\ g[n] = <<>> /\ h[n] = <<>>
      /\ \A i \in 0..n - 1 :
           /\ i \in Found(f, t) => g[i] = w \o g[i + l] /\ h[i] = w \o h[i + l]
           /\ i \notin Found(f, t) =>
                g[i] = <<t[i + 1]>> \o g[i + 1] /\ h[i] = <<t[i + 1]>> \o h[i + 1]
  BY <1>1, Zenon DEF Goes
<1> DEFINE P(d) == \A i \in 0..n : i >= n - d => h[i] = g[i]
           T == {d \in Nat : P(d)}
<1>3. P(0)
  <2>1. \A i \in 0..n : i >= n - 0 => i = n
    OBVIOUS
  <2>. QED
    BY <1>2, <2>1, Zenon
<1>4. ASSUME NEW d \in Nat, P(d) PROVE P(d + 1)
  <2>1. SUFFICES ASSUME NEW i \in 0..n, i >= n - (d + 1) PROVE h[i] = g[i]
    OBVIOUS
  <2>2. CASE i = n
    BY <1>2, <2>2, Zenon
  <2>3. CASE i # n
    <3>1. i \in 0..n - 1 /\ i + 1 \in 0..n /\ i + 1 >= n - d
      BY <2>1, <2>3
    <3>2. i \in Found(f, t) => i + l \in 0..n /\ i + l >= n - d
      BY <1>1, <2>1, <3>1 DEF Found
    <3>3. h[i + 1] = g[i + 1] /\ (i \in Found(f, t) => h[i + l] = g[i + l])
      BY <1>4, <3>1, <3>2, Zenon
    <3>. QED
      BY <1>2, <3>1, <3>3, Zenon
  <2>. QED
    BY <2>2, <2>3
<1>. HIDE DEF P
<1>5. T = Nat
  <2>1. 0 \in T /\ \A d \in T : d + 1 \in T
    BY <1>3, <1>4
  <2>2. T \in SUBSET Nat
    OBVIOUS
  <2>. HIDE DEF T
  <2>. QED
    BY <2>1, <2>2, ByInduction, Zenon
<1>6. P(n)
  BY <1>5
<1>7. \A i \in 0..n : i >= n - n
  OBVIOUS
<1>. QED
  BY <1>1, <1>6, <1>7, Zenon DEF P, SameUpTo

\* It is what the String's model replaces with.
LEMMA RestIs ==
  ASSUME NEW E, st_find \in Seq(E), st_find # <<>>, st_replace \in Seq(E), NEW t \in Seq(E)
  PROVE  IsRest(St!SubstitutedFrom(t), E, st_find, st_replace, t)
<1>1. PICK n \in Nat, l \in Nat, f \in Seq(E), w \in Seq(E) :
        n = Len(t) /\ l = Len(f) /\ l >= 1 /\ f = st_find /\ w = st_replace
  OBVIOUS
<1>2. St!OccurrencesIn(t) = Found(f, t)
  BY <1>1, OccurrencesAre, Zenon
<1> DEFINE Made(g) ==
             [i \in 0..Len(t) |->
                IF i = Len(t) THEN <<>>
                ELSE IF i \in St!OccurrencesIn(t) THEN st_replace \o g[i + Len(st_find)]
                ELSE <<t[i + 1]>> \o g[i + 1]]
<1>3. PICK g \in [0..n -> Seq(E)] : IsRest(g, E, f, w, t)
  BY <1>1, RestExists
<1>4. g = Made(g)
  <2>1. \A i \in 0..n : g[i] = Made(g)[i]
    <3>1. SUFFICES ASSUME NEW i \in 0..n PROVE g[i] = Made(g)[i]
      OBVIOUS
    <3>2. g[n] = <<>> /\ (i # n => i \in 0..n - 1)
      BY <1>1, <1>3 DEF IsRest, Goes
    <3>3. i # n => /\ i \in Found(f, t) => g[i] = w \o g[i + l]
                   /\ i \notin Found(f, t) => g[i] = <<t[i + 1]>> \o g[i + 1]
      BY <1>1, <1>3, <3>2, Zenon DEF IsRest, Goes
    <3>4. n \in 0..n
      OBVIOUS
    <3>5. Made(g)[i] = IF i = n THEN <<>>
                       ELSE IF i \in Found(f, t) THEN w \o g[i + l]
                       ELSE <<t[i + 1]>> \o g[i + 1]
      BY <1>1, <1>2, <3>1, Zenon
    <3>. HIDE DEF Made
    <3>6. CASE i = n
      BY <3>2, <3>5, <3>6, Zenon
    <3>7. CASE i # n /\ i \in Found(f, t)
      BY <3>3, <3>5, <3>7, Zenon
    <3>8. CASE i # n /\ i \notin Found(f, t)
      BY <3>3, <3>5, <3>8, Zenon
    <3>. QED
      BY <3>6, <3>7, <3>8, Zenon
  <2>. HIDE DEF Made
  <2>3. Made(g) = [i \in 0..n |-> Made(g)[i]]
    BY <1>1 DEF Made
  <2>4. g = [i \in 0..n |-> g[i]]
    OBVIOUS
  <2>. QED
    BY <2>1, <2>3, <2>4
<1>5. PICK h : h = St!SubstitutedFrom(t)
  OBVIOUS
<1>6. St!SubstitutedFrom(t) = CHOOSE x : x = Made(x)
  BY Zenon DEF St!SubstitutedFrom
<1>7. h = Made(h)
  <2>. HIDE DEF Made
  <2>. QED
    BY <1>4, <1>5, <1>6, Zenon
<1>8. \A i \in 0..n : h[i] = IF i = n THEN <<>>
                             ELSE IF i \in Found(f, t) THEN w \o h[i + l]
                             ELSE <<t[i + 1]>> \o h[i + 1]
  BY <1>1, <1>2, <1>7, Zenon
<1>9. Goes(h, f, w, t)
  <2>1. n \in 0..n /\ \A i \in 0..n - 1 : i \in 0..n /\ i # n
    OBVIOUS
  <2>. QED
    BY <1>1, <1>8, <2>1, Zenon DEF Goes
<1>10. \A i \in 0..n : h[i] = g[i]
  <2>1. Goes(g, f, w, t) /\ Len(f) \in Nat /\ Len(f) >= 1 /\ Len(t) \in Nat
    BY <1>1, <1>3 DEF IsRest
  <2>2. \A i \in 0..Len(t) : h[i] = g[i]
    <3>1. SameUpTo(h, g, Len(t))
      BY <1>9, <2>1, SameRest, Zenon
    <3>. QED
      BY <3>1 DEF SameUpTo
  <2>. QED
    BY <1>1, <2>2, Zenon
<1>11. IsRest(h, E, f, w, t)
  BY <1>1, <1>3, <1>9, <1>10, Zenon DEF IsRest
<1>. QED
  BY <1>1, <1>5, <1>11, Zenon

\* What comes of the text does not lose its length on the way back, if what comes is not shorter
\* than what goes.
LEMMA Growing ==
  ASSUME NEW E, NEW f \in Seq(E), f # <<>>, NEW w \in Seq(E), NEW t \in Seq(E), NEW g,
         IsRest(g, E, f, w, t), Differs(f, f), Len(w) >= Len(f),
         NEW at \in 0..Len(t), at = Len(t) \/ at \in Found(f, t), NEW j \in 0..at
  PROVE  at + Len(g[at]) <= j + Len(g[j])
<1>1. PICK n \in Nat, l \in Nat, m \in Nat :
        n = Len(t) /\ l = Len(f) /\ l >= 1 /\ m = Len(w) /\ m >= l
  OBVIOUS
<1>2. /\ \A i \in 0..n : g[i] \in Seq(E) /\ Len(g[i]) \in Nat
      /\ Len(g[n]) = 0
      /\ \A i \in 0..n - 1 :
           /\ i \in Found(f, t) => i + l \in 0..n /\ Len(g[i]) = m + Len(g[i + l])
           /\ i \notin Found(f, t) => Len(g[i]) = 1 + Len(g[i + 1])
  <2>1. /\ \A i \in 0..n : g[i] \in Seq(E)
        /\ g[n] = <<>>
        /\ \A i \in 0..n - 1 :
             /\ i \in Found(f, t) => g[i] = w \o g[i + l]
             /\ i \notin Found(f, t) => g[i] = <<t[i + 1]>> \o g[i + 1]
    BY <1>1, Zenon DEF IsRest, Goes
  <2>2. \A i \in 0..n : Len(g[i]) \in Nat
    BY <2>1
  <2>3. \A i \in 0..n - 1 : i \in Found(f, t) => i + l \in 0..n /\ Len(g[i]) = m + Len(g[i + l])
    <3>1. SUFFICES ASSUME NEW i \in 0..n - 1, i \in Found(f, t)
                   PROVE  i + l \in 0..n /\ Len(g[i]) = m + Len(g[i + l])
      OBVIOUS
    <3>2. i + l \in 0..n
      BY <1>1, <3>1 DEF Found
    <3>3. PICK x \in Seq(E) : x = g[i + l] /\ g[i] = w \o x
      BY <2>1, <3>1, <3>2, Zenon
    <3>. QED
      BY <1>1, <3>2, <3>3
  <2>4. \A i \in 0..n - 1 : i \notin Found(f, t) => Len(g[i]) = 1 + Len(g[i + 1])
    <3>1. SUFFICES ASSUME NEW i \in 0..n - 1, i \notin Found(f, t)
                   PROVE  Len(g[i]) = 1 + Len(g[i + 1])
      OBVIOUS
    <3>2. i + 1 \in 0..n /\ <<t[i + 1]>> \in Seq(E)
      BY <1>1, SliceOne
    <3>3. PICK x \in Seq(E), y \in Seq(E) : x = g[i + 1] /\ y = <<t[i + 1]>> /\ g[i] = y \o x
      BY <2>1, <3>1, <3>2, Zenon
    <3>. QED
      BY <3>2, <3>3
  <2>5. Len(g[n]) = 0
    BY <2>1
  <2>. QED
    BY <2>1, <2>2, <2>3, <2>4, <2>5
<1>3. PICK z \in Nat : z = at + Len(g[at])
  BY <1>1, <1>2
<1>4. \A i \in 0..at - 1 : i \in Found(f, t) => i + l <= at
  <2>1. SUFFICES ASSUME NEW i \in 0..at - 1, i \in Found(f, t) PROVE i + l <= at
    OBVIOUS
  <2>2. CASE at = Len(t)
    BY <1>1, <2>1, <2>2 DEF Found
  <2>3. CASE at \in Found(f, t)
    <3>1. i < at
      OBVIOUS
    <3>. QED
      BY <1>1, <2>1, <2>3, <3>1, FoundApart, Zenon
  <2>. QED
    BY <2>2, <2>3
<1> DEFINE P(d) == \A i \in 0..at : i >= at - d => i + Len(g[i]) >= z
           T == {d \in Nat : P(d)}
<1>5. P(0)
  <2>1. \A i \in 0..at : i >= at - 0 => i = at
    BY <1>1
  <2>2. z >= z
    OBVIOUS
  <2>. QED
    BY <1>3, <2>1, <2>2, Zenon
<1>6. ASSUME NEW d \in Nat, P(d) PROVE P(d + 1)
  <2>1. SUFFICES ASSUME NEW i \in 0..at, i >= at - (d + 1) PROVE i + Len(g[i]) >= z
    OBVIOUS
  <2>2. CASE i = at
    <3>1. z >= z
      OBVIOUS
    <3>. QED
      BY <1>3, <2>2, <3>1, Zenon
  <2>3. CASE i # at /\ i \in Found(f, t)
    <3>1. i \in 0..n - 1 /\ i \in 0..at - 1
      BY <1>1, <2>3
    <3>2. i + l \in 0..n /\ Len(g[i]) = m + Len(g[i + l])
      BY <1>2, <2>3, <3>1, Zenon
    <3>3. (i + l) + Len(g[i + l]) >= z
      <4>1. i + l >= at - d /\ i + l \in 0..at
        BY <1>1, <1>4, <2>1, <2>3, <3>1
      <4>. QED
        BY <1>6, <4>1, Zenon
    <3>4. PICK x \in Nat : x = Len(g[i + l])
      BY <1>2, <3>2, Zenon
    <3>5. Len(g[i]) = m + x /\ (i + l) + x >= z
      BY <3>2, <3>3, <3>4, Zenon
    <3>. QED
      BY <1>1, <3>5
  <2>4. CASE i # at /\ i \notin Found(f, t)
    <3>1. i \in 0..n - 1 /\ i + 1 \in 0..n /\ i + 1 \in 0..at /\ i + 1 >= at - d
      BY <1>1, <2>1, <2>4
    <3>2. Len(g[i]) = 1 + Len(g[i + 1])
      BY <1>2, <2>4, <3>1, Zenon
    <3>3. (i + 1) + Len(g[i + 1]) >= z
      BY <1>6, <3>1, Zenon
    <3>4. PICK x \in Nat : x = Len(g[i + 1])
      BY <1>2, <3>1, Zenon
    <3>5. Len(g[i]) = 1 + x /\ (i + 1) + x >= z
      BY <3>2, <3>3, <3>4, Zenon
    <3>. QED
      BY <3>5
  <2>. QED
    BY <2>2, <2>3, <2>4
<1>. HIDE DEF P
<1>7. T = Nat
  <2>1. 0 \in T /\ \A d \in T : d + 1 \in T
    BY <1>5, <1>6
  <2>2. T \in SUBSET Nat
    OBVIOUS
  <2>. HIDE DEF T
  <2>. QED
    BY <2>1, <2>2, ByInduction, Zenon
<1>8. P(at)
  BY <1>1, <1>7
<1>9. j >= at - at
  BY <1>1
<1>10. j + Len(g[j]) >= z
  BY <1>8, <1>9, Zenon DEF P
<1>11. j \in 0..n
  BY <1>1
<1>12. PICK x \in Nat : x = Len(g[j])
  BY <1>2, <1>11, Zenon
<1>13. z <= j + x
  BY <1>10, <1>12
<1>. QED
  BY <1>3, <1>12, <1>13, Zenon

\* A step of the rest of a text.
LEMMA RestStep ==
  ASSUME NEW E, NEW f \in Seq(E), f # <<>>, NEW w \in Seq(E), NEW t \in Seq(E), NEW g,
         IsRest(g, E, f, w, t), NEW q \in Found(f, t)
  PROVE  /\ q \in Nat /\ q \in 0..Len(t) - 1 /\ q + Len(f) \in 0..Len(t)
         /\ g[q + Len(f)] \in Seq(E) /\ IsJoin(g[q], w, g[q + Len(f)])
<1>1. PICK n \in Nat, l \in Nat : n = Len(t) /\ l = Len(f) /\ l >= 1
  OBVIOUS
<1>2. q \in Nat /\ q \in 0..n - 1 /\ q + l \in 0..n
  BY <1>1 DEF Found
<1>3. g[q + l] \in Seq(E) /\ g[q] = w \o g[q + l]
  BY <1>1, <1>2, Zenon DEF IsRest, Goes
<1>. QED
  BY <1>1, <1>2, <1>3, Zenon DEF IsJoin, Join

\* The way back: behind p the text is done.
LEMMA BackText ==
  ASSUME NEW E, NEW f \in Seq(E), f # <<>>, NEW w \in Seq(E), NEW t \in Seq(E), NEW g,
         IsRest(g, E, f, w, t), Differs(f, f), Differs(f, w),
         NEW p \in 0..Len(t), p = Len(t) \/ p \in Found(f, t),
         NEW u \in Seq(E), IsJoin(u, SubSeq(t, 1, p), g[p])
  PROVE  /\ \A at \in Nat : at < p => (at \in Found(f, u) <=> at \in Found(f, t))
         /\ (\A at \in Found(f, t) : ~ (at < p)) => u = g[0]
         /\ \A q \in Found(f, t) : q < p /\ (\A at \in Found(f, t) : at < p => at <= q) =>
              IsJoin(Join(Join(SubSeq(u, 1, q), w), SubSeq(u, q + Len(f) + 1, Len(u))),
                     SubSeq(t, 1, q), g[q])
<1>1. PICK n \in Nat, l \in Nat : n = Len(t) /\ l = Len(f) /\ l >= 1
  OBVIOUS
<1>2. PICK v \in Seq(E) : v = g[p]
  BY Zenon DEF IsRest
<1>3. \/ p = Len(t) /\ v = <<>>
      \/ p \in Found(f, t) /\ \E x \in Seq(E) : v = w \o x
  <2>1. CASE p = Len(t)
    BY <1>2, <2>1, Zenon DEF IsRest, Goes
  <2>2. CASE p \in Found(f, t)
    <3>1. g[p + Len(f)] \in Seq(E) /\ IsJoin(g[p], w, g[p + Len(f)])
      BY <2>2, RestStep, Zenon
    <3>. QED
      BY <1>2, <2>2, <3>1, Zenon DEF IsJoin, Join
  <2>. QED
    BY <2>1, <2>2
<1>4. ASSUME NEW at \in Nat, at < p PROVE at \in Found(f, u) <=> at \in Found(f, t)
  <2>1. at \in Found(f, t) => at + Len(f) <= p
    <3>1. CASE p = Len(t)
      BY <3>1 DEF Found
    <3>2. CASE p \in Found(f, t)
      BY <1>4, <3>2, FoundApart, Zenon
    <3>. QED
      BY <3>1, <3>2
  <2>2. p \in Nat /\ p <= Len(t)
    BY <1>1
  <2>3. at \in Found(f, SubSeq(t, 1, p) \o v) <=> at \in Found(f, t) /\ at + Len(f) <= p
    BY <1>3, <1>4, <2>2, FoundBefore
  <2>. QED
    BY <1>2, <2>1, <2>3, Zenon DEF IsJoin, Join
<1>5. ASSUME \A at \in Found(f, t) : ~ (at < p) PROVE u = g[0]
  <2>1. p \in Nat /\ 0 \in Nat /\ 0 <= p /\ p <= Len(t) /\ \A k \in 0..p - 1 : k < p
    BY <1>1
  <2>2. \A k \in 0..p - 1 : k \notin Found(f, t)
    BY <1>5, <2>1, Zenon
  <2>3. IsJoin(g[0], SubSeq(t, 0 + 1, p), g[p])
    BY <2>1, <2>2, NoneBetween, Zenon
  <2>4. 0 + 1 = 1
    OBVIOUS
  <2>. QED
    BY <2>3, <2>4, Zenon DEF IsJoin
<1>6. ASSUME NEW q \in Found(f, t), q < p, \A at \in Found(f, t) : at < p => at <= q
      PROVE  IsJoin(Join(Join(SubSeq(u, 1, q), w), SubSeq(u, q + Len(f) + 1, Len(u))),
                    SubSeq(t, 1, q), g[q])
  <2>1. q \in Nat /\ p \in Nat /\ p <= n /\ q \in 0..n - 1 /\ q <= p /\ 0 <= q /\ 0 \in Nat
    BY <1>1, <1>6 DEF Found
  <2>2. PICK b \in Nat : b = q + l
    BY <1>1, <2>1
  <2>3. b <= p /\ q <= b
    <3>1. CASE p = Len(t)
      BY <1>1, <2>1, <2>2, <3>1 DEF Found
    <3>2. CASE p \in Found(f, t)
      <4>1. b <= p
        BY <1>1, <1>6, <2>2, <3>2, FoundApart, Zenon
      <4>2. q <= b
        BY <1>1, <2>1, <2>2
      <4>. QED
        BY <4>1, <4>2
    <3>. QED
      BY <3>1, <3>2
  <2>4. IsJoin(g[q], w, g[b])
    BY <1>1, <2>2, RestStep, Zenon
  <2>5. \A k \in b..p - 1 : k < p /\ ~ (k <= q)
    BY <1>1, <2>1, <2>2
  <2>6. \A k \in b..p - 1 : k \notin Found(f, t)
    BY <1>6, <2>5, Zenon
  <2>7. IsJoin(g[b], SubSeq(t, b + 1, p), g[p])
    BY <1>1, <2>1, <2>3, <2>6, NoneBetween, Zenon
  <2>8. PICK x \in Seq(E), y \in Seq(E), z \in Seq(E) :
          /\ x = SubSeq(t, 1, q) /\ y = SubSeq(t, q + 1, b) /\ z = SubSeq(t, b + 1, p)
          /\ Len(x) = q /\ Len(Join(x, y)) = b
          /\ SubSeq(t, 1, p) = Join(Join(x, y), z)
    <3>1. /\ IsJoin(SubSeq(t, 0 + 1, b), SubSeq(t, 0 + 1, q), SubSeq(t, q + 1, b))
          /\ IsJoin(SubSeq(t, 0 + 1, p), SubSeq(t, 0 + 1, b), SubSeq(t, b + 1, p))
      <4>1. 0 <= b /\ b <= Len(t) /\ p <= Len(t)
        BY <1>1, <2>1, <2>3
      <4>. QED
        BY <2>1, <2>3, <4>1, SplitAt, Zenon
    <3>2. /\ SubSeq(t, 1, q) \in Seq(E) /\ Len(SubSeq(t, 1, q)) = q
          /\ SubSeq(t, 1, b) \in Seq(E) /\ Len(SubSeq(t, 1, b)) = b
          /\ SubSeq(t, q + 1, b) \in Seq(E) /\ SubSeq(t, b + 1, p) \in Seq(E)
      BY <1>1, <2>1, <2>3
    <3>3. 0 + 1 = 1
      OBVIOUS
    <3>4. /\ SubSeq(t, 1, b) = Join(SubSeq(t, 1, q), SubSeq(t, q + 1, b))
          /\ SubSeq(t, 1, p) = Join(SubSeq(t, 1, b), SubSeq(t, b + 1, p))
      BY <3>1, <3>3, Zenon DEF IsJoin
    <3>. QED
      BY <3>2, <3>4, Zenon
  <2>9. u = Join(Join(Join(x, y), z), v)
    BY <1>2, <2>8, Zenon DEF IsJoin
  <2>10. /\ IsJoin(u, x, Join(y, Join(z, v))) /\ IsJoin(u, Join(x, y), Join(z, v))
         /\ Join(y, Join(z, v)) \in Seq(E) /\ Join(x, y) \in Seq(E) /\ Join(z, v) \in Seq(E)
    <3>1. /\ Join(Join(Join(x, y), z), v) = Join(x, Join(y, Join(z, v)))
          /\ Join(Join(Join(x, y), z), v) = Join(Join(x, y), Join(z, v))
      BY JoinFour
    <3>2. Join(z, v) \in Seq(E) /\ Join(x, y) \in Seq(E)
      BY JoinTyped
    <3>3. Join(y, Join(z, v)) \in Seq(E)
      BY <3>2, JoinTyped
    <3>. QED
      BY <2>9, <3>1, <3>2, <3>3, Zenon DEF IsJoin
  <2>11. SubSeq(u, 1, q) = x /\ SubSeq(u, b + 1, Len(u)) = Join(z, v)
    <3>1. PICK d \in Seq(E), c \in Seq(E), h \in Seq(E) :
            d = Join(y, Join(z, v)) /\ c = Join(x, y) /\ h = Join(z, v)
      BY <2>10, Zenon
    <3>2. IsJoin(u, x, d) /\ IsJoin(u, c, h)
      BY <2>10, <3>1, Zenon
    <3>3. SubSeq(u, 1, Len(x)) = x /\ SubSeq(u, Len(c) + 1, Len(u)) = h
      BY <3>2, JoinParts
    <3>. QED
      BY <2>8, <3>1, <3>3, Zenon
  <2>12. g[q] = Join(w, Join(z, v))
    BY <1>2, <2>4, <2>7, <2>8, Zenon DEF IsJoin
  <2>13. Join(Join(x, w), Join(z, v)) = Join(x, Join(w, Join(z, v)))
    BY <2>10, JoinThree
  <2>. QED
    BY <1>1, <2>2, <2>8, <2>11, <2>12, <2>13, Zenon DEF IsJoin
<1>. QED
  BY <1>4, <1>5, <1>6

\* Two texts with the same characters from r on.
LEMMA SameSlice ==
  ASSUME NEW E, NEW s \in Seq(E), NEW t \in Seq(E), Len(s) = Len(t), NEW r \in Nat, NEW j \in Nat,
         r <= j, j <= Len(t), \A i \in r + 1..Len(t) : s[i] = t[i]
  PROVE  SubSeq(s, r + 1, j) = SubSeq(t, r + 1, j)
<1>1. /\ SubSeq(s, r + 1, j) \in Seq(E) /\ Len(SubSeq(s, r + 1, j)) = j - r
      /\ SubSeq(t, r + 1, j) \in Seq(E) /\ Len(SubSeq(t, r + 1, j)) = j - r
      /\ \A m \in 1..j - r : SubSeq(s, r + 1, j)[m] = s[r + m]
      /\ \A m \in 1..j - r : SubSeq(t, r + 1, j)[m] = t[r + m]
  <2>1. SubSeq(s, r + 1, j) \in Seq(E) /\ Len(SubSeq(s, r + 1, j)) = j - r
    OBVIOUS
  <2>2. SubSeq(t, r + 1, j) \in Seq(E) /\ Len(SubSeq(t, r + 1, j)) = j - r
    OBVIOUS
  <2>3. \A m \in 1..j - r : SubSeq(s, r + 1, j)[m] = s[r + m]
    OBVIOUS
  <2>4. \A m \in 1..j - r : SubSeq(t, r + 1, j)[m] = t[r + m]
    OBVIOUS
  <2>. QED
    BY <2>1, <2>2, <2>3, <2>4, Zenon
<1>2. \A m \in 1..j - r : s[r + m] = t[r + m]
  <2>1. \A m \in 1..j - r : r + m \in r + 1..Len(t)
    OBVIOUS
  <2>. QED
    BY <2>1, Zenon
<1>3. PICK a \in Seq(E), b \in Seq(E) : a = SubSeq(s, r + 1, j) /\ b = SubSeq(t, r + 1, j)
  BY <1>1, Zenon
<1>4. Len(a) = Len(b) /\ \A m \in 1..Len(a) : a[m] = b[m]
  BY <1>1, <1>2, <1>3, Zenon
<1>5. a = b
  BY ONLY <1>4, a \in Seq(E), b \in Seq(E), SameSequence
<1>. QED
  BY <1>3, <1>5, Zenon

\* An occurrence is overwritten.
LEMMA OverText ==
  ASSUME NEW E, NEW f \in Seq(E), f # <<>>, NEW w \in Seq(E), Len(w) = Len(f),
         NEW t \in Seq(E), NEW g, IsRest(g, E, f, w, t),
         NEW s \in Seq(E), Len(s) = Len(t), NEW r \in 0..Len(t),
         IsJoin(g[0], SubSeq(s, 1, r), g[r]), \A i \in r + 1..Len(t) : s[i] = t[i]
  PROVE  /\ (\A at \in Found(f, t) : ~ (at >= r)) => s = g[0]
         /\ \A q \in Found(f, t) : \A u :
              /\ q >= r /\ \A at \in Found(f, t) : at >= r => q <= at
              /\ u = Join(Join(SubSeq(s, 1, q), w), SubSeq(s, q + Len(f) + 1, Len(s)))
              => /\ u \in Seq(E) /\ Len(u) = Len(t) /\ q + Len(w) \in 0..Len(t)
                 /\ IsJoin(g[0], SubSeq(u, 1, q + Len(w)), g[q + Len(w)])
                 /\ \A i \in q + Len(w) + 1..Len(t) : u[i] = t[i]
<1>1. PICK n \in Nat, l \in Nat : n = Len(t) /\ n = Len(s) /\ l = Len(f) /\ l = Len(w) /\ l >= 1
                                  /\ r \in Nat /\ r <= n /\ n <= n /\ 0 <= r /\ 0 \in Nat
  OBVIOUS
<1>2. ASSUME \A at \in Found(f, t) : ~ (at >= r) PROVE s = g[0]
  <2>1. \A k \in r..n - 1 : k >= r
    BY <1>1
  <2>2. \A k \in r..n - 1 : k \notin Found(f, t)
    BY <1>2, <2>1, Zenon
  <2>3. IsJoin(g[r], SubSeq(t, r + 1, n), g[n])
    BY <1>1, <2>2, NoneBetween, Zenon
  <2>4. g[n] = <<>>
    BY <1>1, Zenon DEF IsRest, Goes
  <2>5. SubSeq(s, r + 1, n) = SubSeq(t, r + 1, n) /\ SubSeq(t, r + 1, n) \in Seq(E)
    BY <1>1, SameSlice
  <2>6. Join(SubSeq(t, r + 1, n), <<>>) = SubSeq(t, r + 1, n)
    BY <2>5 DEF Join
  <2>7. IsJoin(SubSeq(s, 0 + 1, n), SubSeq(s, 0 + 1, r), SubSeq(s, r + 1, n))
    BY <1>1, SplitAt, Zenon
  <2>8. 0 + 1 = 1 /\ SubSeq(s, 1, n) = s
    BY <1>1
  <2>9. s = Join(SubSeq(s, 1, r), SubSeq(t, r + 1, n))
    BY <2>5, <2>7, <2>8, Zenon DEF IsJoin
  <2>. QED
    BY <2>3, <2>4, <2>6, <2>9, Zenon DEF IsJoin
<1>3. ASSUME NEW q \in Found(f, t), q >= r, \A at \in Found(f, t) : at >= r => q <= at,
             NEW u, u = Join(Join(SubSeq(s, 1, q), w), SubSeq(s, q + Len(f) + 1, Len(s)))
      PROVE  /\ u \in Seq(E) /\ Len(u) = Len(t) /\ q + Len(w) \in 0..Len(t)
             /\ IsJoin(g[0], SubSeq(u, 1, q + Len(w)), g[q + Len(w)])
             /\ \A i \in q + Len(w) + 1..Len(t) : u[i] = t[i]
  <2>1. q \in Nat /\ q \in 0..n - 1 /\ q + l \in 0..n /\ q <= n /\ r <= q
    BY <1>1, <1>3 DEF Found
  <2>2. PICK b \in Nat : b = q + l /\ b <= n /\ n - b \in Nat /\ b + (n - b) = n /\ b \in 0..n
                         /\ r <= b
    BY <1>1, <2>1
  <2>3. PICK x \in Seq(E), z \in Seq(E) :
          /\ x = SubSeq(s, 1, q) /\ z = SubSeq(s, b + 1, n)
          /\ Len(x) = q /\ Len(z) = n - b /\ \A i \in 1..n - b : z[i] = s[b + i]
    <3>1. SubSeq(s, 1, q) \in Seq(E) /\ Len(SubSeq(s, 1, q)) = q
      BY <1>1, <2>1
    <3>2. /\ SubSeq(s, b + 1, n) \in Seq(E) /\ Len(SubSeq(s, b + 1, n)) = n - b
          /\ \A i \in 1..n - b : SubSeq(s, b + 1, n)[i] = s[b + i]
      <4>1. s \in Seq(E) /\ b \in Nat /\ n \in Nat /\ b <= n /\ n <= Len(s)
        BY <1>1, <2>2
      <4>. QED
        BY ONLY <4>1, SliceIs
    <3>. QED
      BY <3>1, <3>2, Zenon
  <2>4. PICK a \in Seq(E) : a = Join(x, w) /\ Len(a) = b
    <3>1. Join(x, w) \in Seq(E) /\ Len(Join(x, w)) = Len(x) + Len(w)
      BY JoinTyped
    <3>. QED
      BY <1>1, <2>2, <2>3, <3>1, Zenon
  <2>5. IsJoin(u, a, z)
    BY <1>1, <1>3, <2>2, <2>3, <2>4, Zenon DEF IsJoin
  <2>6. u \in Seq(E)
    <3>1. Join(a, z) \in Seq(E)
      BY JoinTyped
    <3>. QED
      BY <2>5, <3>1, Zenon DEF IsJoin
  <2>7. /\ SubSeq(u, 1, b) = a /\ Len(u) = n
        /\ \A i \in 1..n - b : u[b + i] = z[i]
    <3>1. /\ SubSeq(u, 1, Len(a)) = a /\ Len(u) = Len(a) + Len(z)
          /\ \A m \in 1..Len(z) : u[Len(a) + m] = z[m]
      BY <2>5, <2>6, JoinParts
    <3>. QED
      BY <2>2, <2>3, <2>4, <3>1, Zenon
  <2>8. \A i \in b + 1..n : u[i] = t[i]
    <3>1. SUFFICES ASSUME NEW i \in b + 1..n PROVE u[i] = t[i]
      OBVIOUS
    <3>2. i - b \in 1..n - b /\ b + (i - b) = i /\ i \in r + 1..n
      <4>1. b \in Nat /\ n \in Nat /\ r \in Nat /\ r <= b /\ i \in b + 1..n
        BY <1>1, <2>2
      <4>. QED
        BY ONLY <4>1
    <3>3. u[i] = z[i - b] /\ z[i - b] = s[i] /\ s[i] = t[i]
      BY <1>1, <2>3, <2>7, <3>2, Zenon
    <3>. QED
      BY <3>3, Zenon
  <2>9. IsJoin(g[0], SubSeq(u, 1, b), g[b])
    <3>1. \A k \in r..q - 1 : k >= r /\ ~ (q <= k)
      BY <1>1, <2>1
    <3>2. \A k \in r..q - 1 : k \notin Found(f, t)
      BY <1>3, <3>1, Zenon
    <3>3. IsJoin(g[r], SubSeq(t, r + 1, q), g[q])
      BY <1>1, <2>1, <3>2, NoneBetween, Zenon
    <3>4. SubSeq(s, r + 1, q) = SubSeq(t, r + 1, q)
      BY <1>1, <2>1, SameSlice
    <3>5. IsJoin(g[q], w, g[b]) /\ g[b] \in Seq(E)
      BY <1>1, <2>2, RestStep, Zenon
    <3>6. IsJoin(SubSeq(s, 0 + 1, q), SubSeq(s, 0 + 1, r), SubSeq(s, r + 1, q))
      BY <1>1, <2>1, SplitAt, Zenon
    <3>7. 0 + 1 = 1
      OBVIOUS
    <3>8. PICK c \in Seq(E), y \in Seq(E), v \in Seq(E) :
            c = SubSeq(s, 1, r) /\ y = SubSeq(s, r + 1, q) /\ v = g[b]
      <4>1. SubSeq(s, 1, r) \in Seq(E) /\ SubSeq(s, r + 1, q) \in Seq(E)
        BY <1>1, <2>1
      <4>. QED
        BY <3>5, <4>1, Zenon
    <3>9. a = Join(Join(c, y), w)
      BY <2>3, <2>4, <3>6, <3>7, <3>8, Zenon DEF IsJoin
    <3>10. g[0] = Join(c, Join(y, Join(w, v)))
      BY <3>3, <3>4, <3>5, <3>8, Zenon DEF IsJoin
    <3>11. Join(Join(Join(c, y), w), v) = Join(c, Join(y, Join(w, v)))
      BY JoinFour
    <3>. QED
      BY <2>7, <3>8, <3>9, <3>10, <3>11, Zenon DEF IsJoin
  <2>. QED
    BY <1>1, <2>2, <2>6, <2>7, <2>8, <2>9, Zenon
<1>. QED
  BY <1>2, <1>3

\* What is known of a call.
LEMMA CalledIs ==
  ASSUME NEW f, NEW w, NEW t, Called(f, w, t)
  PROVE  /\ f \in Seq(St!Character) /\ w \in Seq(St!Character) /\ t \in Seq(St!Character)
         /\ f # <<>> /\ t # <<>> /\ Differs(f, f) /\ Differs(f, w)
         /\ IsRest(RestOf(f, w, t), St!Character, f, w, t)
<1>1. /\ f \in Seq(St!Character) /\ w \in Seq(St!Character) /\ t \in Seq(St!Character)
      /\ f # <<>> /\ t # <<>> /\ St!Apart(f, f) /\ St!Apart(f, w)
  <2>1. <<f, w>> \in Seq(St!Character) \X Seq(St!Character)
    BY LibrariesAssumption DEF St!StringsAssumption, Called
  <2>2. \A p \in Replacements : p[1] # <<>> /\ St!Apart(p[1], p[1]) /\ St!Apart(p[1], p[2])
    BY LibrariesAssumption DEF St!StringsAssumption
  <2>3. <<f, w>> \in Replacements /\ <<f, w>>[1] = f /\ <<f, w>>[2] = w
    BY DEF Called
  <2>4. f # <<>> /\ St!Apart(f, f) /\ St!Apart(f, w)
    BY <2>2, <2>3, Zenon
  <2>5. f \in Seq(St!Character) /\ w \in Seq(St!Character)
    BY <2>1
  <2>. QED
    BY <2>4, <2>5, Zenon DEF Called
<1>2. Differs(f, f) /\ Differs(f, w)
  BY <1>1, ApartDiffers, Zenon
<1>3. \E g : IsRest(g, St!Character, f, w, t)
  BY <1>1, RestExists, Zenon
<1>4. IsRest(RestOf(f, w, t), St!Character, f, w, t)
  BY <1>3, Zenon DEF RestOf
<1>. QED
  BY <1>1, <1>2, <1>4, Zenon

\* The text, with every occurrence replaced.
LEMMA SubstitutedIs ==
  ASSUME NEW t, Called(st_find, st_replace, t)
  PROVE  St!Substituted(t) = RestOf(st_find, st_replace, t)[0]
<1>1. /\ st_find \in Seq(St!Character) /\ st_replace \in Seq(St!Character) /\ t \in Seq(St!Character)
      /\ st_find # <<>>
      /\ IsRest(RestOf(st_find, st_replace, t), St!Character, st_find, st_replace, t)
  BY CalledIs, Zenon
<1>2. IsRest(St!SubstitutedFrom(t), St!Character, st_find, st_replace, t)
  BY <1>1, RestIs, Zenon
<1>3. Len(st_find) \in Nat /\ Len(st_find) >= 1 /\ Len(t) \in Nat
  BY <1>1
<1>4. SameUpTo(St!SubstitutedFrom(t), RestOf(st_find, st_replace, t), Len(t))
  BY <1>1, <1>2, <1>3, SameRest, Zenon DEF IsRest
<1>5. 0 \in 0..Len(t)
  BY <1>3
<1>. QED
  BY <1>4, <1>5, Zenon DEF SameUpTo, St!Substituted

\* Max and Min of the community modules, for places in a text.
LEMMA StringMax ==
  ASSUME NEW n \in Nat, NEW T \in SUBSET (0..n), T # {}
  PROVE  St!Max(T) \in T /\ \A y \in T : y <= St!Max(T)
<1>1. Tx!Max(T) \in T /\ \A y \in T : Tx!Max(T) >= y
  BY TextMax
<1>2. St!Max(T) = Tx!Max(T)
  BY Zenon DEF St!Max, Tx!Max
<1>. QED
  BY <1>1, <1>2

\* the same for Min.
LEMMA StringMin ==
  ASSUME NEW T \in SUBSET Nat, T # {}
  PROVE  St!Min(T) \in T /\ \A y \in T : St!Min(T) <= y
<1>1. Tx!Min(T) \in T /\ \A y \in T : Tx!Min(T) <= y
  BY TextMin
<1>2. St!Min(T) = Tx!Min(T)
  BY Zenon DEF St!Min, Tx!Min
<1>. QED
  BY <1>1, <1>2

\* How many occurrences there are before r, and before the end of the next.
LEMMA PassedIs ==
  ASSUME NEW f, NEW w, NEW t, Called(f, w, t)
  PROVE  /\ \A r \in Nat : Cardinality(Passed(f, t, r)) \in Nat
         /\ Cardinality(Passed(f, t, 0)) = 0
         /\ \A r \in Nat : (\A at \in Found(f, t) : ~ (at >= r)) =>
              Passed(f, t, r) = Passed(f, t, Len(t))
         /\ \A r \in Nat, q \in Found(f, t) :
              q >= r /\ (\A at \in Found(f, t) : at >= r => q <= at) =>
                Cardinality(Passed(f, t, q + Len(f))) = Cardinality(Passed(f, t, r)) + 1
<1>1. /\ f \in Seq(St!Character) /\ t \in Seq(St!Character) /\ f # <<>> /\ Differs(f, f)
  BY CalledIs, Zenon
<1>2. PICK n \in Nat, l \in Nat : n = Len(t) /\ l = Len(f) /\ l >= 1
  BY <1>1
<1>3. \A at \in Found(f, t) : at \in Nat /\ at \in 0..n /\ at < n
  BY <1>2 DEF Found
<1>4. \A r : IsFiniteSet(Passed(f, t, r))
  <2>1. \A r : Passed(f, t, r) \subseteq 0..n
    BY <1>3, Zenon DEF Passed
  <2>2. IsFiniteSet(0..n)
    BY FS_Interval
  <2>. QED
    BY <2>1, <2>2, FS_Subset
<1>5. \A r \in Nat : Cardinality(Passed(f, t, r)) \in Nat
  BY <1>4, FS_CardinalityType
<1>6. Cardinality(Passed(f, t, 0)) = 0
  <2>1. Passed(f, t, 0) = {}
    BY <1>3 DEF Passed
  <2>. QED
    BY <2>1, FS_EmptySet
<1>7. ASSUME NEW r \in Nat, \A at \in Found(f, t) : ~ (at >= r)
      PROVE  Passed(f, t, r) = Passed(f, t, Len(t))
  BY <1>2, <1>3, <1>7 DEF Passed
<1>8. ASSUME NEW r \in Nat, NEW q \in Found(f, t), q >= r,
             \A at \in Found(f, t) : at >= r => q <= at
      PROVE  Cardinality(Passed(f, t, q + Len(f))) = Cardinality(Passed(f, t, r)) + 1
  <2>1. q \notin Passed(f, t, r)
    BY <1>3, <1>8 DEF Passed
  <2>2. ASSUME NEW at \in Found(f, t) PROVE at < q + l <=> at < r \/ at = q
    <3>1. q < at => q + l <= at
      BY <1>1, <1>2, FoundApart, Zenon
    <3>. QED
      BY <1>2, <1>3, <1>8, <3>1
  <2>3. Passed(f, t, q + Len(f)) = Passed(f, t, r) \cup {q}
    BY <1>2, <2>2, Zenon DEF Passed
  <2>. QED
    BY <1>4, <2>1, <2>3, FS_AddElement
<1>. QED
  BY <1>5, <1>6, <1>7, <1>8

-----------------------------------------------------------------------------
(* The steps of a call, for any text. *)

\* A call begins.
LEMMA CallBegins ==
  ASSUME NEW f, NEW w, NEW t, Called(f, w, t)
  PROVE  /\ Len(w) = Len(f) => OverInv(f, w, t, t, 0)
         /\ Len(w) # Len(f) => CountInv(f, w, t, 0, Len(w) - Len(f), Len(t))
<1>1. /\ f \in Seq(St!Character) /\ w \in Seq(St!Character) /\ t \in Seq(St!Character)
      /\ IsRest(RestOf(f, w, t), St!Character, f, w, t)
  BY CalledIs, Zenon
<1>2. PICK n \in Nat, l \in Nat, m \in Nat : n = Len(t) /\ l = Len(f) /\ m = Len(w) /\ 0 \in 0..n
  BY <1>1
<1>3. PICK x \in Seq(St!Character) : x = RestOf(f, w, t)[0]
  BY <1>1, <1>2, Zenon DEF IsRest
<1>4. ASSUME m = l PROVE OverInv(f, w, t, t, 0)
  <2>1. SubSeq(t, 1, 0) = <<>> /\ Join(<<>>, x) = x
    BY <1>1 DEF Join
  <2>. QED
    BY <1>2, <1>3, <1>4, <2>1, Zenon DEF OverInv, IsJoin
<1>5. ASSUME m # l PROVE CountInv(f, w, t, 0, m - l, n)
  <2>1. Evenly(f, t, 0)
    <3>1. 0 % 2 = 0 /\ Cardinality(Passed(f, t, 0)) = 0
      BY PassedIs
    <3>. QED
      BY <3>1, Zenon DEF Evenly
  <2>2. n >= n /\ n + 0 + Len(x) = n + Len(x)
    BY <1>3
  <2>. QED
    BY <1>2, <1>3, <1>5, <2>1, <2>2, Zenon DEF CountInv
<1>. QED
  BY <1>2, <1>4, <1>5, Zenon

\* One occurrence after the other is overwritten.
LEMMA OverGoes ==
  ASSUME NEW f, NEW w, NEW t, Called(f, w, t), NEW s \in Seq(St!Character), NEW r,
         OverInv(f, w, t, s, r)
  PROVE  /\ (\A at \in Found(f, t) : ~ (at >= r)) => DoneInv(f, w, t, s)
         /\ \A q \in Found(f, t) : \A u :
              /\ q >= r /\ \A at \in Found(f, t) : at >= r => q <= at
              /\ u = Join(Join(SubSeq(s, 1, q), w), SubSeq(s, q + Len(f) + 1, Len(s)))
              => u \in Seq(St!Character) /\ Len(u) = Len(t) /\ OverInv(f, w, t, u, q + Len(w))
<1>1. /\ f \in Seq(St!Character) /\ w \in Seq(St!Character) /\ t \in Seq(St!Character) /\ f # <<>>
      /\ IsRest(RestOf(f, w, t), St!Character, f, w, t)
  BY CalledIs, Zenon
<1>2. /\ Len(w) = Len(f) /\ Len(s) = Len(t) /\ r \in 0..Len(t)
      /\ IsJoin(RestOf(f, w, t)[0], SubSeq(s, 1, r), RestOf(f, w, t)[r])
      /\ \A i \in r + 1..Len(t) : s[i] = t[i]
  BY Zenon DEF OverInv
<1>3. PICK g : g = RestOf(f, w, t)
  OBVIOUS
<1>4. IsRest(g, St!Character, f, w, t) /\ IsJoin(g[0], SubSeq(s, 1, r), g[r])
  BY <1>1, <1>2, <1>3, Zenon
<1>5. ASSUME \A at \in Found(f, t) : ~ (at >= r) PROVE s = g[0]
  <2>1. (\A at \in Found(f, t) : ~ (at >= r)) => s = g[0]
    BY ONLY <1>1, <1>2, <1>4, s \in Seq(St!Character), OverText
  <2>. QED
    BY <1>5, <2>1, Zenon
<1>6. ASSUME NEW q \in Found(f, t), NEW u, q >= r, \A at \in Found(f, t) : at >= r => q <= at,
             u = Join(Join(SubSeq(s, 1, q), w), SubSeq(s, q + Len(f) + 1, Len(s)))
      PROVE  /\ u \in Seq(St!Character) /\ Len(u) = Len(t) /\ q + Len(w) \in 0..Len(t)
             /\ IsJoin(g[0], SubSeq(u, 1, q + Len(w)), g[q + Len(w)])
             /\ \A i \in q + Len(w) + 1..Len(t) : u[i] = t[i]
  BY <1>1, <1>2, <1>4, <1>6, OverText
<1>7. ~ (Len(w) < Len(f))
  BY <1>1, <1>2
<1>. QED
  BY <1>2, <1>3, <1>5, <1>6, <1>7, Zenon DEF OverInv, DoneInv

\* One occurrence after the other is counted.
LEMMA CountGoes ==
  ASSUME NEW f, NEW w, NEW t, Called(f, w, t), NEW r, NEW d, NEW z, CountInv(f, w, t, r, d, z),
         NEW q \in Found(f, t), q >= r, \A at \in Found(f, t) : at >= r => q <= at,
         NEW e, e = IF Len(w) < Len(f) THEN 0 - d ELSE d,
         NEW y, y = IF Len(w) < Len(f) THEN z - e ELSE z + d
  PROVE  CountInv(f, w, t, q + Len(f), e, y)
<1>1. /\ f \in Seq(St!Character) /\ w \in Seq(St!Character) /\ t \in Seq(St!Character) /\ f # <<>>
      /\ IsRest(RestOf(f, w, t), St!Character, f, w, t)
  BY CalledIs, Zenon
<1>2. PICK n \in Nat, l \in Nat, m \in Nat : n = Len(t) /\ l = Len(f) /\ m = Len(w) /\ l >= 1
  BY <1>1
<1>3. PICK g : g = RestOf(f, w, t)
  OBVIOUS
<1>4. /\ m # l /\ r \in 0..n /\ z \in Nat
      /\ m > l => d = m - l /\ z >= n /\ z + r + Len(g[r]) = n + Len(g[0])
      /\ m < l => IF Evenly(f, t, r) THEN d = m - l /\ z = n ELSE d = l - m /\ z = n - (l - m)
  BY <1>2, <1>3, Zenon DEF CountInv
<1>5. q \in Nat /\ q + l \in 0..n /\ g[q + l] \in Seq(St!Character) /\ IsJoin(g[q], w, g[q + l])
  BY <1>1, <1>2, <1>3, RestStep, Zenon
<1>6. ASSUME m > l
      PROVE  /\ e = m - l /\ (y = n => q + l = 0) /\ y >= n /\ y \in Nat
             /\ y + (q + l) + Len(g[q + l]) = n + Len(g[0])
  <2>1. IsJoin(g[r], SubSeq(t, r + 1, q), g[q])
    <3>1. r \in Nat /\ q \in Nat /\ r <= q /\ q <= Len(t) /\ \A k \in r..q - 1 : k >= r /\ ~ (q <= k)
      BY <1>2, <1>4, <1>5
    <3>2. \A k \in r..q - 1 : k \notin Found(f, t)
      BY <3>1, Zenon
    <3>. QED
      BY <1>1, <1>3, <3>1, <3>2, NoneBetween, Zenon
  <2>2. SubSeq(t, r + 1, q) \in Seq(St!Character) /\ Len(SubSeq(t, r + 1, q)) = q - r
    BY <1>1, <1>2, <1>4, <1>5, SMTT(30)
  <2>3. PICK x \in Seq(St!Character), v \in Seq(St!Character) :
          x = g[q + l] /\ v = SubSeq(t, r + 1, q) /\ Len(v) = q - r
    BY <1>5, <2>2, Zenon
  <2>4. g[r] = Join(v, Join(w, x))
    BY <1>5, <2>1, <2>3, Zenon DEF IsJoin
  <2>5. Len(Join(v, Join(w, x))) = Len(v) + (Len(w) + Len(x))
    BY <1>1 DEF Join
  <2>6. PICK k \in Nat : k = Len(x)
    OBVIOUS
  <2>7. Len(g[r]) = (q - r) + (m + k)
    BY <1>2, <2>3, <2>4, <2>5, <2>6, Zenon
  <2>8. e = d /\ y = z + d
    BY <1>2, <1>6
  <2>9. 0 \in 0..n /\ g[0] \in Seq(St!Character)
    BY <1>1, <1>2, <1>3 DEF IsRest
  <2>10. PICK h \in Nat : h = Len(g[0])
    BY <2>9
  <2>11. z + r + ((q - r) + (m + k)) = n + h /\ d = m - l /\ z >= n
    BY <1>4, <1>6, <2>7, <2>10, Zenon
  <2>12. y + (q + l) + k = n + h /\ y >= n /\ y \in Nat /\ ~ (y = n)
    <3>1. r \in Nat
      BY <1>4
    <3>2. y = z + d
      BY <2>8
    <3>3. z \in Nat /\ q \in Nat
      BY <1>4, <1>5, Zenon
    <3>. QED
      BY ONLY <1>6, <2>11, <3>1, <3>2, <3>3, n \in Nat, m \in Nat, l \in Nat, k \in Nat, h \in Nat
  <2>. QED
    BY <2>3, <2>6, <2>8, <2>10, <2>11, <2>12, Zenon
<1>7. ASSUME m < l
      PROVE  /\ IF Evenly(f, t, q + l) THEN e = m - l /\ y = n ELSE e = l - m /\ y = n - (l - m)
             /\ y \in Nat
  <2>1. PICK k \in Nat : k = Cardinality(Passed(f, t, r)) /\ Cardinality(Passed(f, t, q + l)) = k + 1
    <3>1. r \in Nat
      BY <1>4
    <3>2. Cardinality(Passed(f, t, r)) \in Nat
      BY <3>1, PassedIs
    <3>3. Cardinality(Passed(f, t, q + l)) = Cardinality(Passed(f, t, r)) + 1
      BY <1>2, <3>1, PassedIs
    <3>. QED
      BY <3>2, <3>3, Zenon
  <2>2. /\ Evenly(f, t, r) <=> k % 2 = 0
        /\ Evenly(f, t, q + l) <=> (k + 1) % 2 = 0
    BY <2>1, Zenon DEF Evenly
  <2>3. k % 2 = 0 <=> ~ ((k + 1) % 2 = 0)
    OBVIOUS
  <2>4. e = 0 - d /\ y = z - e
    BY <1>2, <1>7
  <2>5. CASE k % 2 = 0
    <3>1. d = m - l /\ z = n /\ ~ Evenly(f, t, q + l)
      BY <1>4, <1>7, <2>2, <2>3, <2>5, Zenon
    <3>2. e = l - m /\ y = n - (l - m)
      BY <1>2, <2>4, <3>1
    <3>3. y \in Nat
      BY <1>2, <1>5, <3>2
    <3>. QED
      BY <3>1, <3>2, <3>3, Zenon
  <2>6. CASE k % 2 # 0
    <3>1. d = l - m /\ z = n - (l - m) /\ Evenly(f, t, q + l)
      BY <1>4, <1>7, <2>2, <2>3, <2>6, Zenon
    <3>2. e = m - l /\ y = n
      BY <1>2, <2>4, <3>1
    <3>. QED
      BY <3>1, <3>2, Zenon
  <2>. QED
    BY <2>5, <2>6
<1>8. m > l \/ m < l
  BY <1>2, <1>4
<1>9. ~ (m > l /\ m < l)
  BY <1>2
<1>. QED
  BY <1>2, <1>3, <1>4, <1>5, <1>6, <1>7, <1>8, <1>9, Zenon DEF CountInv

\* No occurrence is left: the text is done, or the way back begins.
LEMMA CountEnds ==
  ASSUME NEW f, NEW w, NEW t, Called(f, w, t), NEW r, NEW d, NEW z, CountInv(f, w, t, r, d, z),
         \A at \in Found(f, t) : ~ (at >= r)
  PROVE  /\ z = Len(t) => DoneInv(f, w, t, t)
         /\ z # Len(t) => \A c : Len(w) < Len(f) \/ c >= z => BackInv(f, w, t, t, Len(t), c)
<1>1. /\ f \in Seq(St!Character) /\ w \in Seq(St!Character) /\ t \in Seq(St!Character) /\ f # <<>>
      /\ IsRest(RestOf(f, w, t), St!Character, f, w, t)
  BY CalledIs, Zenon
<1>2. PICK n \in Nat, l \in Nat, m \in Nat : n = Len(t) /\ l = Len(f) /\ m = Len(w) /\ l >= 1
  BY <1>1
<1>3. PICK g : g = RestOf(f, w, t)
  OBVIOUS
<1>4. /\ m # l /\ r \in 0..n /\ z \in Nat
      /\ m > l => (z = n => r = 0) /\ z + r + Len(g[r]) = n + Len(g[0])
      /\ m < l => IF Evenly(f, t, r) THEN z = n ELSE z = n - (l - m)
  BY <1>2, <1>3, Zenon DEF CountInv
<1>5. g[r] = SubSeq(t, r + 1, n) /\ Len(g[r]) = n - r /\ g[n] = <<>>
  <2>1. r \in Nat /\ n \in Nat /\ r <= n /\ n <= Len(t) /\ \A k \in r..n - 1 : k >= r
    BY <1>2, <1>4
  <2>2. \A k \in r..n - 1 : k \notin Found(f, t)
    BY <2>1, Zenon
  <2>3. IsJoin(g[r], SubSeq(t, r + 1, n), g[n])
    BY <1>1, <1>3, <2>1, <2>2, NoneBetween, Zenon
  <2>4. g[n] = <<>>
    BY <1>1, <1>2, <1>3, Zenon DEF IsRest, Goes
  <2>5. SubSeq(t, r + 1, n) \in Seq(St!Character) /\ Len(SubSeq(t, r + 1, n)) = n - r
    BY <1>1, <1>2, <2>1
  <2>6. Join(SubSeq(t, r + 1, n), <<>>) = SubSeq(t, r + 1, n)
    BY <2>5 DEF Join
  <2>. QED
    BY <2>3, <2>4, <2>5, <2>6, Zenon DEF IsJoin
<1>6. Evenly(f, t, r) <=> Evenly(f, t, n)
  <2>1. r \in Nat
    BY <1>4
  <2>2. Passed(f, t, r) = Passed(f, t, n)
    BY <1>2, <2>1, PassedIs
  <2>. QED
    BY <2>2, Zenon DEF Evenly
<1>7. CASE m > l
  <2>1. 0 \in 0..n /\ g[0] \in Seq(St!Character)
    BY <1>1, <1>2, <1>3 DEF IsRest
  <2>2. PICK h \in Nat : h = Len(g[0])
    BY <2>1
  <2>3. z + r + (n - r) = n + h
    BY <1>4, <1>5, <1>7, <2>2, Zenon
  <2>4. z = h /\ ~ (m < l)
    BY <1>2, <1>4, <1>7, <2>3
  <2>5. ASSUME z = n PROVE DoneInv(f, w, t, t)
    <3>1. r = 0 /\ g[0] = SubSeq(t, 0 + 1, n)
      BY <1>4, <1>5, <1>7, <2>5, Zenon
    <3>2. SubSeq(t, 0 + 1, n) = t
      BY <1>1, <1>2
    <3>. QED
      BY <1>2, <1>3, <2>4, <3>1, <3>2, Zenon DEF DoneInv
  <2>6. ASSUME z # n, NEW c, m < l \/ c >= z PROVE BackInv(f, w, t, t, n, c)
    <3>1. n \in 0..n /\ SubSeq(t, 1, n) = t /\ Join(t, <<>>) = t
      BY <1>1, <1>2 DEF Join
    <3>. QED
      BY <1>2, <1>3, <1>4, <1>5, <2>2, <2>4, <2>6, <3>1, Zenon DEF BackInv, IsJoin
  <2>. QED
    BY <1>2, <2>5, <2>6, Zenon
<1>8. CASE m < l
  <2>1. z = n <=> Evenly(f, t, n)
    <3>1. n - (l - m) # n
      BY <1>2, <1>8
    <3>. QED
      BY <1>4, <1>6, <1>8, <3>1, Zenon
  <2>2. ~ (m > l)
    BY <1>2, <1>8
  <2>3. ASSUME z = n PROVE DoneInv(f, w, t, t)
    BY <1>2, <1>8, <2>1, <2>3, Zenon DEF DoneInv
  <2>4. ASSUME z # n, NEW c PROVE BackInv(f, w, t, t, n, c)
    <3>1. n \in 0..n /\ SubSeq(t, 1, n) = t /\ Join(t, <<>>) = t
      BY <1>1, <1>2 DEF Join
    <3>. QED
      BY <1>2, <1>3, <1>4, <1>5, <2>1, <2>2, <2>4, <3>1, Zenon DEF BackInv, IsJoin
  <2>. QED
    BY <1>2, <2>3, <2>4, Zenon
<1>. QED
  BY <1>2, <1>4, <1>7, <1>8

\* One occurrence after the other is replaced, from the last.
LEMMA BackGoes ==
  ASSUME NEW f, NEW w, NEW t, Called(f, w, t), NEW s \in Seq(St!Character), NEW p, NEW c \in Int,
         BackInv(f, w, t, s, p, c)
  PROVE  /\ \A at \in Nat : at < p => (at \in Found(f, s) <=> at \in Found(f, t))
         /\ (\A at \in Found(f, t) : ~ (at < p)) => DoneInv(f, w, t, s)
         /\ \A q \in Found(f, t) : \A u :
              /\ q < p /\ \A at \in Found(f, t) : at < p => at <= q
              /\ u = Join(Join(SubSeq(s, 1, q), w), SubSeq(s, q + Len(f) + 1, Len(s)))
              /\ Len(s) <= c
              => u \in Seq(St!Character) /\ Len(u) <= c /\ BackInv(f, w, t, u, q, c)
<1>1. /\ f \in Seq(St!Character) /\ w \in Seq(St!Character) /\ t \in Seq(St!Character) /\ f # <<>>
      /\ Differs(f, f) /\ Differs(f, w) /\ IsRest(RestOf(f, w, t), St!Character, f, w, t)
  BY CalledIs, Zenon
<1>2. PICK n \in Nat, l \in Nat, m \in Nat : n = Len(t) /\ l = Len(f) /\ m = Len(w) /\ l >= 1
  BY <1>1
<1>3. PICK g : g = RestOf(f, w, t)
  OBVIOUS
<1>4. /\ m # l /\ p \in 0..Len(t) /\ (p = Len(t) \/ p \in Found(f, t))
      /\ IsJoin(s, SubSeq(t, 1, p), g[p])
      /\ m < l => ~ Evenly(f, t, n)
      /\ m > l => c >= Len(g[0])
      /\ IsRest(g, St!Character, f, w, t)
  BY <1>1, <1>2, <1>3, Zenon DEF BackInv
<1>5. \A at \in Nat : at < p => (at \in Found(f, s) <=> at \in Found(f, t))
  BY <1>1, <1>4, BackText
<1>6. ASSUME \A at \in Found(f, t) : ~ (at < p) PROVE DoneInv(f, w, t, s)
  <2>1. s = g[0]
    BY <1>1, <1>4, <1>6, BackText
  <2>. QED
    BY <1>2, <1>3, <1>4, <2>1, Zenon DEF DoneInv
<1>7. ASSUME NEW q \in Found(f, t), NEW u, q < p, \A at \in Found(f, t) : at < p => at <= q,
             u = Join(Join(SubSeq(s, 1, q), w), SubSeq(s, q + Len(f) + 1, Len(s))), Len(s) <= c
      PROVE  u \in Seq(St!Character) /\ Len(u) <= c /\ BackInv(f, w, t, u, q, c)
  <2>1. IsJoin(u, SubSeq(t, 1, q), g[q])
    <3>1. IsJoin(Join(Join(SubSeq(s, 1, q), w), SubSeq(s, q + Len(f) + 1, Len(s))),
                 SubSeq(t, 1, q), g[q])
      BY <1>1, <1>4, <1>7, BackText
    <3>. QED
      BY <1>7, <3>1, Zenon
  <2>2. q \in Nat /\ q \in 0..n - 1 /\ q \in 0..n /\ g[q] \in Seq(St!Character)
    <3>1. q \in Nat /\ q \in 0..n - 1
      BY <1>1, <1>2, <1>4, RestStep, Zenon
    <3>2. q \in 0..n
      BY <3>1
    <3>. QED
      BY <1>2, <1>4, <3>1, <3>2, Zenon DEF IsRest
  <2>3. SubSeq(t, 1, q) \in Seq(St!Character) /\ Len(SubSeq(t, 1, q)) = q
    BY <1>1, <1>2, <2>2
  <2>4. u \in Seq(St!Character) /\ Len(u) = q + Len(g[q])
    <3>1. PICK a \in Seq(St!Character), b \in Seq(St!Character) :
            a = SubSeq(t, 1, q) /\ b = g[q] /\ Len(a) = q
      BY <2>2, <2>3, Zenon
    <3>2. Join(a, b) \in Seq(St!Character) /\ Len(Join(a, b)) = Len(a) + Len(b)
      BY JoinTyped
    <3>. QED
      BY <2>1, <3>1, <3>2, Zenon DEF IsJoin
  <2>5. BackInv(f, w, t, u, q, c)
    BY <1>2, <1>3, <1>4, <2>1, <2>2, Zenon DEF BackInv
  <2>6. CASE m > l
    <3>1. 0 \in 0..q /\ 0 \in 0..n /\ m >= l
      BY <1>2, <2>2, <2>6
    <3>2. q + Len(g[q]) <= 0 + Len(g[0])
      BY <1>1, <1>2, <1>4, <2>2, <3>1, Growing
    <3>3. g[0] \in Seq(St!Character) /\ Len(g[0]) \in Nat
      <4>1. g[0] \in Seq(St!Character)
        BY <1>2, <1>4, <3>1, Zenon DEF IsRest
      <4>. QED
        BY <4>1
    <3>4. Len(u) <= c
      BY <1>4, <2>2, <2>4, <2>6, <3>2, <3>3
    <3>. QED
      BY <2>4, <2>5, <3>4
  <2>7. CASE m < l
    <3>1. q \in Found(f, s)
      BY <1>5, <1>7, <2>2
    <3>2. q + l <= Len(s)
      BY <1>2, <3>1 DEF Found
    <3>3. Len(u) = q + m + (Len(s) - (q + l))
      <4>1. PICK a \in Seq(St!Character), b \in Seq(St!Character), k \in Nat :
              /\ a = SubSeq(s, 1, q) /\ b = SubSeq(s, q + Len(f) + 1, Len(s))
              /\ Len(a) = q /\ Len(b) = Len(s) - k /\ k = q + l
        <5>1. PICK k \in Nat : k = q + l /\ k = q + Len(f) /\ k <= Len(s) /\ q <= Len(s)
          BY <1>2, <2>2, <3>2
        <5>2. /\ SubSeq(s, 1, q) \in Seq(St!Character) /\ Len(SubSeq(s, 1, q)) = q
              /\ SubSeq(s, k + 1, Len(s)) \in Seq(St!Character)
              /\ Len(SubSeq(s, k + 1, Len(s))) = Len(s) - k
          BY <2>2, <5>1
        <5>. QED
          BY <5>1, <5>2, Zenon
      <4>2. u = Join(Join(a, w), b)
        BY <1>7, <4>1, Zenon
      <4>3. Len(Join(Join(a, w), b)) = (Len(a) + Len(w)) + Len(b)
        BY <1>1 DEF Join
      <4>. QED
        BY <1>2, <4>1, <4>2, <4>3, Zenon
    <3>4. Len(u) <= c
      <4>1. PICK h \in Nat : h = Len(s) /\ h <= c
        BY <1>7
      <4>2. Len(u) = q + m + (h - (q + l))
        BY <3>3, <4>1, Zenon
      <4>. QED
        BY <1>2, <2>2, <2>7, <4>1, <4>2
    <3>. QED
      BY <2>4, <2>5, <3>4
  <2>. QED
    BY <1>2, <1>4, <2>6, <2>7
<1>. QED
  BY <1>5, <1>6, <1>7

-----------------------------------------------------------------------------
(* The steps of the String. *)

\* The invariant gives the promises.
LEMMA StringGives == StringInv => St!TypeOK /\ ReplacesOnce
<1>1. SUFFICES ASSUME StringInv PROVE St!TypeOK /\ ReplacesOnce
  OBVIOUS
<1>2. St!TypeOK
  <2>1. st_capacity \in Nat \cup {-1}
    BY <1>1 DEF StringInv, Fits
  <2>. QED
    BY <1>1, <2>1, Zenon DEF StringInv, Fits, StringTypes, St!TypeOK, St!NULL
<1>3. st_pc = "count" => st_text = st_before
  BY <1>1, Zenon DEF StringInv, StringCall
<1>4. ASSUME st_replaced, ~ St!CountedAsNone
      PROVE  st_text = St!Substituted(st_before)
  <2>1. st_pc = "returned"
    BY <1>1, <1>4, Zenon DEF StringInv, StringTypes
  <2>2. /\ Called(st_find, st_replace, st_before)
        /\ DoneInv(st_find, st_replace, st_before, st_text)
    <3>1. "returned" # "idle"
      OBVIOUS
    <3>. QED
      BY <1>1, <1>4, <2>1, <3>1, Zenon DEF StringInv, StringCall
  <2>3. /\ st_find \in Seq(St!Character) /\ st_before \in Seq(St!Character) /\ st_find # <<>>
    BY <2>2, CalledIs, Zenon
  <2>4. St!OccurrencesIn(st_before) = Found(st_find, st_before)
    BY <2>3, OccurrencesAre, Zenon
  <2>5. Passed(st_find, st_before, Len(st_before)) = Found(st_find, st_before)
    <3>1. PICK n \in Nat, l \in Nat : n = Len(st_before) /\ l = Len(st_find) /\ l >= 1
      BY <2>3
    <3>2. \A at \in Found(st_find, st_before) : at < n
      BY <3>1 DEF Found
    <3>. QED
      BY <3>1, <3>2, Zenon DEF Passed
  <2>6. St!Substituted(st_before) = RestOf(st_find, st_replace, st_before)[0]
    BY <2>2, SubstitutedIs, Zenon
  <2>7. St!Cardinality(Found(st_find, st_before)) = Cardinality(Found(st_find, st_before))
    BY Zenon DEF St!Cardinality, Cardinality
  <2>. QED
    BY <1>4, <2>2, <2>4, <2>5, <2>6, <2>7, Zenon
    DEF DoneInv, Evenly, St!CountedAsNone, St!Shorter
<1>. QED
  BY <1>2, <1>3, <1>4, Zenon DEF ReplacesOnce, St!ReplacesOnce

\* It holds at the start.
LEMMA StringStart == St!Init => StringInv
<1>1. SUFFICES ASSUME St!Init PROVE StringInv
  OBVIOUS
<1>2. Fits(st_text, st_capacity)
  BY <1>1 DEF St!Init, St!NULL, Fits
<1>3. StringTypes
  BY <1>1 DEF St!Init, StringTypes
<1>4. StringCall
  BY <1>1 DEF St!Init, StringCall
<1>. QED
  BY <1>2, <1>3, <1>4 DEF StringInv

\* The texts that the calls get.
LEMMA StringConstants ==
  /\ \A s \in StringTexts : s \in Seq(St!Character)
  /\ MaxText \in Nat
BY LibrariesAssumption DEF St!StringsAssumption

\* Outside replace() only the text and the buffer change.
LEMMA IdleStep ==
  ASSUME StringInv, St!Idle, Fits(st_text', st_capacity')
  PROVE  StringInv'
<1>1. st_pc = "idle" /\ st_pc' = st_pc /\ UNCHANGED <<st_find, st_replace, st_diff, st_size,
        st_readFrom, st_index, st_before, st_replaced>>
  BY DEF St!Idle, St!args, St!loops
<1>2. StringTypes'
  BY <1>1 DEF StringInv, StringTypes
<1>3. StringCall'
  BY <1>1 DEF StringCall
<1>. QED
  BY <1>2, <1>3 DEF StringInv

\* An assignment,
LEMMA AssignStep == ASSUME StringInv, NEW s \in StringTexts, St!Assign(s) PROVE StringInv'
<1>1. s \in Seq(St!Character) /\ Len(s) \in Nat
  BY StringConstants
<1>2. st_capacity \in Int /\ st_capacity >= -1
  BY DEF StringInv, Fits
<1>3. CASE St!Reserved(Len(s)) /\ st_text' = s
  <2>1. Fits(s, st_capacity')
    BY <1>1, <1>2, <1>3 DEF St!Reserved, Fits
  <2>. QED
    BY <1>3, <2>1, IdleStep DEF St!Assign
<1>4. CASE st_capacity' = -1 /\ st_text' = <<>>
  <2>1. Fits(<<>>, -1)
    BY DEF Fits
  <2>. QED
    BY <1>4, <2>1, IdleStep DEF St!Assign
<1>. QED
  BY <1>3, <1>4 DEF St!Assign, St!NULL

\* an appended text,
LEMMA ConcatStep == ASSUME StringInv, NEW s \in StringTexts, St!Concat(s) PROVE StringInv'
<1>1. s \in Seq(St!Character) /\ Len(s) \in Nat
  BY StringConstants
<1>2. Fits(st_text, st_capacity)
  BY DEF StringInv
<1>3. St!Idle
  BY DEF St!Concat
<1>4. CASE St!Reserved(Len(st_text) + Len(s)) /\ st_text' = st_text \o s
  <2>1. PICK x \in Seq(St!Character), c \in Int : x = st_text /\ c = st_capacity /\ c >= -1
    BY <1>2 DEF Fits
  <2>2. x \o s \in Seq(St!Character) /\ Len(x \o s) = Len(x) + Len(s) /\ Len(x) \in Nat
    BY <1>1
  <2>3. st_capacity' = (IF c >= Len(x) + Len(s) THEN c ELSE Len(x) + Len(s)) /\ st_text' = x \o s
    BY <1>4, <2>1, Zenon DEF St!Reserved
  <2>4. Fits(st_text', st_capacity')
    BY <1>1, <2>2, <2>3 DEF Fits
  <2>. QED
    BY <1>3, <2>4, IdleStep
<1>5. CASE st_text' = st_text /\ st_capacity' = st_capacity
  BY <1>2, <1>3, <1>5, IdleStep
<1>6. CASE st_text' = <<>> /\ st_capacity' = -1
  <2>1. Fits(<<>>, -1)
    BY DEF Fits
  <2>. QED
    BY <1>3, <1>6, <2>1, IdleStep
<1>. QED
  BY <1>4, <1>5, <1>6 DEF St!Concat, St!NULL

\* and a removal.
LEMMA RemovesStep ==
  ASSUME StringInv, NEW at \in 0..MaxText, NEW count \in 0..MaxText, St!Removes(at, count)
  PROVE  StringInv'
<1>1. PICK x \in Seq(St!Character), c \in Int :
        x = st_text /\ c = st_capacity /\ c >= -1 /\ Len(x) <= (IF c = -1 THEN 0 ELSE c)
  BY DEF StringInv, Fits
<1>2. St!Idle /\ at < Len(x) /\ count > 0 /\ st_capacity' = c
      /\ st_text' = SubSeq(x, 1, at) \o SubSeq(x, at + count + 1, Len(x))
  BY <1>1 DEF St!Removes
<1>3. at \in Nat /\ count \in Nat
  BY StringConstants
<1>4. PICK a \in Seq(St!Character), b \in Seq(St!Character) :
        /\ a = SubSeq(x, 1, at) /\ b = SubSeq(x, at + count + 1, Len(x))
        /\ Len(a) + Len(b) <= Len(x)
  <2>1. SubSeq(x, 1, at) \in Seq(St!Character) /\ Len(SubSeq(x, 1, at)) = at
    BY <1>2, <1>3
  <2>2. /\ SubSeq(x, at + count + 1, Len(x)) \in Seq(St!Character)
        /\ at + Len(SubSeq(x, at + count + 1, Len(x))) <= Len(x)
    <3>1. CASE at + count <= Len(x)
      <4>1. at + count \in Nat /\ Len(x) \in Nat /\ Len(x) <= Len(x)
        BY <1>3
      <4>2. /\ SubSeq(x, at + count + 1, Len(x)) \in Seq(St!Character)
            /\ Len(SubSeq(x, at + count + 1, Len(x))) = Len(x) - (at + count)
        BY ONLY <3>1, <4>1, x \in Seq(St!Character), SliceIs
      <4>. QED
        BY <1>3, <4>1, <4>2
    <3>2. CASE at + count > Len(x)
      <4>1. SubSeq(x, at + count + 1, Len(x)) = <<>>
        BY <1>3, <3>2
      <4>. QED
        BY <1>2, <1>3, <4>1
    <3>. QED
      BY <1>3, <3>1, <3>2
  <2>. QED
    BY <2>1, <2>2, Zenon
<1>5. Fits(st_text', st_capacity')
  <2>1. PICK y \in Seq(St!Character) : y = st_text' /\ Len(y) <= Len(x)
    <3>1. a \o b \in Seq(St!Character) /\ Len(a \o b) = Len(a) + Len(b)
      OBVIOUS
    <3>. QED
      BY <1>2, <1>4, <3>1, Zenon
  <2>2. Len(y) <= (IF c = -1 THEN 0 ELSE c)
    BY <1>1, <2>1
  <2>. QED
    BY <1>1, <1>2, <2>1, <2>2, Zenon DEF Fits
<1>. QED
  BY <1>2, <1>5, IdleStep

\* replace() begins.
LEMMA ReplaceStep ==
  ASSUME StringInv, NEW p \in Replacements, St!Replace(p[1], p[2]) PROVE StringInv'
<1>1. PICK f, w, t : f = p[1] /\ w = p[2] /\ t = st_text
  OBVIOUS
<1>2. p = <<f, w>>
  <2>1. p \in Seq(St!Character) \X Seq(St!Character)
    BY LibrariesAssumption DEF St!StringsAssumption
  <2>2. p = <<p[1], p[2]>>
    BY <2>1
  <2>. QED
    BY <1>1, <2>2, Zenon
<1>3. Called(f, w, t)
  <2>1. t \in Seq(St!Character)
    BY <1>1, Zenon DEF StringInv, Fits
  <2>2. t # <<>>
    BY <1>1, Zenon DEF St!Replace
  <2>. QED
    BY <1>2, <2>1, <2>2, Zenon DEF Called
<1>4. f \in Seq(St!Character) /\ w \in Seq(St!Character) /\ t \in Seq(St!Character) /\ t # <<>>
  BY <1>3, CalledIs, Zenon
<1>5. /\ st_find' = f /\ st_replace' = w /\ st_before' = t /\ st_text' = t
      /\ st_diff' = Len(w) - Len(f) /\ st_size' = Len(t) /\ st_readFrom' = 0
      /\ st_pc' = (IF st_diff' = 0 THEN "overwrite" ELSE "count")
      /\ st_capacity' = st_capacity /\ st_index' = st_index /\ st_replaced' = st_replaced
      /\ st_pc = "idle"
  BY <1>1, Zenon DEF St!Replace
<1>6. Fits(st_text, st_capacity) /\ st_capacity >= 0
  BY <1>1, <1>4 DEF StringInv, Fits
<1>7. st_index \in Int /\ st_index >= -1 /\ ~ st_replaced
  BY <1>5, Zenon DEF StringInv, StringTypes
<1>8. StringTypes'
  BY <1>4, <1>5, <1>7 DEF StringTypes
<1>9. StringCall'
  <2>1. Len(w) \in Nat /\ Len(f) \in Nat
    BY <1>4
  <2>2. CASE Len(w) = Len(f)
    <3>1. st_pc' = "overwrite"
      BY <1>5, <2>1, <2>2
    <3>2. OverInv(f, w, t, t, 0)
      BY <1>3, <2>2, CallBegins, Zenon
    <3>. QED
      BY <1>3, <1>5, <1>6, <3>1, <3>2 DEF StringCall
  <2>3. CASE Len(w) # Len(f)
    <3>1. st_pc' = "count"
      BY <1>5, <2>1, <2>3
    <3>2. CountInv(f, w, t, 0, Len(w) - Len(f), Len(t))
      BY <1>3, <2>3, CallBegins, Zenon
    <3>. QED
      BY <1>3, <1>5, <1>6, <3>1, <3>2 DEF StringCall
  <2>. QED
    BY <2>2, <2>3
<1>. QED
  BY <1>1, <1>5, <1>6, <1>8, <1>9, Zenon DEF StringInv

\* What is ahead on the way forth,
LEMMA AheadIs ==
  ASSUME StringInv, st_pc \in {"overwrite", "count"}
  PROVE  /\ St!Ahead = {} => \A at \in Found(st_find, st_before) : ~ (at >= st_readFrom)
         /\ St!Ahead # {} =>
              /\ St!Min(St!Ahead) \in Found(st_find, st_before)
              /\ St!Min(St!Ahead) >= st_readFrom
              /\ \A at \in Found(st_find, st_before) : at >= st_readFrom => St!Min(St!Ahead) <= at
<1>1. PICK f, w, t, s, r : /\ f = st_find /\ w = st_replace /\ t = st_before /\ s = st_text
                           /\ r = st_readFrom
  OBVIOUS
<1>2. Called(f, w, t) /\ s \in Seq(St!Character) /\ r \in Nat
  BY <1>1 DEF StringInv, StringCall, StringTypes, Fits
<1>3. f \in Seq(St!Character) /\ t \in Seq(St!Character) /\ f # <<>>
  BY <1>2, CalledIs, Zenon
<1>4. Len(s) = Len(t) /\ \A i \in r + 1..Len(t) : s[i] = t[i]
  <2>1. CASE st_pc = "overwrite"
    BY <1>1, <2>1, Zenon DEF StringInv, StringCall, OverInv
  <2>2. CASE st_pc = "count"
    BY <1>1, <2>2, Zenon DEF StringInv, StringCall
  <2>. QED
    BY <2>1, <2>2
<1>5. \A at \in Nat : at >= r => (at \in Found(f, s) <=> at \in Found(f, t))
  BY <1>2, <1>3, <1>4, FoundBehind
<1>6. St!OccurrencesIn(st_text) = Found(f, s)
  BY <1>1, <1>2, <1>3, OccurrencesAre, Zenon
<1>7. (\A at \in Found(f, t) : at \in Nat) /\ \A at \in Found(f, s) : at \in Nat
  BY Zenon DEF Found
<1>8. PICK A : A = St!Ahead
  OBVIOUS
<1>9. \A at : at \in A <=> at \in Found(f, t) /\ at >= r
  BY <1>1, <1>5, <1>6, <1>7, <1>8, Zenon DEF St!Ahead
<1>10. ASSUME A # {}
       PROVE  /\ St!Min(A) \in Found(f, t) /\ St!Min(A) >= r
              /\ \A at \in Found(f, t) : at >= r => St!Min(A) <= at
  <2>1. A \in SUBSET Nat
    BY <1>7, <1>9
  <2>2. St!Min(A) \in A /\ \A y \in A : St!Min(A) <= y
    BY <1>10, <2>1, StringMin
  <2>. QED
    BY <1>9, <2>2, Zenon
<1>. QED
  BY <1>1, <1>8, <1>9, <1>10, Zenon

\* and on the way back.
LEMMA BackIs ==
  ASSUME StringInv, st_pc = "backward"
  PROVE  /\ (st_index < 0 \/ St!Back = {}) =>
              \A at \in Found(st_find, st_before) : ~ (at < st_index + 1)
         /\ St!Back # {} =>
              /\ St!Max(St!Back) \in Found(st_find, st_before)
              /\ St!Max(St!Back) < st_index + 1
              /\ \A at \in Found(st_find, st_before) : at < st_index + 1 => at <= St!Max(St!Back)
<1>1. PICK f, w, t, s, p, c : /\ f = st_find /\ w = st_replace /\ t = st_before /\ s = st_text
                              /\ p = st_index + 1 /\ c = st_capacity
  OBVIOUS
<1>2. Called(f, w, t) /\ s \in Seq(St!Character) /\ st_index \in Int /\ c \in Int
  BY <1>1 DEF StringInv, StringCall, StringTypes, Fits
<1>3. f \in Seq(St!Character) /\ t \in Seq(St!Character) /\ f # <<>>
  BY <1>2, CalledIs, Zenon
<1>4. BackInv(f, w, t, s, p, c)
  BY <1>1, Zenon DEF StringInv, StringCall
<1>5. \A at \in Nat : at < p => (at \in Found(f, s) <=> at \in Found(f, t))
  BY <1>2, <1>4, BackGoes
<1>6. St!OccurrencesIn(st_text) = Found(f, s)
  BY <1>1, <1>2, <1>3, OccurrencesAre, Zenon
<1>7. (\A at \in Found(f, t) : at \in Nat) /\ \A at \in Found(f, s) : at \in Nat
  BY Zenon DEF Found
<1>8. PICK A : A = St!Back
  OBVIOUS
<1>9. \A at \in Nat : at < p <=> at <= st_index
  BY <1>1, <1>2
<1>10. \A at : at \in A <=> at \in Found(f, t) /\ at < p
  BY <1>5, <1>6, <1>7, <1>8, <1>9, Zenon DEF St!Back
<1>11. ASSUME A # {}
       PROVE  /\ St!Max(A) \in Found(f, t) /\ St!Max(A) < p
              /\ \A at \in Found(f, t) : at < p => at <= St!Max(A)
  <2>1. PICK n \in Nat : n = p /\ A \in SUBSET (0..n)
    <3>1. p \in Nat
      BY <1>3, <1>4 DEF BackInv
    <3>. QED
      BY <1>7, <1>10, <3>1
  <2>2. St!Max(A) \in A /\ \A y \in A : y <= St!Max(A)
    BY <1>11, <2>1, StringMax
  <2>. QED
    BY <1>10, <2>2, Zenon
<1>12. st_index < 0 => \A at \in Found(f, t) : ~ (at < p)
  BY <1>1, <1>2, <1>7
<1>. QED
  BY <1>1, <1>8, <1>10, <1>11, <1>12, Zenon

\* The text with an occurrence replaced.
LEMMA SplicedIs ==
  ASSUME NEW q
  PROVE  St!Spliced(q) = Join(Join(SubSeq(st_text, 1, q), st_replace),
                              SubSeq(st_text, q + Len(st_find) + 1, Len(st_text)))
BY DEF St!Spliced, Join

\* An occurrence is overwritten, or there is none.
LEMMA OverwriteStep == ASSUME StringInv, St!Overwrite PROVE StringInv'
<1>1. PICK f, w, t, s, r, c : /\ f = st_find /\ w = st_replace /\ t = st_before /\ s = st_text
                              /\ r = st_readFrom /\ c = st_capacity
  OBVIOUS
<1>2. /\ st_pc = "overwrite" /\ st_find' = f /\ st_replace' = w /\ st_before' = t
      /\ st_capacity' = c /\ st_diff' = st_diff /\ st_size' = st_size /\ st_index' = st_index
  BY <1>1, Zenon DEF St!Overwrite, St!args
<1>3. /\ Called(f, w, t) /\ s \in Seq(St!Character) /\ OverInv(f, w, t, s, r) /\ Fits(s, c)
      /\ c >= 0 /\ st_diff \in Int /\ st_size \in Nat /\ st_readFrom \in Nat /\ st_index \in Int
      /\ st_index >= -1 /\ ~ st_replaced
  BY <1>1, <1>2 DEF StringInv, StringCall, StringTypes, Fits
<1>4. CASE St!Ahead # {}
  <2>1. PICK q, u : /\ q = St!Min(St!Ahead)
                    /\ u = Join(Join(SubSeq(s, 1, q), w), SubSeq(s, q + Len(f) + 1, Len(s)))
    OBVIOUS
  <2>2. q \in Found(f, t) /\ q >= r /\ \A at \in Found(f, t) : at >= r => q <= at
    BY <1>1, <1>2, <1>4, <2>1, AheadIs
  <2>3. /\ st_text' = u /\ st_readFrom' = q + Len(w) /\ st_pc' = "overwrite"
        /\ st_replaced' = st_replaced
    BY <1>1, <1>2, <1>4, <2>1, SplicedIs, Zenon DEF St!Overwrite
  <2>4. u \in Seq(St!Character) /\ Len(u) = Len(t) /\ OverInv(f, w, t, u, q + Len(w))
    BY <1>3, <2>1, <2>2, OverGoes
  <2>5. Fits(u, c)
    BY <1>3, <2>4, Zenon DEF Fits, OverInv
  <2>6. q + Len(w) \in Nat
    BY <2>4 DEF OverInv
  <2>7. StringTypes'
    BY <1>2, <1>3, <2>3, <2>6 DEF StringTypes
  <2>8. StringCall'
    BY <1>2, <1>3, <2>3, <2>4 DEF StringCall
  <2>. QED
    BY <1>2, <2>3, <2>5, <2>7, <2>8, Zenon DEF StringInv
<1>5. CASE St!Ahead = {}
  <2>1. \A at \in Found(f, t) : ~ (at >= r)
    BY <1>1, <1>2, <1>5, AheadIs
  <2>2. DoneInv(f, w, t, s)
    BY <1>3, <2>1, OverGoes
  <2>3. st_text' = s /\ st_readFrom' = r /\ st_pc' = "returned"
    BY <1>1, <1>2, <1>5, Zenon DEF St!Overwrite, St!Return
  <2>7. StringTypes'
    BY <1>1, <1>2, <1>3, <2>3 DEF StringTypes
  <2>8. StringCall'
    BY <1>2, <1>3, <2>2, <2>3 DEF StringCall
  <2>. QED
    BY <1>2, <1>3, <2>3, <2>7, <2>8, Zenon DEF StringInv
<1>. QED
  BY <1>4, <1>5

\* An occurrence is counted,
LEMMA CountStep == ASSUME StringInv, St!Count PROVE StringInv'
<1>1. PICK f, w, t, r, d, z : /\ f = st_find /\ w = st_replace /\ t = st_before /\ t = st_text
                              /\ r = st_readFrom /\ d = st_diff /\ z = st_size
  BY DEF StringInv, StringCall, St!Count
<1>2. /\ st_pc = "count" /\ st_find' = f /\ st_replace' = w /\ st_before' = t /\ st_text' = t
      /\ st_capacity' = st_capacity /\ st_index' = st_index /\ st_replaced' = st_replaced
      /\ st_pc' = "count" /\ St!Ahead # {}
  BY <1>1, Zenon DEF St!Count, St!args
<1>3. /\ Called(f, w, t) /\ CountInv(f, w, t, r, d, z) /\ Fits(t, st_capacity)
      /\ st_capacity >= 0 /\ d \in Int /\ z \in Nat /\ r \in Nat /\ st_index \in Int
      /\ st_index >= -1 /\ ~ st_replaced
  BY <1>1, <1>2 DEF StringInv, StringCall, StringTypes
<1>4. PICK q, e, y : /\ q = St!Min(St!Ahead) /\ e = st_diff' /\ y = st_size'
  OBVIOUS
<1>5. q \in Found(f, t) /\ q >= r /\ \A at \in Found(f, t) : at >= r => q <= at
  BY <1>1, <1>2, <1>4, AheadIs
<1>6. /\ st_readFrom' = q + Len(f)
      /\ e = IF Len(w) < Len(f) THEN 0 - d ELSE d
      /\ y = IF Len(w) < Len(f) THEN z - e ELSE z + d
  BY <1>1, <1>4, Zenon DEF St!Count, St!Shorter
<1>7. CountInv(f, w, t, q + Len(f), e, y)
  BY <1>3, <1>5, <1>6, CountGoes
<1>8. q + Len(f) \in Nat /\ y \in Nat /\ e \in Int
  BY <1>3, <1>6, <1>7 DEF CountInv
<1>9. StringTypes'
  BY <1>2, <1>3, <1>4, <1>6, <1>8 DEF StringTypes
<1>10. StringCall'
  <2>1. st_diff' = e /\ st_size' = y /\ st_text' = st_before' /\ st_capacity' >= 0
    BY <1>2, <1>3, <1>4, Zenon
  <2>. QED
    BY <1>2, <1>3, <1>6, <1>7, <2>1 DEF StringCall
<1>. QED
  BY <1>2, <1>3, <1>9, <1>10, Zenon DEF StringInv

\* and there is none any more.
LEMMA CountedStep == ASSUME StringInv, St!Counted PROVE StringInv'
<1>1. PICK f, w, t, r, d, z : /\ f = st_find /\ w = st_replace /\ t = st_before /\ t = st_text
                              /\ r = st_readFrom /\ d = st_diff /\ z = st_size
  BY DEF StringInv, StringCall, St!Counted
<1>2. /\ st_pc = "count" /\ st_find' = f /\ st_replace' = w /\ st_before' = t /\ st_text' = t
      /\ st_diff' = d /\ st_size' = z /\ st_readFrom' = r /\ St!Ahead = {}
  BY <1>1, Zenon DEF St!Counted, St!args
<1>3. /\ Called(f, w, t) /\ CountInv(f, w, t, r, d, z) /\ Fits(t, st_capacity)
      /\ st_capacity >= 0 /\ d \in Int /\ z \in Nat /\ r \in Nat /\ st_index \in Int
      /\ st_index >= -1 /\ ~ st_replaced
  BY <1>1, <1>2 DEF StringInv, StringCall, StringTypes
<1>4. \A at \in Found(f, t) : ~ (at >= r)
  BY <1>1, <1>2, AheadIs
<1>5. t \in Seq(St!Character) /\ Len(t) \in Nat /\ t # <<>>
  <2>1. t \in Seq(St!Character) /\ t # <<>>
    BY <1>3, CalledIs, Zenon
  <2>. QED
    BY <2>1
<1>6. CASE z = Len(t) /\ St!Return(TRUE) /\ st_capacity' = st_capacity /\ st_index' = st_index
  <2>1. DoneInv(f, w, t, t)
    BY <1>3, <1>4, <1>6, CountEnds
  <2>2. st_pc' = "returned"
    BY <1>6 DEF St!Return
  <2>3. StringTypes' /\ Fits(st_text', st_capacity')
    BY <1>2, <1>3, <1>6, <2>2 DEF StringTypes
  <2>4. StringCall'
    BY <1>2, <1>3, <1>6, <2>1, <2>2 DEF StringCall
  <2>. QED
    BY <2>3, <2>4, Zenon DEF StringInv
<1>7. CASE St!Return(FALSE) /\ st_capacity' = st_capacity /\ st_index' = st_index
  <2>1. st_pc' = "returned" /\ ~ st_replaced'
    BY <1>7 DEF St!Return
  <2>2. StringTypes' /\ Fits(st_text', st_capacity')
    BY <1>2, <1>3, <1>7, <2>1 DEF StringTypes
  <2>3. StringCall'
    BY <1>2, <1>3, <1>7, <2>1 DEF StringCall
  <2>. QED
    BY <2>2, <2>3, Zenon DEF StringInv
<1>8. CASE /\ z # Len(t) /\ st_pc' = "backward" /\ st_index' = Len(t) - 1
           /\ st_capacity' = (IF St!Shorter \/ z <= st_capacity THEN st_capacity ELSE z)
           /\ st_replaced' = st_replaced
  <2>1. PICK c : c = st_capacity'
    OBVIOUS
  <2>2. c \in Int /\ c >= st_capacity /\ (Len(w) < Len(f) \/ c >= z)
    <3>1. st_capacity \in Int
      BY <1>3, Zenon DEF Fits
    <3>2. St!Shorter <=> Len(w) < Len(f)
      BY <1>1, Zenon DEF St!Shorter
    <3>3. CASE St!Shorter \/ z <= st_capacity
      <4>1. c = st_capacity
        BY <1>8, <2>1, <3>3, Zenon
      <4>. QED
        BY <3>1, <3>2, <3>3, <4>1
    <3>4. CASE ~ (St!Shorter \/ z <= st_capacity)
      <4>1. c = z
        BY <1>8, <2>1, <3>4, Zenon
      <4>. QED
        BY <1>3, <3>1, <3>4, <4>1
    <3>. QED
      BY <3>3, <3>4
  <2>3. BackInv(f, w, t, t, Len(t), c)
    BY <1>3, <1>4, <1>8, <2>2, CountEnds
  <2>4. st_index' \in Int /\ st_index' >= -1 /\ st_index' + 1 = Len(t)
    BY <1>5, <1>8
  <2>5. Fits(t, c) /\ c >= 0
    BY <1>3, <1>5, <2>2 DEF Fits
  <2>6. StringTypes'
    BY <1>2, <1>3, <1>8, <2>4 DEF StringTypes
  <2>7. StringCall'
    <3>1. BackInv(st_find', st_replace', st_before', st_text', st_index' + 1, st_capacity')
      BY <1>2, <2>1, <2>3, <2>4, Zenon
    <3>2. Called(st_find', st_replace', st_before') /\ st_capacity' >= 0
      BY <1>2, <1>3, <2>1, <2>5, Zenon
    <3>. QED
      BY <1>8, <3>1, <3>2 DEF StringCall
  <2>. QED
    BY <1>2, <2>1, <2>5, <2>6, <2>7, Zenon DEF StringInv
<1>. QED
  BY <1>1, <1>6, <1>7, <1>8, Zenon DEF St!Counted

\* An occurrence is replaced, or there is none in front.
LEMMA BackwardStep == ASSUME StringInv, St!Backward PROVE StringInv'
<1>1. PICK f, w, t, s, p, c : /\ f = st_find /\ w = st_replace /\ t = st_before /\ s = st_text
                              /\ p = st_index + 1 /\ c = st_capacity
  OBVIOUS
<1>2. /\ st_pc = "backward" /\ st_find' = f /\ st_replace' = w /\ st_before' = t
      /\ st_capacity' = c /\ st_diff' = st_diff /\ st_size' = st_size
      /\ st_readFrom' = st_readFrom
  BY <1>1, Zenon DEF St!Backward, St!args
<1>3. /\ Called(f, w, t) /\ s \in Seq(St!Character) /\ BackInv(f, w, t, s, p, c) /\ Fits(s, c)
      /\ c \in Int /\ c >= 0 /\ st_diff \in Int /\ st_size \in Nat /\ st_readFrom \in Nat
      /\ st_index \in Int /\ st_index >= -1 /\ ~ st_replaced
  BY <1>1, <1>2 DEF StringInv, StringCall, StringTypes, Fits
<1>4. CASE st_index >= 0 /\ St!Back # {}
  <2>1. PICK q, u : /\ q = St!Max(St!Back)
                    /\ u = Join(Join(SubSeq(s, 1, q), w), SubSeq(s, q + Len(f) + 1, Len(s)))
    OBVIOUS
  <2>2. q \in Found(f, t) /\ q < p /\ \A at \in Found(f, t) : at < p => at <= q
    BY <1>1, <1>2, <1>4, <2>1, BackIs
  <2>3. st_text' = u /\ st_index' = q - 1 /\ st_pc' = "backward" /\ st_replaced' = st_replaced
    BY <1>1, <1>2, <1>4, <2>1, SplicedIs, Zenon DEF St!Backward, St!NextIndex
  <2>4. Len(s) <= c
    BY <1>3 DEF Fits
  <2>5. u \in Seq(St!Character) /\ Len(u) <= c /\ BackInv(f, w, t, u, q, c)
    BY <1>3, <2>1, <2>2, <2>4, BackGoes
  <2>6. Fits(u, c)
    BY <1>3, <2>5 DEF Fits
  <2>7. q \in Nat
    BY <2>2, Zenon DEF Found
  <2>8. st_index' \in Int /\ st_index' >= -1 /\ st_index' + 1 = q
    BY <2>3, <2>7
  <2>9. StringTypes'
    BY <1>2, <1>3, <2>3, <2>8 DEF StringTypes
  <2>10. StringCall'
    <3>1. BackInv(st_find', st_replace', st_before', st_text', st_index' + 1, st_capacity')
      BY <1>2, <2>3, <2>5, <2>8, Zenon
    <3>2. Called(st_find', st_replace', st_before') /\ st_capacity' >= 0
      BY <1>2, <1>3, Zenon
    <3>. QED
      BY <2>3, <3>1, <3>2 DEF StringCall
  <2>. QED
    BY <1>2, <2>3, <2>6, <2>9, <2>10, Zenon DEF StringInv
<1>5. CASE ~ (st_index >= 0 /\ St!Back # {})
  <2>1. st_index < 0 \/ St!Back = {}
    BY <1>3, <1>5
  <2>2. \A at \in Found(f, t) : ~ (at < p)
    BY <1>1, <1>2, <2>1, BackIs
  <2>3. DoneInv(f, w, t, s)
    BY <1>3, <2>2, BackGoes
  <2>4. st_text' = s /\ st_index' = st_index /\ st_pc' = "returned"
    BY <1>1, <1>2, <1>5, Zenon DEF St!Backward, St!Return
  <2>5. StringTypes'
    BY <1>2, <1>3, <2>4 DEF StringTypes
  <2>6. StringCall'
    BY <1>2, <1>3, <2>3, <2>4 DEF StringCall
  <2>. QED
    BY <1>2, <1>3, <2>4, <2>5, <2>6, Zenon DEF StringInv
<1>. QED
  BY <1>4, <1>5

\* The call is left.
LEMMA LeaveStep == ASSUME StringInv, St!Leave PROVE StringInv'
<1>1. /\ st_pc' = "idle" /\ st_diff' = 0 /\ st_size' = 0 /\ st_readFrom' = 0 /\ st_index' = 0
      /\ st_replaced' = FALSE /\ st_text' = st_text /\ st_capacity' = st_capacity
  BY DEF St!Leave
<1>2. StringTypes'
  BY <1>1 DEF StringTypes
<1>3. StringCall'
  BY <1>1 DEF StringCall
<1>. QED
  BY <1>1, <1>2, <1>3, Zenon DEF StringInv

\* Every step keeps it.
LEMMA StringStep == StringInv /\ [St!Next]_(St!vars) => StringInv'
<1>1. SUFFICES ASSUME StringInv, [St!Next]_(St!vars) PROVE StringInv'
  OBVIOUS
<1>2. CASE UNCHANGED St!vars
  BY <1>1, <1>2 DEF St!vars, St!args, St!loops, StringInv, StringTypes, StringCall
<1>3. ASSUME NEW s \in StringTexts, St!Assign(s) PROVE StringInv'
  BY <1>1, <1>3, AssignStep
<1>4. ASSUME NEW s \in StringTexts, St!Concat(s) PROVE StringInv'
  BY <1>1, <1>4, ConcatStep
<1>5. ASSUME NEW at \in 0..MaxText, NEW count \in 0..MaxText, St!Removes(at, count)
      PROVE  StringInv'
  BY <1>1, <1>5, RemovesStep
<1>6. ASSUME NEW p \in Replacements, St!Replace(p[1], p[2]) PROVE StringInv'
  BY <1>1, <1>6, ReplaceStep
<1>7. CASE St!Overwrite
  BY <1>1, <1>7, OverwriteStep
<1>8. CASE St!Count
  BY <1>1, <1>8, CountStep
<1>9. CASE St!Counted
  BY <1>1, <1>9, CountedStep
<1>10. CASE St!Backward
  BY <1>1, <1>10, BackwardStep
<1>11. CASE St!Leave
  BY <1>1, <1>11, LeaveStep
<1>. QED
  BY <1>1, <1>2, <1>3, <1>4, <1>5, <1>6, <1>7, <1>8, <1>9, <1>10, <1>11, Zenon DEF St!Next

\* The text of replace() is always what is left of the old one and what is made of the rest.
THEOREM StringInvariance == St!Spec => []StringInv
<1>1. St!Init => StringInv
  BY StringStart
<1>2. StringInv /\ [St!Next]_(St!vars) => StringInv'
  BY StringStep
<1>. QED
  BY <1>1, <1>2, PTL DEF St!Spec

\* The text fits its buffer, in the middle of replace() as well, for every text.
THEOREM StringTyped == St!Spec => []St!TypeOK
<1>1. StringInv => St!TypeOK
  BY StringGives
<1>. QED
  BY <1>1, StringInvariance, PTL

\* replace() replaces each occurrence once, for every text and every replacement that is apart
\* from what it replaces, but for a shorter one of an even number of occurrences.
THEOREM ReplacesEachOnce == St!Spec => []ReplacesOnce
<1>1. StringInv => ReplacesOnce
  BY StringGives
<1>. QED
  BY <1>1, StringInvariance, PTL

\* Together: no buffer of a role of TwoWire, of a String or of a search, no count and no register
\* of the clock leaves its type, for every size, bound, text and number.
THEOREM LibraryTypes ==
  Spec /\ Slave!Spec /\ Rtc!Spec /\ Tx!Spec /\ Nu!Spec /\ St!Spec => []TypesOK
<1>1. TypeOK /\ Slave!TypeOK /\ Rtc!TypeOK /\ Tx!TypeOK /\ Nu!TypeOK /\ St!TypeOK => TypesOK
  BY DEF TypesOK
<1>. QED
  BY <1>1, MasterTypes, SlaveTypes, RtcTypes, TextTyped, PrintTyped, StringTyped, PTL
=============================================================================
