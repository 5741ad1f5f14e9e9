------------------------ MODULE UsbOutEndpoint_proofs ------------------------
(***************************************************************************)
(* Proofs about UsbOutEndpoint for every bank size, ring size and number   *)
(* of bytes.                                                               *)
(***************************************************************************)
EXTENDS UsbOutEndpoint, TLAPS

Other == 1 - Draining

\* Who owns what: the strengthening of NotFilledWhileReady, NotifyExact and
\* BanksInOrder that is inductive.  An interrupt without a packet behind it is
\* served as an empty one; a configuration that is selected again leaves one.
Shape ==
  /\ addr = incoming
  /\ NotifyExact
  /\ BanksInOrder
  /\ bus = "filling" => bk0rdy = 0
  /\ trcpt = 1 /\ isr = "idle" => notify = 0 /\ (bk0rdy = 1 \/ byteCount = 0)
  /\ pc \in {"check", "copy"} => room + Len(rx) = RingSize
  /\ pc \in {"copy", "free"} => Draining \in ready
  /\ first[Other] = 0
  /\ pc = "free" \/ Draining \notin ready => first[Draining] = 0
  /\ Draining \in ready => first[Draining] <= last[Draining]

\* Where each byte of the stream is: the ring buffer holds the ones after
\* those already read, the bank being drained the ones after these, then the
\* other bank, then the packet in the hardware.
Taken == got + Len(rx)
InDraining == Unread(Draining)
InOther == Unread(Other)

RingContent == \A i \in 1..Len(rx) : rx[i] = got + i

DrainingContent ==
  pc # "free" /\ Draining \in ready =>
    \A j \in 0..Size-1 : first[Draining] <= j /\ j < last[Draining] =>
       data[Draining][j] = Taken + 1 + (j - first[Draining])

OtherContent ==
  Other \in ready =>
    \A j \in 0..Size-1 : j < last[Other] =>
       data[Other][j] = Taken + InDraining + 1 + j

PendingContent ==
  bk0rdy = 1 /\ notify = 0 =>
    \A j \in 0..Size-1 : j < byteCount =>
       data[addr][j] = Taken + InDraining + InOther + 1 + j

FillContent ==
  bus = "filling" =>
    \A j \in 0..Size-1 : j < fill => data[addr][j] = sent + 1 + j

AllAccounted == sent = Taken + InDraining + InOther + Pending

Content == /\ RingContent /\ DrainingContent /\ OtherContent
           /\ PendingContent /\ FillContent /\ AllAccounted

IInv == TypeOK /\ Shape /\ Content
-----------------------------------------------------------------------------
USE SizeAssumption, RingAssumption, BoundAssumption DEF Bank, Bit, Calls

\* A cut of the ring buffer stays a sequence of bytes.
LEMMA CutType ==
  ASSUME NEW s \in Seq(Nat), NEW m \in Nat \ {0}, NEW n \in 0..Len(s)
  PROVE  /\ SubSeq(s, m, n) \in Seq(Nat)
         /\ m <= n + 1 => Len(SubSeq(s, m, n)) = n - m + 1
         /\ \A i \in 1..(n - m + 1) : SubSeq(s, m, n)[i] = s[i + m - 1]
OBVIOUS

\* Storing a value of the range in a function keeps its type.
LEMMA StoreType ==
  ASSUME NEW S, NEW T, NEW f \in [S -> T], NEW x, NEW y \in T
  PROVE  [f EXCEPT ![x] = y] \in [S -> T]
OBVIOUS

\* The other bank is a bank.
LEMMA OtherBank == \A b \in Bank : 1 - b \in Bank
BY DEF Bank

\* One byte of one bank changed: the banks keep their type.
LEMMA Store2Type ==
  ASSUME NEW S, NEW R, NEW T, NEW f \in [S -> [R -> T]],
         NEW x \in S, NEW z, NEW y \in T
  PROVE  [f EXCEPT ![x][z] = y] \in [S -> [R -> T]]
OBVIOUS

\* Every step keeps the types.
LEMMA TypeStep == TypeOK /\ [Next]_vars => TypeOK'
<1> SUFFICES ASSUME TypeOK, [Next]_vars PROVE TypeOK'
  OBVIOUS
<1> USE DEF Step, sketch, shared, hw, hist
<1>a. /\ first \in [Bank -> 0..Size] /\ last \in [Bank -> 0..Size]
      /\ ready \in SUBSET Bank
      /\ data \in [Bank -> [0..Size-1 -> Nat]]
  BY DEF TypeOK
<1>b. rx \in Seq(Nat) /\ Len(rx) <= RingSize /\ room \in Nat /\ want \in Nat
  BY DEF TypeOK
<1>c. current \in Bank /\ incoming \in Bank /\ addr \in Bank
  BY DEF TypeOK
<1>d. /\ byteCount \in 0..Size /\ fill \in 0..Size /\ sent \in Nat /\ got \in Nat
      /\ bk0rdy \in Bit
  BY DEF TypeOK
<1>1. CASE CallRecv
  BY <1>1, SMTT(30) DEF CallRecv, Call, Calls, TypeOK
<1>2. CASE CallOther
  BY <1>2, SMTT(30) DEF CallOther, Call, Calls, TypeOK
<1>3. CASE ReadLen
  BY <1>3, SMTT(30) DEF ReadLen, TypeOK
<1>4. CASE CheckReady
  BY <1>4 DEF CheckReady, TypeOK
<1>5. CASE CopyByte
  <2>1. first[current] \in 0..Size-1 /\ room - 1 \in Nat
    BY <1>5, <1>a, <1>b, <1>c DEF CopyByte, MoreToCopy
  <2>2. data[current][first[current]] \in Nat
    BY <2>1, <1>a, <1>c
  <2>3. rx' \in Seq(Nat) /\ Len(rx') <= RingSize
    BY <1>5, <2>2, <1>b DEF CopyByte, StoreChar
  <2>4. first' \in [Bank -> 0..Size]
    <3>1. first[current] + 1 \in 0..Size
      BY <2>1
    <3>2. first' = [first EXCEPT ![current] = first[current] + 1]
      BY <1>5 DEF CopyByte
    <3> QED
      BY <3>1, <3>2, <1>a, StoreType
  <2> QED
    BY <1>5, <2>1, <2>3, <2>4 DEF CopyByte, TypeOK
<1>6. CASE SwapBank
  <2>1. first' = [first EXCEPT ![current] = 0] /\ current' = 1 - current
    BY <1>6 DEF SwapBank
  <2>2. first' \in [Bank -> 0..Size] /\ current' \in Bank
    <3>1. 0 \in 0..Size
      OBVIOUS
    <3>2. first' \in [Bank -> 0..Size]
      BY <3>1, <2>1, <1>a, StoreType
    <3> QED
      BY <3>2, <2>1, <1>c
  <2>3. pc' = "free" /\ UNCHANGED <<call, want, room, rx, shared, isr, hw, hist>>
    BY <1>6 DEF SwapBank
  <2> QED
    BY <2>2, <2>3 DEF TypeOK
<1>7. CASE StopCopy
  BY <1>7 DEF StopCopy, TypeOK
<1>8. CASE FreeBank
  <2>1. ready' \in SUBSET Bank /\ byteCount' \in 0..Size /\ bk0rdy' \in Bit
    BY <1>8, <1>a, <1>d, SMTT(30) DEF FreeBank, Release, TypeOK
  <2>2. /\ pc' = "body" /\ notify' = 0
        /\ UNCHANGED <<call, want, room, current, first, rx, last, incoming, isr,
                       data, addr, trcpt, bus, fill, hist>>
    BY <1>8 DEF FreeBank
  <2> QED
    BY <2>1, <2>2 DEF TypeOK
<1>9. CASE RecvBody
  <2> DEFINE k == MinOf(want, Len(rx))
  <2>1. k \in 0..Len(rx)
    BY <1>b DEF MinOf
  <2>2. out' = SubSeq(rx, 1, k) /\ rx' = SubSeq(rx, k + 1, Len(rx)) /\ got' = got + k
    BY <1>9 DEF RecvBody
  <2> HIDE DEF k
  <2>3. out' \in Seq(Nat)
    BY <2>1, <2>2, <1>b, CutType
  <2>4. rx' \in Seq(Nat) /\ Len(rx') = Len(rx) - k
    BY <2>1, <2>2, <1>b, CutType
  <2>5. Len(rx') <= RingSize /\ got' \in Nat
    BY <2>1, <2>2, <2>4, <1>b, <1>d
  <2> QED
    BY <1>9, <2>3, <2>4, <2>5 DEF RecvBody, TypeOK
<1>10. CASE AvailableBody
  BY <1>10, SMTT(30) DEF AvailableBody, TypeOK
<1>11. CASE PeekBody
  <2>1. out' \in Seq(Nat)
    <3>1. CASE rx = <<>>
      BY <1>11, <3>1 DEF PeekBody
    <3>2. CASE rx # <<>>
      <4>1. Head(rx) \in Nat
        BY <3>2, <1>b
      <4> QED
        BY <1>11, <3>2, <4>1 DEF PeekBody
    <3> QED
      BY <3>1, <3>2
  <2> QED
    BY <1>11, <2>1 DEF PeekBody, TypeOK
<1>12. CASE IsrZlp
  BY <1>12 DEF IsrZlp, Release, TypeOK
<1>13. CASE IsrPacket
  <2>1. last' \in [Bank -> 0..Size]
    BY <1>13, <1>a, <1>d, StoreType, Zenon DEF IsrPacket
  <2>2. ready' \in SUBSET Bank /\ incoming' \in Bank /\ addr' \in Bank
    BY <1>13, <1>a, <1>c DEF IsrPacket
  <2>3. notify' \in Bit /\ byteCount' \in 0..Size /\ bk0rdy' \in Bit
    <3>1. /\ notify' \in Bit
          /\ \/ byteCount' = byteCount /\ bk0rdy' = bk0rdy
             \/ byteCount' = 0 /\ bk0rdy' = 0
      BY <1>13 DEF IsrPacket, Release
    <3> QED
      BY <3>1, <1>d
  <2>4. isr' = "ack" /\ UNCHANGED <<sketch, data, trcpt, bus, fill, hist>>
    BY <1>13 DEF IsrPacket
  <2> QED
    BY <2>1, <2>2, <2>3, <2>4 DEF TypeOK
<1>14. CASE IsrAck
  BY <1>14 DEF IsrAck, TypeOK
<1>15. CASE BusStart
  BY <1>15 DEF BusStart, TypeOK
<1>16. CASE BusByte
  <2>1. sent + fill + 1 \in Nat /\ fill + 1 \in 0..Size
    BY <1>16, <1>d DEF BusByte
  <2>2. data' \in [Bank -> [0..Size-1 -> Nat]]
    <3>1. data' = [data EXCEPT ![addr][fill] = sent + fill + 1]
      BY <1>16 DEF BusByte
    <3> HIDE DEF Bank
    <3> QED
      BY <3>1, <2>1, <1>a, <1>c, Store2Type, ZenonT(40)
  <2>3. fill' = fill + 1 /\ UNCHANGED <<sketch, shared, isr, addr, byteCount,
                                         bk0rdy, trcpt, bus, hist>>
    BY <1>16 DEF BusByte
  <2> QED
    BY <2>1, <2>2, <2>3, SMTT(30) DEF TypeOK
<1>17. CASE BusDone
  BY <1>17 DEF BusDone, TypeOK
<1>18. CASE BusError
  BY <1>18 DEF BusError, TypeOK
<1>19. CASE UNCHANGED vars
  BY <1>19 DEF vars, TypeOK
<1> QED
  BY <1>1, <1>2, <1>3, <1>4, <1>5, <1>6, <1>7, <1>8, <1>9, <1>10, <1>11, <1>12,
     <1>13, <1>14, <1>15, <1>16, <1>17, <1>18, <1>19 DEF Next, InCall, Bus

\* The endpoint begins in its type.
LEMMA TypeInit == Init => TypeOK
<1> SUFFICES ASSUME Init PROVE TypeOK
  OBVIOUS
<1>1. data \in [Bank -> [0..Size-1 -> Nat]]
  BY DEF Init
<1>2. ready \in SUBSET Bank /\ first \in [Bank -> 0..Size] /\ last \in [Bank -> 0..Size]
  BY DEF Init
<1>3. rx \in Seq(Nat) /\ Len(rx) <= RingSize /\ out \in Seq(Nat)
  BY DEF Init
<1> QED
  BY <1>1, <1>2, <1>3 DEF Init, TypeOK

\* Every variable of the endpoint keeps its type, in particular the offsets
\* stay inside the banks and the ring buffer inside its array.
THEOREM TypeCorrect == Spec => []TypeOK
BY TypeInit, TypeStep, PTL DEF Spec

-----------------------------------------------------------------------------
\* Every step keeps the ownership of the banks.
LEMMA ShapeStep == TypeOK /\ Shape /\ [Next]_vars => Shape'
<1> SUFFICES ASSUME TypeOK, Shape, [Next]_vars PROVE Shape'
  OBVIOUS
<1> USE DEF Step, sketch, shared, hw, hist, Shape, NotifyExact, BanksInOrder,
            Draining, Other
<1>a. /\ first \in [Bank -> 0..Size] /\ last \in [Bank -> 0..Size]
      /\ ready \in SUBSET Bank
  BY DEF TypeOK
<1>b. rx \in Seq(Nat) /\ Len(rx) <= RingSize /\ room \in Nat
  BY DEF TypeOK
<1>c. current \in Bank /\ incoming \in Bank /\ addr \in Bank
  BY DEF TypeOK
<1>d. byteCount \in 0..Size /\ bk0rdy \in Bit /\ notify \in Bit /\ trcpt \in Bit
  BY DEF TypeOK
<1>1. CASE CallRecv
  BY <1>1, <1>a, <1>b, <1>c, <1>d DEF CallRecv, Call
<1>2. CASE CallOther
  BY <1>2, <1>a, <1>b, <1>c, <1>d DEF CallOther, Call
<1>3. CASE ReadLen
  BY <1>3, <1>a, <1>b, <1>c, <1>d DEF ReadLen
<1>4. CASE CheckReady
  BY <1>4, <1>a, <1>b, <1>c, <1>d DEF CheckReady
<1>5. CASE CopyByte
  <2>1. /\ room > 0 /\ room' = room - 1 /\ pc = "copy" /\ pc' = "copy"
        /\ first[current] < last[current]
        /\ UNCHANGED <<current, shared, isr, hw>>
    BY <1>5 DEF CopyByte, MoreToCopy
  <2>2. Len(rx') = Len(rx) + 1
    BY <1>5, <2>1, <1>b DEF CopyByte, StoreChar
  <2>3. first'[current] = first[current] + 1 /\ first'[1 - current] = 0
    BY <1>5, <2>1, <1>a, <1>c DEF CopyByte
  <2>4. current \in ready /\ first[current] + 1 <= last[current]
    BY <2>1, <1>a, <1>c
  <2>5. NotifyExact' /\ BanksInOrder'
    BY <2>1
  <2>6. room' + Len(rx') = RingSize
    BY <2>1, <2>2, <1>b
  <2> QED
    BY <2>1, <2>3, <2>4, <2>5, <2>6, <1>c
<1>6. CASE SwapBank
  BY <1>6, <1>a, <1>b, <1>c, <1>d DEF SwapBank, MoreToCopy
<1>7. CASE StopCopy
  BY <1>7, <1>a, <1>b, <1>c, <1>d DEF StopCopy
<1>8. CASE FreeBank
  BY <1>8, <1>a, <1>b, <1>c, <1>d DEF FreeBank, Release
<1>9. CASE RecvBody
  BY <1>9, <1>a, <1>b, <1>c, <1>d DEF RecvBody
<1>10. CASE AvailableBody
  BY <1>10, <1>a, <1>b, <1>c, <1>d DEF AvailableBody
<1>11. CASE PeekBody
  BY <1>11, <1>a, <1>b, <1>c, <1>d DEF PeekBody
<1>12. CASE IsrZlp
  BY <1>12, <1>a, <1>b, <1>c, <1>d DEF IsrZlp, Release
<1>13. CASE IsrPacket
  <2>1. /\ notify = 0 /\ bk0rdy = 1 /\ incoming \notin ready
        /\ isr' = "ack" /\ incoming' = 1 - incoming /\ addr' = 1 - incoming
        /\ ready' = ready \cup {incoming}
        /\ UNCHANGED <<pc, current, first, rx, room, bus>>
    BY <1>13, <1>d DEF IsrPacket
  <2>2. bus # "filling"
    BY <2>1
  <2>3. CASE 1 - incoming \in ready
    <3>1. notify' = 1 /\ bk0rdy' = 1 /\ ready' = Bank
      <4>1. notify' = 1
        BY <1>13, <2>3 DEF IsrPacket
      <4>2. bk0rdy' = bk0rdy
        BY <1>13, <4>1 DEF IsrPacket
      <4>3. ready' = Bank
        BY <2>1, <2>3, <1>a, <1>c
      <4> QED
        BY <2>1, <4>1, <4>2, <4>3
    <3>2. Draining = 1 - incoming /\ last'[Draining] = last[Draining]
      BY <1>13, <2>1, <2>3, <1>a, <1>c DEF IsrPacket
    <3>3. Draining' = incoming' /\ bus' = "idle"
      <4>1. Draining' = Draining /\ bus \in {"idle", "filling"}
        BY <2>1 DEF TypeOK
      <4> QED
        BY <4>1, <2>1, <2>2, <3>2
    <3>4. first[Other] = 0 /\ first[Draining] <= last[Draining] /\ Draining \in ready
      BY <2>1, <2>3, <3>2
    <3> QED
      BY <2>1, <2>2, <3>1, <3>2, <3>3, <3>4, <1>c
  <2>4. CASE 1 - incoming \notin ready
    <3>1. notify' = 0 /\ bk0rdy' = 0
      BY <1>13, <2>4 DEF IsrPacket, Release
    <3>2. incoming \in ready' /\ 1 - incoming \notin ready'
      BY <2>1, <2>4, <1>c
    <3>3. /\ Draining = incoming /\ pc \notin {"copy", "free"}
          /\ first[incoming] = 0 /\ first[1 - incoming] = 0
      BY <2>1, <2>4, <1>c
    <3>4. last'[incoming] = byteCount
      BY <1>13, <1>a, <1>c DEF IsrPacket
    <3>5. NotifyExact'
      BY <3>1, <3>2, <1>c
    <3>6. BanksInOrder'
      BY <2>1, <3>1, <3>2, <3>3, <1>c
    <3> QED
      BY <2>1, <2>2, <3>1, <3>3, <3>4, <3>5, <3>6, <1>c, <1>d
  <2> QED
    BY <2>3, <2>4
<1>14. CASE IsrAck
  BY <1>14, <1>a, <1>b, <1>c, <1>d DEF IsrAck
<1>15. CASE BusStart
  BY <1>15, <1>a, <1>b, <1>c, <1>d DEF BusStart
<1>16. CASE BusByte
  BY <1>16, <1>a, <1>b, <1>c, <1>d DEF BusByte
<1>17. CASE BusDone
  BY <1>17, <1>a, <1>b, <1>c, <1>d DEF BusDone
<1>18. CASE BusError
  BY <1>18, <1>a, <1>b, <1>c, <1>d DEF BusError
<1>19. CASE UNCHANGED vars
  BY <1>19, <1>a, <1>b, <1>c, <1>d DEF vars
<1> QED
  BY <1>1, <1>2, <1>3, <1>4, <1>5, <1>6, <1>7, <1>8, <1>9, <1>10, <1>11, <1>12, <1>13, <1>14, <1>15, <1>16, <1>17, <1>18, <1>19 DEF Next, InCall, Bus
-----------------------------------------------------------------------------
\* What the types and the shape say about the quantities of Content.
LEMMA Quantities ==
  ASSUME TypeOK, Shape
  PROVE  /\ Taken \in Nat /\ InDraining \in 0..Size /\ InOther \in 0..Size
         /\ Draining \in Bank /\ Other \in Bank /\ Other # Draining
         /\ Pending \in 0..Size
<1>1. /\ first \in [Bank -> 0..Size] /\ last \in [Bank -> 0..Size]
      /\ current \in Bank
  BY DEF TypeOK
<1>2. Draining \in Bank /\ Other \in Bank /\ Other # Draining
  BY <1>1 DEF Draining, Other
<1>3. /\ first[Other] = 0 /\ last[Other] \in 0..Size /\ last[Draining] \in 0..Size
      /\ first[Draining] \in 0..Size
      /\ Draining \in ready => first[Draining] <= last[Draining]
  BY <1>1, <1>2 DEF Shape
<1>4. InDraining \in 0..Size /\ InOther \in 0..Size
  BY <1>3 DEF InDraining, InOther, Unread
<1>5. Taken \in Nat /\ Pending \in 0..Size
  BY DEF TypeOK, Taken, Pending
<1> QED
  BY <1>2, <1>4, <1>5

\* The byte moves from the bank being drained to the end of the ring buffer.
LEMMA CopyByteContent ==
  ASSUME TypeOK, Shape, Content, CopyByte
  PROVE  Content'
<1> USE DEF Step, sketch, shared, hw, hist
<1>1. /\ pc = "copy" /\ pc' = "copy" /\ room > 0 /\ first[current] < last[current]
      /\ first' = [first EXCEPT ![current] = @ + 1]
      /\ rx' = StoreChar(rx, data[current][first[current]])
      /\ UNCHANGED <<current, shared, hw, hist>>
  BY DEF CopyByte, MoreToCopy
<1>2. /\ first \in [Bank -> 0..Size] /\ last \in [Bank -> 0..Size]
      /\ data \in [Bank -> [0..Size-1 -> Nat]] /\ rx \in Seq(Nat) /\ current \in Bank
      /\ room \in Nat /\ got \in Nat /\ sent \in Nat
  BY DEF TypeOK
<1>3. Draining = current /\ Other = 1 - current /\ Draining' = Draining /\ Other' = Other
  BY <1>1 DEF Draining, Other
<1>4. Draining \in ready /\ first[Draining] \in 0..Size-1
  BY <1>1, <1>2, <1>3, SMTT(30) DEF Shape
<1>5. /\ first'[Draining] = first[Draining] + 1 /\ first'[Other] = first[Other]
  BY <1>1, <1>2, <1>3
<1>6. data[Draining][first[Draining]] \in Nat
  BY <1>2, <1>3, <1>4
<1>7. /\ Len(rx') = Len(rx) + 1
      /\ \A k \in 1..Len(rx) : rx'[k] = rx[k]
      /\ rx'[Len(rx) + 1] = data[Draining][first[Draining]]
  <2>1. Len(rx) # RingSize
    BY <1>1, <1>2 DEF Shape
  <2>2. rx' = Append(rx, data[Draining][first[Draining]])
    BY <1>1, <1>3, <2>1 DEF StoreChar
  <2> QED
    BY <1>2, <1>6, <2>2
<1>8. Taken' = Taken + 1 /\ InDraining' = InDraining - 1 /\ InOther' = InOther /\ Pending' = Pending
  <2>1. Taken' = Taken + 1
    BY <1>1, <1>2, <1>7 DEF Taken
  <2>2. InDraining' = InDraining - 1
    BY <1>1, <1>2, <1>3, <1>4, <1>5, SMTT(30) DEF InDraining, Unread
  <2>3. InOther' = InOther
    BY <1>1, <1>2, <1>3, <1>5 DEF InOther, Unread
  <2> QED
    BY <1>1, <2>1, <2>2, <2>3 DEF Pending
<1>9. data[Draining][first[Draining]] = Taken + 1
  <2>1. \A j \in 0..Size-1 : first[Draining] <= j /\ j < last[Draining] =>
           data[Draining][j] = Taken + 1 + (j - first[Draining])
    BY <1>1, <1>4 DEF Content, DrainingContent
  <2>2. data[Draining][first[Draining]] = Taken + 1 + (first[Draining] - first[Draining])
    BY <2>1, <1>1, <1>3, <1>4
  <2> QED
    BY <2>2, <1>4, Quantities
<1>10. RingContent'
  <2>1. SUFFICES ASSUME NEW i \in 1..Len(rx) + 1 PROVE rx'[i] = got + i
    BY <1>1, <1>7 DEF RingContent
  <2>2. CASE i \in 1..Len(rx)
    BY <2>2, <1>7 DEF Content, RingContent
  <2>3. CASE i = Len(rx) + 1
    BY <2>3, <1>2, <1>7, <1>9 DEF Taken
  <2> QED
    BY <2>1, <2>2, <2>3, <1>2
<1>11. DrainingContent'
  <2>1. SUFFICES ASSUME NEW j \in 0..Size-1,
                        first[Draining] + 1 <= j, j < last[Draining]
                 PROVE  data[Draining][j] = Taken + 1 + 1 + (j - (first[Draining] + 1))
    BY <1>1, <1>3, <1>5, <1>8 DEF DrainingContent
  <2>2. data[Draining][j] = Taken + 1 + (j - first[Draining])
    BY <1>1, <1>4, <2>1 DEF Content, DrainingContent
  <2> QED
    BY <2>2, <1>4, Quantities
<1>12. OtherContent'
  BY <1>1, <1>3, <1>8, Quantities DEF Content, OtherContent
<1>13. PendingContent'
  BY <1>1, <1>8, Quantities DEF Content, PendingContent
<1>14. FillContent' /\ AllAccounted'
  BY <1>1, <1>8, Quantities DEF Content, FillContent, AllAccounted
<1> QED
  BY <1>10, <1>11, <1>12, <1>13, <1>14 DEF Content

\* The drained bank holds nothing any more; the sketch forgets about it.
LEMMA SwapBankContent ==
  ASSUME TypeOK, Shape, Content, SwapBank
  PROVE  Content'
<1> USE DEF Step, sketch, shared, hw, hist
<1>1. /\ pc = "copy" /\ pc' = "free" /\ first[current] = last[current]
      /\ first' = [first EXCEPT ![current] = 0] /\ current' = 1 - current
      /\ UNCHANGED <<rx, shared, hw, hist>>
  BY DEF SwapBank
<1>2. /\ first \in [Bank -> 0..Size] /\ last \in [Bank -> 0..Size] /\ current \in Bank
  BY DEF TypeOK
<1>3. Draining = current /\ Other = 1 - current /\ Draining' = Draining /\ Other' = Other
  BY <1>1, <1>2 DEF Draining, Other
<1>4. first'[Other] = first[Other]
  BY <1>1, <1>2, <1>3
<1>5. Taken' = Taken /\ InDraining = 0 /\ InDraining' = 0 /\ InOther' = InOther /\ Pending' = Pending
  <2>1. Taken' = Taken /\ Pending' = Pending
    BY <1>1 DEF Taken, Pending
  <2>2. InDraining = 0
    BY <1>1, <1>2, <1>3 DEF InDraining, Unread
  <2>3. InDraining' = 0
    BY <1>1, <1>3 DEF InDraining, Unread
  <2>4. InOther' = InOther
    BY <1>1, <1>2, <1>3, <1>4 DEF InOther, Unread
  <2> QED
    BY <2>1, <2>2, <2>3, <2>4
<1>6. RingContent' /\ FillContent'
  BY <1>1 DEF Content, RingContent, FillContent
<1>7. DrainingContent'
  BY <1>1 DEF DrainingContent
<1>8. OtherContent' /\ PendingContent' /\ AllAccounted'
  BY <1>1, <1>3, <1>5 DEF Content, OtherContent, PendingContent, AllAccounted
<1> QED
  BY <1>6, <1>7, <1>8 DEF Content

\* The other bank becomes the one to drain; if it holds a packet, this bank
\* was the reason the endpoint was not released.
LEMMA FreeBankContent ==
  ASSUME TypeOK, Shape, Content, FreeBank
  PROVE  Content'
<1> USE DEF Step, sketch, shared, hw, hist
<1>1. /\ pc = "free" /\ pc' = "body"
      /\ ready' = ready \ {1 - current} /\ notify' = 0
      /\ \/ notify = 1 /\ byteCount' = 0 /\ bk0rdy' = 0
         \/ notify # 1 /\ UNCHANGED <<byteCount, bk0rdy>>
      /\ UNCHANGED <<current, first, rx, last, data, addr, bus, fill, hist>>
  BY DEF FreeBank, Release
<1>2. /\ first \in [Bank -> 0..Size] /\ last \in [Bank -> 0..Size] /\ current \in Bank
      /\ notify \in Bit
  BY DEF TypeOK
<1>3. Draining = 1 - current /\ Other = current /\ Draining' = Other /\ Other' = Draining
  BY <1>1, <1>2 DEF Draining, Other
<1>4. Taken' = Taken /\ InDraining = 0 /\ InDraining' = InOther /\ InOther' = 0
  <2>1. Taken' = Taken
    BY <1>1 DEF Taken
  <2>2. InDraining = 0
    BY <1>1 DEF InDraining, Unread
  <2>3. InDraining' = InOther
    BY <1>1, <1>2, <1>3 DEF InDraining, InOther, Unread
  <2>4. InOther' = 0
    BY <1>1, <1>3 DEF InOther, Unread
  <2> QED
    BY <2>1, <2>2, <2>3, <2>4
<1>5. Pending' = Pending
  BY <1>1, <1>2 DEF Pending
<1>6. RingContent' /\ FillContent'
  BY <1>1 DEF Content, RingContent, FillContent
<1>7. DrainingContent'
  <2>1. first'[Draining'] = 0 /\ last' = last /\ data' = data
    BY <1>1, <1>3 DEF Shape
  <2>2. Draining' \in ready' => Other \in ready
    BY <1>1, <1>3
  <2> QED
    BY <1>3, <1>4, <2>1, <2>2, Quantities DEF Content, OtherContent, DrainingContent
<1>8. OtherContent'
  BY <1>1, <1>3 DEF OtherContent
<1>9. PendingContent'
  BY <1>1, <1>2, <1>4, Quantities DEF Content, PendingContent
<1>10. AllAccounted'
  BY <1>1, <1>4, <1>5, Quantities DEF Content, AllAccounted
<1> QED
  BY <1>6, <1>7, <1>8, <1>9, <1>10 DEF Content

\* The first bytes of the ring buffer are the next ones of the stream.
LEMMA RecvBodyContent ==
  ASSUME TypeOK, Shape, Content, RecvBody
  PROVE  /\ Content'
         /\ \E k \in 0..Len(rx) : /\ got' = got + k
                                  /\ out' = [i \in 1..k |-> got + i]
<1> USE DEF Step, sketch, shared, hw, hist
<1> DEFINE k == MinOf(want, Len(rx))
<1>1. /\ pc = "body" /\ pc' = "app"
      /\ out' = SubSeq(rx, 1, k) /\ rx' = SubSeq(rx, k + 1, Len(rx)) /\ got' = got + k
      /\ UNCHANGED <<current, first, shared, hw, sent>>
  BY DEF RecvBody
<1>2. rx \in Seq(Nat) /\ want \in Nat /\ got \in Nat /\ sent \in Nat
  BY DEF TypeOK
<1>3. k \in 0..Len(rx)
  BY <1>2 DEF MinOf
<1> HIDE DEF k
<1>4. /\ Len(rx') = Len(rx) - k
      /\ \A i \in 1..Len(rx) - k : rx'[i] = rx[i + k]
  BY <1>1, <1>2, <1>3
<1>5. out' = [i \in 1..k |-> got + i]
  BY <1>1, <1>2, <1>3 DEF Content, RingContent
<1>6. Draining' = Draining /\ Other' = Other
  BY <1>1 DEF Draining, Other
<1>7. Taken' = Taken /\ InDraining' = InDraining /\ InOther' = InOther /\ Pending' = Pending
  <2>1. Taken' = Taken
    <3>1. Len(rx) \in Nat /\ k \in Nat /\ got \in Nat
      BY <1>2, <1>3
    <3>2. Len(rx') = Len(rx) - k /\ got' = got + k
      BY <1>1, <1>4
    <3>3. got' + Len(rx') = got + Len(rx)
      BY <3>1, <3>2
    <3> QED
      BY <3>3 DEF Taken
  <2>2. InDraining' = InDraining /\ InOther' = InOther /\ Pending' = Pending
    BY <1>1, <1>6 DEF InDraining, InOther, Unread, Pending
  <2> QED
    BY <2>1, <2>2
<1>8. RingContent'
  <2>1. SUFFICES ASSUME NEW i \in 1..Len(rx) - k PROVE rx'[i] = got + k + i
    BY <1>1, <1>4 DEF RingContent
  <2>2. i + k \in 1..Len(rx)
    BY <1>2, <1>3
  <2>3. rx[i + k] = got + (i + k)
    BY <2>2 DEF Content, RingContent
  <2> QED
    BY <2>3, <1>2, <1>3, <1>4
<1>9. DrainingContent' /\ OtherContent'
  BY <1>1, <1>6, <1>7 DEF Content, DrainingContent, OtherContent
<1>10. PendingContent' /\ FillContent' /\ AllAccounted'
  BY <1>1, <1>7 DEF Content, PendingContent, FillContent, AllAccounted
<1>11. Content'
  BY <1>8, <1>9, <1>10 DEF Content
<1> QED
  BY <1>1, <1>3, <1>5, <1>11

\* The packet in the hardware becomes the content of the bank it was
\* written to; if the other bank is ready too, the endpoint stays closed.
LEMMA IsrPacketContent ==
  ASSUME TypeOK, Shape, Content, IsrPacket
  PROVE  Content'
<1> USE DEF Step, sketch, shared, hw, hist
<1>1. /\ isr = "idle" /\ trcpt = 1 /\ byteCount # 0
      /\ last' = [last EXCEPT ![incoming] = byteCount]
      /\ incoming' = 1 - incoming /\ addr' = 1 - incoming
      /\ ready' = ready \cup {incoming}
      /\ \/ 1 - incoming \in ready /\ notify' = 1 /\ UNCHANGED <<byteCount, bk0rdy>>
         \/ 1 - incoming \notin ready /\ notify' = 0 /\ byteCount' = 0 /\ bk0rdy' = 0
      /\ UNCHANGED <<pc, current, first, rx, data, bus, fill, hist>>
  BY DEF IsrPacket, Release
<1>2. /\ first \in [Bank -> 0..Size] /\ last \in [Bank -> 0..Size]
      /\ current \in Bank /\ incoming \in Bank /\ byteCount \in 0..Size
  BY DEF TypeOK
<1>3. Draining' = Draining /\ Other' = Other
  BY <1>1 DEF Draining, Other
<1>4. /\ addr = incoming /\ notify = 0 /\ bk0rdy = 1 /\ incoming \notin ready
      /\ 1 - incoming \in ready <=> Draining = 1 - incoming
      /\ pc \in {"copy", "free"} => Draining \in ready
      /\ first[Other] = 0 /\ (Draining \notin ready => first[Draining] = 0)
      /\ bus # "filling"
  BY <1>1 DEF Shape, BanksInOrder
<1>5. /\ Pending = byteCount /\ Pending' = 0 /\ Taken' = Taken
      /\ last'[incoming] = byteCount /\ last'[1 - incoming] = last[1 - incoming]
  BY <1>1, <1>2, <1>4 DEF Pending, Taken
<1>6. \A j \in 0..Size-1 : j < byteCount =>
         data[incoming][j] = Taken + InDraining + InOther + 1 + j
  BY <1>4 DEF Content, PendingContent
<1>7. RingContent' /\ FillContent' /\ PendingContent'
  BY <1>1, <1>4 DEF Content, RingContent, FillContent, PendingContent
<1>8. CASE 1 - incoming \in ready
  <2>1. Draining = 1 - incoming /\ Other = incoming /\ Draining \in ready'
    BY <1>1, <1>2, <1>4, <1>8 DEF Other
  <2>2. InDraining' = InDraining /\ InOther = 0 /\ InOther' = byteCount
    BY <1>1, <1>2, <1>3, <1>4, <1>5, <1>8, <2>1 DEF InDraining, InOther, Unread
  <2>3. DrainingContent'
    BY <1>1, <1>3, <1>5, <1>8, <2>1 DEF Content, DrainingContent
  <2>4. OtherContent'
    BY <1>1, <1>3, <1>5, <1>6, <2>1, <2>2, Quantities DEF OtherContent
  <2>5. AllAccounted'
    BY <1>1, <1>2, <1>5, <2>2, Quantities DEF Content, AllAccounted
  <2> QED
    BY <1>7, <2>3, <2>4, <2>5 DEF Content
<1>9. CASE 1 - incoming \notin ready
  <2>1. Draining = incoming /\ Other = 1 - incoming /\ Other \notin ready'
        /\ pc # "free" /\ first[Draining] = 0
    BY <1>1, <1>2, <1>4, <1>9, Quantities DEF Other
  <2>2. InDraining = 0 /\ InOther = 0 /\ InDraining' = byteCount /\ InOther' = 0
    BY <1>1, <1>2, <1>3, <1>4, <1>5, <1>9, <2>1 DEF InDraining, InOther, Unread
  <2>3. DrainingContent'
    BY <1>1, <1>2, <1>3, <1>5, <1>6, <2>1, <2>2, Quantities DEF DrainingContent
  <2>4. OtherContent'
    BY <1>3, <2>1 DEF OtherContent
  <2>5. AllAccounted'
    BY <1>1, <1>2, <1>5, <2>2, Quantities DEF Content, AllAccounted
  <2> QED
    BY <1>7, <2>3, <2>4, <2>5 DEF Content
<1> QED
  BY <1>8, <1>9

\* A byte on the bus goes to the bank that the sketch does not read.
LEMMA BusByteContent ==
  ASSUME TypeOK, Shape, Content, BusByte
  PROVE  Content'
<1> USE DEF Step, sketch, shared, hw, hist
<1>1. /\ bus = "filling" /\ fill < Size /\ fill' = fill + 1
      /\ data' = [data EXCEPT ![addr][fill] = sent + fill + 1]
      /\ UNCHANGED <<sketch, shared, addr, byteCount, bk0rdy, bus, hist>>
  BY DEF BusByte
<1>2. /\ data \in [Bank -> [0..Size-1 -> Nat]] /\ addr \in Bank /\ fill \in 0..Size
      /\ sent \in Nat
  BY DEF TypeOK
<1>3. addr \notin ready /\ bk0rdy = 0
  BY <1>1 DEF Shape, BanksInOrder, NotifyExact
<1>4. /\ \A b \in Bank \ {addr} : data'[b] = data[b]
      /\ \A j \in 0..Size-1 : j # fill => data'[addr][j] = data[addr][j]
      /\ data'[addr][fill] = sent + fill + 1
  BY <1>1, <1>2
<1>5. /\ Draining' = Draining /\ Other' = Other /\ Taken' = Taken /\ InDraining' = InDraining
      /\ InOther' = InOther /\ Pending' = Pending
  BY <1>1 DEF Draining, Other, Taken, InDraining, InOther, Unread, Pending
<1>6. RingContent' /\ PendingContent' /\ AllAccounted'
  BY <1>1, <1>3, <1>5 DEF Content, RingContent, PendingContent, AllAccounted
<1>7. DrainingContent'
  <2>1. Draining \in ready => data'[Draining] = data[Draining]
    BY <1>3, <1>4, Quantities
  <2> QED
    BY <1>1, <1>5, <2>1 DEF Content, DrainingContent
<1>8. OtherContent'
  <2>1. Other \in ready => data'[Other] = data[Other]
    BY <1>3, <1>4, Quantities
  <2> QED
    BY <1>1, <1>5, <2>1 DEF Content, OtherContent
<1>9. FillContent'
  <2>1. SUFFICES ASSUME NEW j \in 0..Size-1, j < fill + 1
                 PROVE  data'[addr][j] = sent + 1 + j
    BY <1>1 DEF FillContent
  <2>2. CASE j = fill
    BY <2>2, <1>2, <1>4
  <2>3. CASE j < fill
    BY <2>3, <1>1, <1>2, <1>4, SMTT(30) DEF Content, FillContent
  <2> QED
    BY <2>1, <2>2, <2>3, <1>2
<1> QED
  BY <1>6, <1>7, <1>8, <1>9 DEF Content

\* A packet is complete: its bytes continue the stream.
LEMMA BusDoneContent ==
  ASSUME TypeOK, Shape, Content, BusDone
  PROVE  Content'
<1> USE DEF Step, sketch, shared, hw, hist
<1>1. /\ bus = "filling" /\ bus' = "idle" /\ byteCount' = fill /\ bk0rdy' = 1
      /\ sent' = sent + fill
      /\ UNCHANGED <<sketch, shared, data, addr, got>>
  BY DEF BusDone
<1>2. fill \in 0..Size /\ sent \in Nat /\ notify \in Bit
  BY DEF TypeOK
<1>3. bk0rdy = 0 /\ notify = 0
  BY <1>1, <1>2 DEF Shape, NotifyExact
<1>4. /\ Draining' = Draining /\ Other' = Other /\ Taken' = Taken /\ InDraining' = InDraining
      /\ InOther' = InOther /\ Pending = 0 /\ Pending' = fill
  BY <1>1, <1>3 DEF Draining, Other, Taken, InDraining, InOther, Unread, Pending
<1>5. sent = Taken + InDraining + InOther
  BY <1>4, Quantities DEF Content, AllAccounted
<1>6. RingContent' /\ DrainingContent' /\ OtherContent' /\ FillContent'
  BY <1>1, <1>4 DEF Content, RingContent, DrainingContent, OtherContent, FillContent
<1>7. PendingContent'
  BY <1>1, <1>4, <1>5 DEF Content, FillContent, PendingContent
<1>8. AllAccounted'
  BY <1>1, <1>4, <1>5 DEF AllAccounted
<1> QED
  BY <1>6, <1>7, <1>8 DEF Content

\* Every step keeps the bytes of the stream in their places.
LEMMA ContentStep == TypeOK /\ Shape /\ Content /\ [Next]_vars => Content'
<1> SUFFICES ASSUME TypeOK, Shape, Content, [Next]_vars PROVE Content'
  OBVIOUS
<1> USE DEF Step, sketch, shared, hw, hist
<1> USE DEF Content, RingContent, DrainingContent, OtherContent, PendingContent,
            FillContent, AllAccounted, Taken, InDraining, InOther, Unread, Pending,
            Draining, Other
<1>a. /\ first \in [Bank -> 0..Size] /\ last \in [Bank -> 0..Size]
      /\ ready \in SUBSET Bank
      /\ data \in [Bank -> [0..Size-1 -> Nat]]
  BY DEF TypeOK
<1>b. rx \in Seq(Nat) /\ Len(rx) <= RingSize /\ room \in Nat
  BY DEF TypeOK
<1>c. current \in Bank /\ incoming \in Bank /\ addr \in Bank
  BY DEF TypeOK
<1>d. /\ byteCount \in 0..Size /\ bk0rdy \in Bit /\ notify \in Bit /\ trcpt \in Bit
      /\ sent \in Nat /\ got \in Nat /\ fill \in 0..Size
  BY DEF TypeOK
<1>1. CASE CallRecv
  BY <1>1, <1>a, <1>b, <1>c, <1>d DEF CallRecv, Call
<1>2. CASE CallOther
  BY <1>2, <1>a, <1>b, <1>c, <1>d DEF CallOther, Call
<1>3. CASE ReadLen
  BY <1>3, <1>a, <1>b, <1>c, <1>d DEF ReadLen
<1>4. CASE CheckReady
  BY <1>4, <1>a, <1>b, <1>c, <1>d DEF CheckReady
<1>5. CASE CopyByte
  BY <1>5, CopyByteContent
<1>6. CASE SwapBank
  BY <1>6, SwapBankContent
<1>7. CASE StopCopy
  BY <1>7, <1>a, <1>b, <1>c, <1>d DEF StopCopy
<1>8. CASE FreeBank
  BY <1>8, FreeBankContent
<1>9. CASE RecvBody
  BY <1>9, RecvBodyContent
<1>10. CASE AvailableBody
  BY <1>10, <1>a, <1>b, <1>c, <1>d DEF AvailableBody
<1>11. CASE PeekBody
  BY <1>11, <1>a, <1>b, <1>c, <1>d DEF PeekBody
<1>12. CASE IsrZlp
  BY <1>12, <1>a, <1>b, <1>c, <1>d DEF IsrZlp, Release
<1>13. CASE IsrPacket
  BY <1>13, IsrPacketContent
<1>14. CASE IsrAck
  BY <1>14, <1>a, <1>b, <1>c, <1>d DEF IsrAck
<1>15. CASE BusStart
  BY <1>15, <1>a, <1>b, <1>c, <1>d DEF BusStart
<1>16. CASE BusByte
  BY <1>16, BusByteContent
<1>17. CASE BusDone
  BY <1>17, BusDoneContent
<1>18. CASE BusError
  BY <1>18, <1>a, <1>b, <1>c, <1>d DEF BusError
<1>19. CASE UNCHANGED vars
  BY <1>19, <1>a, <1>b, <1>c, <1>d DEF vars
<1> QED
  BY <1>1, <1>2, <1>3, <1>4, <1>5, <1>6, <1>7, <1>8, <1>9, <1>10, <1>11, <1>12, <1>13, <1>14, <1>15, <1>16, <1>17, <1>18, <1>19 DEF Next, InCall, Bus
-----------------------------------------------------------------------------
(* Theorems. *)

\* The inductive invariant holds when the endpoint is begun.
LEMMA IInvInit == Init => IInv
<1> SUFFICES ASSUME Init PROVE IInv
  OBVIOUS
<1>1. TypeOK
  BY TypeInit
<1>2. Shape
  BY DEF Init, Shape, NotifyExact, BanksInOrder, Draining, Other
<1>3. Content
  BY DEF Init, Content, RingContent, DrainingContent, OtherContent, PendingContent,
         FillContent, AllAccounted, Taken, InDraining, InOther, Unread, Pending, Draining, Other
<1> QED
  BY <1>1, <1>2, <1>3 DEF IInv

\* The inductive invariant holds in every reachable state.
THEOREM Invariance == Spec => []IInv
<1>1. IInv /\ [Next]_vars => IInv'
  BY TypeStep, ShapeStep, ContentStep DEF IInv
<1> QED
  BY <1>1, IInvInit, PTL DEF Spec

\* The peripheral never writes into a bank the sketch may be reading
\* (SAMD21_USBDevice.h:308), the endpoint refuses packets exactly while the
\* sketch owes it a release, and the sketch drains the banks in the order the
\* handler filled them.
THEOREM Ownership == Spec => [](NotFilledWhileReady /\ NotifyExact /\ BanksInOrder)
<1>1. IInv => NotFilledWhileReady /\ NotifyExact /\ BanksInOrder
  <2> SUFFICES ASSUME IInv PROVE NotFilledWhileReady
    BY DEF IInv, Shape
  <2>1. notify \in Bit
    BY DEF IInv, TypeOK
  <2> QED
    BY <2>1 DEF IInv, Shape, NotifyExact, BanksInOrder, NotFilledWhileReady
<1> QED
  BY <1>1, Invariance, PTL

\* Each byte that was acknowledged is in one of the places of Content.
LEMMA Accounted == IInv => NothingLost
<1> SUFFICES ASSUME IInv PROVE NothingLost
  OBVIOUS
<1>1. Unread(0) \in Int /\ Unread(1) \in Int
  <2>1. \A b \in Bank : first[b] \in Int /\ last[b] \in Int
    BY DEF IInv, TypeOK
  <2> QED
    BY <2>1 DEF Unread
<1>2. Unread(0) + Unread(1) = InDraining + InOther
  <2>1. Draining \in Bank /\ Other = 1 - Draining
    BY Quantities DEF IInv, Other
  <2>2. CASE Draining = 0
    BY <1>1, <2>1, <2>2 DEF InDraining, InOther
  <2>3. CASE Draining = 1
    BY <1>1, <2>1, <2>3 DEF InDraining, InOther
  <2> QED
    BY <2>1, <2>2, <2>3
<1>3. sent = Taken + InDraining + InOther + Pending
  BY DEF IInv, Content, AllAccounted
<1>4. /\ Taken \in Nat /\ InDraining \in Nat /\ InOther \in Nat /\ Pending \in Nat
  BY Quantities DEF IInv
<1> HIDE DEF InDraining, InOther, Pending
<1> QED
  BY <1>1, <1>2, <1>3, <1>4, SMTT(30) DEF NothingLost, Taken

\* Every byte the host got acknowledged is in exactly one place.
THEOREM Conservation == Spec => []NothingLost
BY Accounted, Invariance, PTL

\* While a bank stays ready, neither its length nor its bytes change
\* (SAMD21_USBDevice.h:308, 329).
THEOREM BankStability == Spec => ReadyBankStable
<1>1. IInv /\ [Next]_vars =>
        [\A b \in Bank : b \in ready /\ b \in ready' =>
           last'[b] = last[b] /\ data'[b] = data[b]]_vars
  <2> SUFFICES ASSUME IInv, Next, NEW b \in Bank, b \in ready
               PROVE  last'[b] = last[b] /\ data'[b] = data[b]
    OBVIOUS
  <2>1. /\ last \in [Bank -> 0..Size] /\ data \in [Bank -> [0..Size-1 -> Nat]]
        /\ notify \in Bit /\ incoming \in Bank /\ addr \in Bank
    BY DEF IInv, TypeOK
  <2>2. CASE BusByte
    <3>1. addr \notin ready
      BY <2>1, <2>2 DEF IInv, Shape, NotifyExact, BanksInOrder, BusByte
    <3> QED
      BY <3>1, <2>1, <2>2 DEF BusByte, shared
  <2>3. CASE IsrPacket
    <3>1. incoming \notin ready
      BY <2>1, <2>3 DEF IInv, Shape, BanksInOrder, IsrPacket
    <3> QED
      BY <3>1, <2>1, <2>3 DEF IsrPacket
  <2>4. CASE CallRecv \/ CallOther \/ InCall
    BY <2>4 DEF CallRecv, CallOther, Call, InCall, ReadLen, CheckReady, CopyByte, SwapBank,
       StopCopy, FreeBank, RecvBody, AvailableBody, PeekBody, shared, hw
  <2>5. CASE IsrZlp \/ IsrAck \/ BusStart \/ BusDone \/ BusError
    BY <2>5 DEF IsrZlp, IsrAck, BusStart, BusDone, BusError, shared
  <2> QED
    BY <2>2, <2>3, <2>4, <2>5 DEF Next, Bus
<1> QED
  BY <1>1, Invariance, PTL DEF Spec, ReadyBankStable

\* The endpoint implements the byte stream of UsbStream: recv() returns the
\* next bytes of the host in order, each once; peek() the first of them;
\* available() never more than there are.
THEOREM Implementation == Spec => StreamSpec
<1>1. Init => Stream!StreamInit
  BY DEF Init, Stream!StreamInit
<1>2. IInv /\ [Next]_vars => [Stream!StreamNext]_Stream!svars
  <2> SUFFICES ASSUME IInv, [Next]_vars, ~UNCHANGED <<sent, got, out>>
               PROVE  Stream!StreamNext
    BY DEF Stream!svars
  <2> USE DEF Step, sketch, shared, hw, hist
  <2>1. /\ sent \in Nat /\ got \in Nat /\ rx \in Seq(Nat) /\ fill \in 0..Size
        /\ TypeOK /\ Shape /\ Content
    BY DEF IInv, TypeOK
  <2>2. got + Len(rx) <= sent
    BY <2>1, Quantities DEF Content, AllAccounted, Taken
  <2>3. CASE RecvBody
    <3>1. PICK k \in 0..Len(rx) : got' = got + k /\ out' = [i \in 1..k |-> got + i]
      BY <2>1, <2>3, RecvBodyContent
    <3>2. k \in 0..(sent - got) /\ UNCHANGED sent
      BY <2>1, <2>2, <2>3, <3>1 DEF RecvBody
    <3> QED
      BY <3>1, <3>2 DEF Stream!StreamNext, Stream!Read
  <2>4. CASE PeekBody
    <3>1. rx # <<>> => Head(rx) = got + 1 /\ got < sent
      BY <2>1, <2>2 DEF Content, RingContent
    <3> QED
      BY <2>4, <3>1 DEF PeekBody, Stream!StreamNext, Stream!Peek
  <2>5. CASE AvailableBody
    <3>1. Len(rx) \in 0..(sent - got)
      BY <2>1, <2>2
    <3> QED
      BY <2>5, <3>1 DEF AvailableBody, Stream!StreamNext, Stream!Count
  <2>6. CASE BusDone
    <3>1. sent' \in Nat /\ sent' >= sent /\ UNCHANGED <<got, out>>
      BY <2>1, <2>6 DEF BusDone
    <3>2. sent' > sent
      BY <2>1, <3>1
    <3> QED
      BY <3>1, <3>2 DEF Stream!StreamNext, Stream!Send
  <2>7. CASE \/ CallRecv \/ CallOther \/ ReadLen \/ CheckReady \/ CopyByte \/ SwapBank
             \/ StopCopy \/ FreeBank
    BY <2>7 DEF CallRecv, CallOther, Call, ReadLen, CheckReady, CopyByte, SwapBank,
       StopCopy, FreeBank
  <2>8. CASE \/ IsrZlp \/ IsrPacket \/ IsrAck \/ BusStart \/ BusByte \/ BusError
             \/ UNCHANGED vars
    BY <2>8 DEF IsrZlp, IsrPacket, IsrAck, BusStart, BusByte, BusError, vars
  <2> QED
    BY <2>3, <2>4, <2>5, <2>6, <2>7, <2>8 DEF Next, InCall, Bus
<1> QED
  BY <1>1, <1>2, Invariance, PTL DEF Spec, StreamSpec, Stream!StreamSpec
=============================================================================
