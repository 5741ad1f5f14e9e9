-------------------------- MODULE UsbDevice_proofs --------------------------
(***************************************************************************)
(* Proofs about UsbDevice.  The OUT endpoint through new configurations,   *)
(* for every size of its buffers; the control endpoint, for every set of   *)
(* addresses and configurations and however many requests and bus resets;  *)
(* the IN endpoint and the serial port, for every number of bytes; the     *)
(* modules, for every list of them.                                        *)
(***************************************************************************)
EXTENDS UsbDevice, UsbOutEndpoint_proofs, FoldLemmas

-----------------------------------------------------------------------------
(* The OUT endpoint and SET_CONFIGURATION, between the calls of the sketch. *)

\* The new handler object starts with empty banks on both sides; what an
\* interrupt of the old one left pending is an empty packet to it.
LEMMA SetConfigurationStep ==
  ASSUME IInv, SetConfiguration, CallsDone
  PROVE  IInv'
<1>1. /\ pc = "app" /\ bus = "idle" /\ isr = "idle"
      /\ rx' = <<>> /\ current' = 0 /\ first' = [b \in Bank |-> 0]
      /\ ready' = {} /\ last' = [b \in Bank |-> 0]
      /\ notify' = 0 /\ incoming' = 0 /\ addr' = 0 /\ byteCount' = 0 /\ bk0rdy' = 0
      /\ got' = sent
      /\ UNCHANGED <<pc, call, want, room, isr, data, trcpt, bus, fill, sent, out>>
  BY DEF SetConfiguration, Release
<1>2. TypeOK'
  <2>1. [b \in Bank |-> 0] \in [Bank -> 0..Size] /\ <<>> \in Seq(Nat) /\ Len(<<>>) = 0
    BY SizeAssumption, EmptySeq
  <2>2. sent \in Nat /\ RingSize \in Nat /\ Size \in Nat
    BY SizeAssumption, RingAssumption DEF IInv, TypeOK
  <2> QED
    BY <1>1, <2>1, <2>2 DEF IInv, TypeOK, Bank, Bit, Calls
<1>3. Draining' = 0 /\ Other' = 1 /\ first'[0] = 0 /\ first'[1] = 0
  BY <1>1 DEF Bank, Draining, Other
<1>4. Shape'
  <2>1. NotifyExact'
    BY <1>1 DEF NotifyExact, Bank
  <2>2. BanksInOrder'
    BY <1>1, <1>3 DEF BanksInOrder
  <2> QED
    BY <1>1, <1>3, <2>1, <2>2 DEF Shape
<1>5. /\ Taken' = sent /\ InDraining' = 0 /\ InOther' = 0 /\ Pending' = 0
  BY <1>1, <1>3, <1>2, EmptySeq DEF Taken, InDraining, InOther, Unread, Pending, TypeOK
<1>6. Content'
  <2>1. Len(rx') = 0 /\ sent' = sent /\ sent \in Nat
    BY <1>1, EmptySeq DEF IInv, TypeOK
  <2> QED
    BY <1>1, <1>3, <1>5, <2>1
       DEF Content, RingContent, DrainingContent, OtherContent, PendingContent, FillContent,
           AllAccounted
<1> QED
  BY <1>2, <1>4, <1>6 DEF IInv

\* The invariant of the endpoint holds through new configurations.
LEMMA ReconfigurationInvariance == ASSUME CallsDone PROVE RSpec => []IInv
<1>1. RInit => IInv
  BY IInvInit DEF RInit
<1>2. IInv /\ [RNext]_rvars => IInv'
  <2> SUFFICES ASSUME IInv, [RNext]_rvars PROVE IInv'
    OBVIOUS
  <2>1. CASE SetConfiguration
    BY <2>1, SetConfigurationStep
  <2>2. CASE Next \/ UNCHANGED vars
    BY <2>2, TypeStep, ShapeStep, ContentStep DEF IInv
  <2> QED
    BY <2>1, <2>2 DEF RNext, rvars
<1> QED
  BY <1>1, <1>2, PTL DEF RSpec

\* initEndpoints(): when the host selects the configuration again between two
\* calls of the sketch, interrupt and sketch agree on the bank that comes next,
\* no byte of the new configuration is lost, and no bank is filled while it is
\* copied.
THEOREM Reconfiguration == ASSUME CallsDone PROVE RSpec => []BanksAgree
<1>1. IInv => BanksAgree
  <2> SUFFICES ASSUME IInv PROVE BanksAgree
    OBVIOUS
  <2>1. NothingLost
    BY Accounted
  <2>2. pc = "app" => BanksInOrder
    BY DEF IInv, Shape
  <2>3. CopiedBankNotFilled
    <3>1. pc = "copy" /\ bus = "filling" => notify = 0
      BY DEF IInv, TypeOK, Bit, Shape, NotifyExact
    <3> QED
      BY <3>1 DEF IInv, Shape, BanksInOrder, Draining, CopiedBankNotFilled, TypeOK, Bank
  <2> QED
    BY <2>1, <2>2, <2>3 DEF BanksAgree, SidesAgree
<1> QED
  BY <1>1, ReconfigurationInvariance, PTL

-----------------------------------------------------------------------------
(* The control endpoint. *)

\* The host was told of the address and the configuration that the device has.
Agree == known.address = DADD /\ known.configuration = _usbConfiguration

StageOf(name) == IF name \in Control!WantsData THEN "in"
                 ELSE IF name = "CDC_SET_LINE_CODING" THEN "out" ELSE "statusIn"

-----------------------------------------------------------------------------
(* Its invariant: where a request is between the host and the handler.     *)

KnownOK == known \in [address : Addresses \cup {0}, configuration : Configurations \cup {0}]

\* The bus reset, until the handler has seen it.
AtReset ==
  EORST => /\ stage = "idle" /\ ctl_pc = "idle" /\ ~RXSTP /\ ~BK1RDY /\ ~STALLRQ1
           /\ DADD = 0 /\ known.address = 0 /\ known.configuration = 0

\* No request: the two sides agree.
Between == stage = "idle" /\ ctl_pc = "idle" /\ ~EORST => ~RXSTP /\ Agree

\* The SETUP packet is in the bank: no answer can be in the other one, nor can
\* the host send the data before the handler releases the bank.
Asked ==
  ctl_pc = "idle" /\ RXSTP =>
    /\ stage = StageOf(setup.name) /\ Agree
    /\ BK0RDY /\ ~BK1RDY /\ ~STALLRQ1 /\ ~gotData

\* The handler has answered and the host has not yet been told: only a
\* configuration is ahead of what the host knows.
Answered ==
  ctl_pc = "idle" /\ ~RXSTP /\ stage # "idle" =>
    /\ stage # "out" /\ setup.name # "SET_ADDRESS"
    /\ setup.name # "SET_CONFIGURATION" => Agree
    /\ setup.name = "SET_CONFIGURATION" =>
         /\ stage = "statusIn" /\ BK1RDY /\ ~STALLRQ1 /\ BYTE_COUNT = 0
         /\ known.address = DADD /\ _usbConfiguration = setup.value

\* setAddress() waits: the flag it waits for is that of its own status stage.
InSetAddress ==
  ctl_pc = "setAddress" =>
    /\ RXSTP /\ ~STALLRQ1 /\ BYTE_COUNT = 0
    /\ setup.name = "SET_ADDRESS" /\ known.configuration = _usbConfiguration
    /\ \/ stage = "statusIn" /\ BK1RDY /\ ~TRCPT1 /\ known.address = DADD
       \/ stage = "idle" /\ ~BK1RDY /\ known.address = setup.value

\* recvControl() waits: a packet in the bank is the data stage.
InRecvControl ==
  ctl_pc = "recvControl" =>
    /\ RXSTP /\ ~BK1RDY /\ ~STALLRQ1
    /\ setup.name = "CDC_SET_LINE_CODING" /\ Agree
    /\ \/ stage = "out" /\ ~BK0RDY
       \/ stage = "statusIn" /\ gotData

Protocol ==
  AtReset /\ Between /\ Asked /\ Answered /\ InSetAddress /\ InRecvControl

CInv == Control!TypeOK /\ KnownOK /\ Protocol
-----------------------------------------------------------------------------
(* The provers reason apart about the flags and the rest. *)

Bits ==
  /\ EORST \in BOOLEAN /\ SOF \in BOOLEAN /\ RXSTP \in BOOLEAN
  /\ TRCPT0 \in BOOLEAN /\ TRCPT1 \in BOOLEAN
  /\ BK0RDY \in BOOLEAN /\ BK1RDY \in BOOLEAN /\ STALLRQ1 \in BOOLEAN /\ gotData \in BOOLEAN

Values ==
  /\ DADD \in Addresses \cup {0} /\ _usbConfiguration \in Configurations \cup {0}
  /\ BYTE_COUNT \in 0..1
  /\ ctl_pc \in {"idle", "setAddress", "recvControl"} /\ setup \in Control!Requests
  /\ stage \in {"idle", "in", "out", "statusIn", "statusOut"}
  /\ requests \in 0..MaxRequests /\ resets \in 0..MaxResets
  /\ KnownOK

OneAnswer == ~(BK1RDY /\ STALLRQ1)

PInv == Bits /\ Values /\ OneAnswer /\ Protocol

\* The types, split for the provers.
LEMMA TypeParts == Control!TypeOK /\ KnownOK <=> Bits /\ Values /\ OneAnswer
BY DEF Control!TypeOK, Bits, Values, OneAnswer

\* The bounds are numbers.
LEMMA Bounds == MaxRequests \in Nat /\ MaxResets \in Nat
BY DeviceAssumption DEF Control!ControlAssumption

\* The values that go with the names of the requests, and the names that differ.
LEMMA RequestValues ==
  ASSUME NEW r \in Control!Requests
  PROVE  /\ r.name = "SET_ADDRESS" => r.value \in Addresses
         /\ r.name = "SET_CONFIGURATION" => r.value \in Configurations \cup {0}
BY DEF Control!Requests, Control!Reads, Control!Refused, Control!Empty, Control!Unhandled

\* The requests that the handler serves by code of their own are of no other kind.
LEMMA RequestNames ==
  /\ {"SET_ADDRESS", "SET_CONFIGURATION", "CDC_SET_LINE_CODING", "DEVICEREMOTEWAKEUP"}
       \cap (Control!WantsData \cup Control!Reads \cup Control!Refused) = {}
BY DEF Control!Reads, Control!Refused, Control!WantsData

\* No address and no configuration are values too.
LEMMA ZeroValues == 0 \in Addresses \cup {0} /\ 0 \in Configurations \cup {0}
OBVIOUS

-----------------------------------------------------------------------------
(* The host and the bus. *)

\* The invariant holds before the first bus reset.
LEMMA Start == Control!Init => PInv
<1> SUFFICES ASSUME Control!Init PROVE PInv
  OBVIOUS
<1>1. Bits
  BY Zenon DEF Control!Init, Bits
<1>2. Values
  BY Bounds DEF Control!Init, Values, KnownOK, Control!Requests, Control!Reads
<1>3. OneAnswer /\ Protocol
  BY DEF Control!Init, OneAnswer, Protocol, AtReset, Between, Asked, Answered, InSetAddress,
         InRecvControl
<1> QED
  BY <1>1, <1>2, <1>3 DEF PInv

\* The host begins a request: what it was told of the one before is complete.
LEMMA HostSetupStep == ASSUME PInv, NEW r \in Control!Requests, Control!HostSetup(r) PROVE PInv'
<1>1. /\ stage = "idle" /\ ~EORST /\ ~RXSTP /\ setup' = r
      /\ requests < MaxRequests /\ requests' = requests + 1
      /\ EORST' = EORST /\ SOF' = SOF /\ TRCPT0' = TRCPT0 /\ TRCPT1' = TRCPT1
      /\ UNCHANGED <<BYTE_COUNT, DADD, _usbConfiguration, ctl_pc, known, resets>>
      /\ RXSTP' = TRUE /\ BK0RDY' = TRUE /\ BK1RDY' = FALSE /\ STALLRQ1' = FALSE /\ gotData' = FALSE
  BY DEF Control!HostSetup, Control!device
<1>2. stage' = StageOf(r.name) /\ stage' \in {"in", "out", "statusIn"}
  BY RequestNames DEF Control!HostSetup, StageOf
<1>3. ctl_pc = "idle" /\ Agree
  BY <1>1 DEF PInv, Values, Protocol, Between, InSetAddress, InRecvControl
<1>4. Bits'
  BY <1>1, Zenon DEF PInv, Bits
<1>5. Values'
  BY <1>1, <1>2, Bounds DEF PInv, Values, KnownOK
<1>6. OneAnswer' /\ Protocol'
  BY <1>1, <1>2, <1>3
     DEF OneAnswer, Protocol, Agree, AtReset, Between, Asked, Answered, InSetAddress,
         InRecvControl
<1> QED
  BY <1>4, <1>5, <1>6 DEF PInv

\* The host is told of the address in the status stage that setAddress() waits
\* for, and of the configuration after the handler has taken it.
LEMMA HostReadsInStep == ASSUME PInv, Control!HostReadsIn PROVE PInv'
<1>1. /\ stage \in {"in", "statusIn"} /\ BK1RDY
      /\ EORST' = EORST /\ SOF' = SOF /\ RXSTP' = RXSTP /\ TRCPT0' = TRCPT0
      /\ BK0RDY' = BK0RDY /\ STALLRQ1' = STALLRQ1 /\ gotData' = gotData
      /\ UNCHANGED <<BYTE_COUNT, DADD, _usbConfiguration, ctl_pc, setup, requests, resets>>
      /\ BK1RDY' = FALSE /\ TRCPT1' = TRUE
      /\ stage' = IF stage = "in" THEN "statusOut" ELSE "idle"
  BY DEF Control!HostReadsIn, Control!device
<1>2. \/ known' = known /\ (stage = "in" \/ BYTE_COUNT # 0 \/ setup.name \notin {"SET_ADDRESS", "SET_CONFIGURATION"})
      \/ /\ stage = "statusIn" /\ BYTE_COUNT = 0 /\ setup.name = "SET_ADDRESS"
         /\ known' = [known EXCEPT !.address = setup.value]
      \/ /\ stage = "statusIn" /\ BYTE_COUNT = 0 /\ setup.name = "SET_CONFIGURATION"
         /\ known' = [known EXCEPT !.configuration = setup.value]
  <2>1. CASE stage = "in" \/ BYTE_COUNT # 0
    BY <2>1 DEF Control!HostReadsIn
  <2>2. CASE ~(stage = "in" \/ BYTE_COUNT # 0) /\ setup.name = "SET_ADDRESS"
    BY <1>1, <2>2 DEF Control!HostReadsIn
  <2>3. CASE ~(stage = "in" \/ BYTE_COUNT # 0) /\ setup.name = "SET_CONFIGURATION"
    BY <1>1, <2>3 DEF Control!HostReadsIn
  <2>4. CASE /\ ~(stage = "in" \/ BYTE_COUNT # 0)
             /\ setup.name # "SET_ADDRESS" /\ setup.name # "SET_CONFIGURATION"
    BY <2>4 DEF Control!HostReadsIn
  <2> QED
    BY <2>1, <2>2, <2>3, <2>4
<1>3. /\ setup.name = "SET_ADDRESS" => setup.value \in Addresses
      /\ setup.name = "SET_CONFIGURATION" => setup.value \in Configurations \cup {0}
  BY RequestValues DEF PInv, Values
<1>4. Bits'
  BY <1>1, Zenon DEF PInv, Bits
<1>5. KnownOK'
  BY <1>2, <1>3 DEF PInv, Values, KnownOK
<1>6. Values'
  BY <1>1, <1>5 DEF PInv, Values
<1>7. /\ known' = known => known'.address = known.address /\ known'.configuration = known.configuration
      /\ known' = [known EXCEPT !.address = setup.value] =>
           known'.address = setup.value /\ known'.configuration = known.configuration
      /\ known' = [known EXCEPT !.configuration = setup.value] =>
           known'.address = known.address /\ known'.configuration = setup.value
  BY DEF PInv, Values, KnownOK
<1>8. OneAnswer' /\ AtReset' /\ Asked' /\ InRecvControl'
  BY <1>1 DEF PInv, OneAnswer, Protocol, AtReset, Asked, InRecvControl
<1>9. InSetAddress'
  BY <1>1, <1>2, <1>7 DEF PInv, Protocol, InSetAddress
<1>10. Between' /\ Answered'
  BY <1>1, <1>2, <1>7
     DEF PInv, Values, Protocol, Agree, AtReset, Between, Asked, Answered
<1> QED
  BY <1>4, <1>6, <1>8, <1>9, <1>10 DEF PInv, Protocol

\* The host sends the data of its request.
LEMMA HostWritesOutStep == ASSUME PInv, Control!HostWritesOut PROVE PInv'
<1>1. /\ stage \in {"out", "statusOut"} /\ ~BK0RDY
      /\ EORST' = EORST /\ SOF' = SOF /\ RXSTP' = RXSTP /\ TRCPT1' = TRCPT1
      /\ BK1RDY' = BK1RDY /\ STALLRQ1' = STALLRQ1 /\ BK0RDY' = TRUE /\ TRCPT0' = TRUE
      /\ UNCHANGED <<BYTE_COUNT, DADD, _usbConfiguration, ctl_pc, setup, known, requests, resets>>
      /\ stage' = IF stage = "out" THEN "statusIn" ELSE "idle"
  BY DEF Control!HostWritesOut, Control!device
<1>2. gotData' \in BOOLEAN /\ (stage = "out" => gotData')
  BY Zenon DEF Control!HostWritesOut
<1>3. Bits'
  BY <1>1, <1>2, Zenon DEF PInv, Bits
<1>4. Values'
  BY <1>1 DEF PInv, Values, KnownOK
<1>5. OneAnswer' /\ Protocol'
  BY <1>1, <1>2
     DEF PInv, Values, OneAnswer, Protocol, Agree, AtReset, Between, Asked, Answered,
         InSetAddress,
         InRecvControl
<1> QED
  BY <1>3, <1>4, <1>5 DEF PInv

\* The host learns that its request is refused.
LEMMA HostSeesStallStep == ASSUME PInv, Control!HostSeesStall PROVE PInv'
<1>1. /\ stage # "idle" /\ STALLRQ1 /\ stage' = "idle"
      /\ UNCHANGED <<EORST, SOF, RXSTP, TRCPT0, TRCPT1, BK0RDY, BK1RDY, STALLRQ1, gotData>>
      /\ UNCHANGED <<BYTE_COUNT, DADD, _usbConfiguration, ctl_pc, setup, known, requests, resets>>
  BY DEF Control!HostSeesStall, Control!flags, Control!bank, Control!device
<1>2. Bits' /\ Values' /\ OneAnswer'
  BY <1>1 DEF PInv, Bits, Values, OneAnswer, KnownOK
<1>3. Protocol'
  BY <1>1
     DEF PInv, Values, Protocol, Agree, AtReset, Between, Asked, Answered, InSetAddress,
         InRecvControl
<1> QED
  BY <1>2, <1>3 DEF PInv

\* A start of frame.
LEMMA HostSendsSofStep == ASSUME PInv, Control!HostSendsSof PROVE PInv'
<1>1. /\ SOF' = TRUE
      /\ UNCHANGED <<EORST, RXSTP, TRCPT0, TRCPT1, BK0RDY, BK1RDY, STALLRQ1, gotData>>
      /\ UNCHANGED <<BYTE_COUNT, DADD, _usbConfiguration, ctl_pc, setup, stage, known, requests, resets>>
  BY DEF Control!HostSendsSof, Control!bank, Control!device, Control!host
<1>2. Bits'
  BY <1>1, Zenon DEF PInv, Bits
<1>3. Values' /\ OneAnswer'
  BY <1>1 DEF PInv, Values, OneAnswer, KnownOK
<1>4. Protocol'
  BY <1>1 DEF PInv, Protocol, Agree, AtReset, Between, Asked, Answered, InSetAddress,
              InRecvControl
<1> QED
  BY <1>2, <1>3, <1>4 DEF PInv

\* A bus reset takes back what both sides had agreed on.
LEMMA BusResetStep == ASSUME PInv, Control!BusReset PROVE PInv'
<1>1. /\ ctl_pc = "idle" /\ resets < MaxResets /\ resets' = resets + 1
      /\ EORST' = TRUE /\ RXSTP' = FALSE /\ TRCPT0' = FALSE /\ TRCPT1' = FALSE
      /\ BK0RDY' = FALSE /\ BK1RDY' = FALSE /\ STALLRQ1' = FALSE /\ DADD' = 0
      /\ stage' = "idle" /\ known' = [address |-> 0, configuration |-> 0]
      /\ SOF' = SOF /\ gotData' = gotData
      /\ UNCHANGED <<BYTE_COUNT, _usbConfiguration, ctl_pc, setup, requests>>
  BY DEF Control!BusReset
<1>2. Bits'
  BY <1>1, Zenon DEF PInv, Bits
<1>3. Values'
  BY <1>1, Bounds DEF PInv, Values, KnownOK
<1>4. OneAnswer' /\ Protocol'
  BY <1>1 DEF OneAnswer, Protocol, AtReset, Between, Asked, Answered, InSetAddress, InRecvControl
<1> QED
  BY <1>2, <1>3, <1>4 DEF PInv
-----------------------------------------------------------------------------
(* The handler. *)

\* The handler finds no SETUP packet.
LEMMA IsrWithoutSetupStep == ASSUME PInv, Control!IsrWithoutSetup PROVE PInv'
<1>1. /\ ctl_pc = "idle" /\ ~RXSTP
      /\ EORST' = FALSE /\ SOF' = FALSE /\ RXSTP' = FALSE /\ TRCPT0' = FALSE /\ TRCPT1' = FALSE
      /\ BK0RDY' = BK0RDY /\ BK1RDY' = BK1RDY /\ STALLRQ1' = STALLRQ1 /\ gotData' = gotData
      /\ UNCHANGED <<BYTE_COUNT, DADD, ctl_pc, setup, stage, known, requests, resets>>
      /\ _usbConfiguration' = IF EORST THEN 0 ELSE _usbConfiguration
  BY DEF Control!IsrWithoutSetup, Control!Housekeeping, Control!AckPending, Control!AfterReset,
         Control!bank, Control!host
<1>2. Bits'
  BY <1>1, Zenon DEF PInv, Bits
<1>3. Values' /\ OneAnswer'
  BY <1>1 DEF PInv, Values, OneAnswer, KnownOK
<1>4. Protocol'
  BY <1>1 DEF PInv, Protocol, Agree, AtReset, Between, Asked, Answered, InSetAddress,
              InRecvControl
<1> QED
  BY <1>2, <1>3, <1>4 DEF PInv

\* What all requests begin with.
LEMMA SetupRead ==
  ASSUME PInv, NEW r, Control!IsrSetup(r)
  PROVE  /\ ctl_pc = "idle" /\ RXSTP /\ setup = r /\ setup' = setup
         /\ EORST' = FALSE /\ SOF' = FALSE /\ BK0RDY' = FALSE /\ gotData' = gotData
         /\ UNCHANGED <<DADD, stage, known, requests, resets>>
         /\ ~EORST /\ Control!AfterReset = _usbConfiguration
         /\ stage = StageOf(setup.name) /\ Agree /\ ~BK1RDY /\ ~STALLRQ1 /\ ~gotData
BY DEF PInv, Protocol, Asked, AtReset, Control!IsrSetup, Control!Housekeeping,
       Control!ReleaseOut, Control!host, Control!AfterReset

\* The handler serves the request it has read.
LEMMA ServeStep == ASSUME PInv, Control!Serve(setup) PROVE PInv'
<1>1. Control!IsrSetup(setup) /\ setup.name \notin {"SET_ADDRESS", "CDC_SET_LINE_CODING"}
  BY DEF Control!Serve
<1>2. /\ ctl_pc = "idle" /\ RXSTP /\ setup' = setup
      /\ EORST' = FALSE /\ SOF' = FALSE /\ BK0RDY' = FALSE /\ gotData' = gotData
      /\ UNCHANGED <<DADD, stage, known, requests, resets>>
      /\ ~EORST /\ Control!AfterReset = _usbConfiguration
      /\ stage = StageOf(setup.name) /\ Agree /\ ~BK1RDY /\ ~STALLRQ1 /\ ~gotData
  BY <1>1, SetupRead
<1>3. /\ _usbConfiguration' =
           IF setup.name = "SET_CONFIGURATION" THEN setup.value ELSE _usbConfiguration
      /\ BYTE_COUNT' = Control!CountFor(setup.name)
      /\ ctl_pc' = "idle" /\ RXSTP' = FALSE /\ TRCPT0' = FALSE /\ TRCPT1' = FALSE
  BY <1>2 DEF Control!Serve, Control!Answer, Control!AckPending
<1>4. /\ BK1RDY' \in BOOLEAN /\ STALLRQ1' \in BOOLEAN /\ ~(BK1RDY' /\ STALLRQ1')
      /\ setup.name \notin Control!Refused => BK1RDY' /\ ~STALLRQ1'
  BY Zenon DEF Control!Serve, Control!Answer
<1>5. setup.name = "SET_CONFIGURATION" => setup.value \in Configurations \cup {0}
  BY RequestValues DEF PInv, Values
<1>c. BYTE_COUNT' \in 0..1 /\ (setup.name = "SET_CONFIGURATION" => BYTE_COUNT' = 0)
  BY <1>3 DEF Control!CountFor, Control!Reads, PInv, Values
<1>6. Bits'
  BY <1>2, <1>3, <1>4, Zenon DEF PInv, Bits
<1>7. Values'
  BY <1>2, <1>3, <1>5, <1>c DEF PInv, Values, KnownOK
<1>8. stage \in {"in", "statusIn"} /\ (setup.name = "SET_CONFIGURATION" => stage = "statusIn")
  BY <1>1, <1>2, RequestNames DEF StageOf
<1>9. setup.name = "SET_CONFIGURATION" => BYTE_COUNT' = 0 /\ BK1RDY' /\ ~STALLRQ1'
  BY <1>c, <1>4, RequestNames
<1>10. OneAnswer' /\ Protocol'
  BY <1>1, <1>2, <1>3, <1>4, <1>8, <1>9
     DEF OneAnswer, Protocol, Agree, AtReset, Between, Asked, Answered, InSetAddress,
         InRecvControl
<1> QED
  BY <1>6, <1>7, <1>10 DEF PInv

\* setAddress() acknowledges the flag that earlier transfers have left before it waits.
LEMMA SetAddressStep == ASSUME PInv, Control!SetAddress(setup) PROVE PInv'
<1>1. Control!IsrSetup(setup) /\ setup.name = "SET_ADDRESS"
  BY DEF Control!SetAddress
<1>2. /\ ctl_pc = "idle" /\ RXSTP /\ setup' = setup
      /\ EORST' = FALSE /\ SOF' = FALSE /\ BK0RDY' = FALSE /\ gotData' = gotData
      /\ UNCHANGED <<DADD, stage, known, requests, resets>>
      /\ ~EORST /\ Control!AfterReset = _usbConfiguration
      /\ stage = StageOf(setup.name) /\ Agree /\ ~BK1RDY /\ ~STALLRQ1 /\ ~gotData
  BY <1>1, SetupRead
<1>3. /\ BYTE_COUNT' = 0 /\ BK1RDY' = TRUE /\ TRCPT1' = FALSE /\ ctl_pc' = "setAddress"
      /\ _usbConfiguration' = _usbConfiguration
      /\ RXSTP' = RXSTP /\ TRCPT0' = TRCPT0 /\ STALLRQ1' = STALLRQ1
  BY <1>2 DEF Control!SetAddress, Control!AckTransferComplete
<1>4. stage = "statusIn"
  BY <1>1, <1>2, RequestNames DEF StageOf
<1>5. Bits'
  BY <1>2, <1>3, Zenon DEF PInv, Bits
<1>6. Values'
  BY <1>2, <1>3 DEF PInv, Values, KnownOK
<1>7. OneAnswer' /\ Protocol'
  BY <1>1, <1>2, <1>3, <1>4
     DEF OneAnswer, Protocol, Agree, AtReset, Between, Asked, Answered, InSetAddress,
         InRecvControl
<1> QED
  BY <1>5, <1>6, <1>7 DEF PInv

\* The address takes effect behind the status stage.
LEMMA AddressIsSetStep == ASSUME PInv, Control!AddressIsSet PROVE PInv'
<1>1. /\ ctl_pc = "setAddress" /\ TRCPT1 /\ DADD' = setup.value
      /\ BYTE_COUNT' = 0 /\ BK1RDY' = TRUE /\ ctl_pc' = "idle"
      /\ RXSTP' = FALSE /\ TRCPT0' = FALSE /\ TRCPT1' = FALSE
      /\ EORST' = EORST /\ SOF' = SOF /\ BK0RDY' = BK0RDY /\ gotData' = gotData
      /\ UNCHANGED <<_usbConfiguration, setup, stage, known, requests, resets>>
  BY DEF Control!AddressIsSet, Control!Answer, Control!AckPending, Control!host
<1>2. STALLRQ1' = FALSE
  BY Zenon DEF Control!AddressIsSet, Control!Answer
<1>3. /\ setup.name = "SET_ADDRESS" /\ stage = "idle"
      /\ known.address = setup.value /\ known.configuration = _usbConfiguration
  BY <1>1 DEF PInv, Protocol, InSetAddress
<1>4. setup.value \in Addresses
  BY <1>3, RequestValues DEF PInv, Values
<1>5. Bits'
  BY <1>1, <1>2, Zenon DEF PInv, Bits
<1>6. Values'
  BY <1>1, <1>4 DEF PInv, Values, KnownOK
<1>7. ~EORST
  BY <1>1 DEF PInv, Protocol, AtReset
<1>8. OneAnswer' /\ Protocol'
  BY <1>1, <1>2, <1>3, <1>7
     DEF OneAnswer, Protocol, Agree, AtReset, Between, Asked, Answered, InSetAddress,
         InRecvControl
<1> QED
  BY <1>5, <1>6, <1>8 DEF PInv

\* The handler begins to wait for the data of the request.
LEMMA RecvControlStep == ASSUME PInv, Control!RecvControl(setup) PROVE PInv'
<1>1. Control!IsrSetup(setup) /\ setup.name = "CDC_SET_LINE_CODING"
  BY DEF Control!RecvControl
<1>2. /\ ctl_pc = "idle" /\ RXSTP /\ setup' = setup
      /\ EORST' = FALSE /\ SOF' = FALSE /\ BK0RDY' = FALSE /\ gotData' = gotData
      /\ UNCHANGED <<DADD, stage, known, requests, resets>>
      /\ ~EORST /\ Control!AfterReset = _usbConfiguration
      /\ stage = StageOf(setup.name) /\ Agree /\ ~BK1RDY /\ ~STALLRQ1 /\ ~gotData
  BY <1>1, SetupRead
<1>3. /\ ctl_pc' = "recvControl" /\ _usbConfiguration' = _usbConfiguration /\ BYTE_COUNT' = BYTE_COUNT
      /\ RXSTP' = RXSTP /\ TRCPT0' = TRCPT0 /\ TRCPT1' = TRCPT1
      /\ BK1RDY' = BK1RDY /\ STALLRQ1' = STALLRQ1
  BY <1>2 DEF Control!RecvControl
<1>4. stage = "out"
  BY <1>1, <1>2, RequestNames DEF StageOf
<1>5. Bits'
  BY <1>2, <1>3, Zenon DEF PInv, Bits
<1>6. Values'
  BY <1>2, <1>3 DEF PInv, Values, KnownOK
<1>7. OneAnswer' /\ Protocol'
  BY <1>1, <1>2, <1>3, <1>4
     DEF OneAnswer, Protocol, Agree, AtReset, Between, Asked, Answered, InSetAddress,
         InRecvControl
<1> QED
  BY <1>5, <1>6, <1>7 DEF PInv

\* The wait for the data is over.
LEMMA DataReceivedStep == ASSUME PInv, Control!DataReceived PROVE PInv'
<1>1. /\ ctl_pc = "recvControl" /\ BK0RDY /\ BYTE_COUNT' = 0 /\ BK1RDY' = TRUE /\ ctl_pc' = "idle"
      /\ RXSTP' = FALSE /\ TRCPT0' = FALSE /\ TRCPT1' = FALSE
      /\ EORST' = EORST /\ SOF' = SOF /\ BK0RDY' = BK0RDY /\ gotData' = gotData
      /\ UNCHANGED <<DADD, _usbConfiguration, setup, stage, known, requests, resets>>
  BY DEF Control!DataReceived, Control!DataIsThere, Control!Answer, Control!AckPending,
         Control!host, Control!device
<1>2. STALLRQ1' = FALSE
  BY Zenon DEF Control!DataReceived, Control!Answer
<1>3. setup.name = "CDC_SET_LINE_CODING" /\ stage = "statusIn" /\ Agree /\ ~EORST
  BY <1>1 DEF PInv, Protocol, InRecvControl, AtReset
<1>4. Bits'
  BY <1>1, <1>2, Zenon DEF PInv, Bits
<1>5. Values'
  BY <1>1 DEF PInv, Values, KnownOK
<1>6. OneAnswer' /\ Protocol'
  BY <1>1, <1>2, <1>3
     DEF OneAnswer, Protocol, Agree, AtReset, Between, Asked, Answered, InSetAddress,
         InRecvControl
<1> QED
  BY <1>4, <1>5, <1>6 DEF PInv

-----------------------------------------------------------------------------
(* The theorems. *)

\* Every step of the host and of the handler keeps the invariant.
LEMMA ControlStep == PInv /\ [Control!Next]_Control!vars => PInv'
<1> SUFFICES ASSUME PInv, [Control!Next]_Control!vars PROVE PInv'
  OBVIOUS
<1>1. CASE Control!Isr
  BY <1>1, IsrWithoutSetupStep, ServeStep, SetAddressStep, AddressIsSetStep, RecvControlStep,
     DataReceivedStep DEF Control!Isr
<1>2. CASE Control!Host
  BY <1>2, HostReadsInStep, HostWritesOutStep, HostSeesStallStep DEF Control!Host
<1>3. CASE Control!HostSendsSof
  BY <1>3, HostSendsSofStep
<1>4. CASE Control!BusReset
  BY <1>4, BusResetStep
<1>5. CASE \E r \in Control!Requests : Control!HostSetup(r)
  BY <1>5, HostSetupStep
<1>6. CASE UNCHANGED Control!vars
  BY <1>6
     DEF Control!vars, Control!flags, Control!bank, Control!device, Control!host, PInv, Bits,
         Values, KnownOK, OneAnswer, Protocol, Agree,
         AtReset, Between, Asked, Answered, InSetAddress, InRecvControl
<1> QED
  BY <1>1, <1>2, <1>3, <1>4, <1>5, <1>6 DEF Control!Next

\* The invariant: what is in the banks and in the flags at every point of a request.
THEOREM ControlInvariance == Control!Spec => []CInv
<1>1. Control!Init => PInv
  BY Start
<1>2. PInv => CInv
  BY TypeParts DEF PInv, CInv
<1> QED
  BY <1>1, <1>2, ControlStep, PTL DEF Control!Spec

\* Every register, bank and stage of a transfer stays in its type, and the
\* control endpoint never answers and refuses at once.
THEOREM ControlTypes == Control!Spec => []Control!TypeOK
<1>1. CInv => Control!TypeOK
  BY DEF CInv
<1> QED
  BY <1>1, ControlInvariance, PTL

\* setAddress() and handleStandardSetup(): between two requests the host and
\* the device agree, whatever bus resets come.
THEOREM Agreement == Control!Spec => []HostAndDeviceAgree
<1>1. CInv => HostAndDeviceAgree
  BY DEF CInv, KnownOK, Protocol, Between, Agree, HostAndDeviceAgree, Control!HostAndDeviceAgree
<1> QED
  BY <1>1, ControlInvariance, PTL

\* setAddress() takes the address only after its own status stage, and
\* recvControl() returns only with its own data, although both wait for flags
\* that earlier transfers may have left set.
THEOREM OwnWaits == Control!Spec => WaitsAreForThisRequest
<1>1. /\ CInv /\ [Control!Next]_Control!vars
      => [/\ (DADD' # DADD /\ DADD' # 0) => known.address = DADD'
          /\ (ctl_pc = "recvControl" /\ ctl_pc' = "idle") => gotData]_Control!vars
  <2> SUFFICES ASSUME CInv, Control!Next
               PROVE  /\ (DADD' # DADD /\ DADD' # 0) => known.address = DADD'
                      /\ (ctl_pc = "recvControl" /\ ctl_pc' = "idle") => gotData
    OBVIOUS
  <2>1. ASSUME DADD' # DADD, DADD' # 0 PROVE Control!AddressIsSet
    BY <2>1 DEF Control!Next, Control!Isr, Control!Host, Control!IsrWithoutSetup, Control!Serve,
                Control!SetAddress, Control!RecvControl, Control!IsrSetup, Control!DataReceived,
                Control!HostReadsIn, Control!HostWritesOut, Control!HostSeesStall,
                Control!HostSendsSof, Control!BusReset, Control!HostSetup, Control!device
  <2>2. ASSUME ctl_pc = "recvControl", ctl_pc' = "idle" PROVE Control!DataReceived
    BY <2>2 DEF Control!Next, Control!Isr, Control!Host, Control!IsrWithoutSetup, Control!Serve,
                Control!SetAddress, Control!AddressIsSet, Control!RecvControl, Control!IsrSetup,
                Control!HostReadsIn, Control!HostWritesOut, Control!HostSeesStall,
                Control!HostSendsSof, Control!BusReset, Control!HostSetup
  <2>3. Control!AddressIsSet => known.address = DADD'
    BY DEF Control!AddressIsSet, CInv, Protocol, InSetAddress
  <2>4. Control!DataReceived => gotData
    BY DEF Control!DataReceived, Control!DataIsThere, CInv, Protocol, InRecvControl
  <2> QED
    BY <2>1, <2>2, <2>3, <2>4
<1> QED
  BY <1>1, ControlInvariance, PTL
     DEF Control!Spec, WaitsAreForThisRequest, Control!WaitsAreForThisRequest

-----------------------------------------------------------------------------
(* The IN endpoint: send() and clear() against the peripheral. *)

\* send() is at work on the buffer, behind the test of the bank.
Preparing == in_pc \in {"copy", "count", "ack", "ready"}

\* Who may touch the bank: the peripheral while it is ready, send() otherwise.
BankOwned ==
  /\ in_onBus # In!Idle => in_bk1rdy = 1
  /\ in_trcpt1 = 1 => in_bk1rdy = 0
  /\ Preparing => in_bk1rdy = 0
  /\ Preparing \/ in_pc = "wait" => in_len # 0
  /\ in_pc = "ready" => in_trcpt1 = 0
  /\ in_pc \in {"clearAck", "clearReady"} => in_byteCount = 0

\* What the buffer, the bank and the packet on the bus hold.
PacketsHeld ==
  /\ in_received <= in_armed
  /\ in_pc \in {"count", "ack", "ready"} => \A i \in 1..In!Chunk : in_cache[i] = in_armed + i
  /\ in_pc \in {"ack", "ready"} => in_byteCount = In!Chunk
  /\ in_bk1rdy = 1 /\ in_byteCount # 0 =>
       /\ in_received <= in_armed - in_byteCount
       /\ \A i \in 1..in_byteCount : in_cache[i] = in_armed - in_byteCount + i
  /\ in_onBus # In!Idle /\ in_onBus # <<>> =>
       /\ in_received <= in_armed - Len(in_onBus)
       /\ \A i \in 1..Len(in_onBus) : in_onBus[i] = in_armed - Len(in_onBus) + i
       /\ in_byteCount \in {0, Len(in_onBus)}

\* send() never asks for more than the bound of the history.
RoomLeft == Preparing \/ in_pc \in {"loop", "wait"} => in_armed + in_len <= MaxBytes

SendingInv == In!TypeOK /\ RoomLeft /\ In!Accounted /\ (~in_raced => BankOwned /\ PacketsHeld)

\* A packet is a sequence of at most Size positions; Idle is none.
LEMMA PacketShape ==
  ASSUME NEW p \in In!Packets
  PROVE  /\ p \in Seq(In!Positions) /\ Len(p) \in 0..Size /\ DOMAIN p = 1..Len(p) /\ p # In!Idle
         /\ \A i \in 1..Len(p) : p[i] \in In!Positions
<1>1. PICK n \in 0..Size : p \in [1..n -> In!Positions]
  BY DEF In!Packets
<1>2. n \in Nat /\ Size \in Nat
  BY DeviceAssumption DEF In!InAssumption
<1>3. p \in Seq(In!Positions) /\ Len(p) = n
  BY <1>1, <1>2
<1>4. p # In!Idle
  <2> SUFFICES ASSUME p = In!Idle PROVE FALSE
    OBVIOUS
  <2>1. Len(p) = 1 /\ p[1] = -1
    BY DEF In!Idle
  <2>2. p[1] \in In!Positions
    BY <2>1, <1>1, <1>3
  <2> QED
    BY <2>1, <2>2, DeviceAssumption DEF In!Positions, In!InAssumption
<1> QED
  BY <1>1, <1>2, <1>3, <1>4

\* The packet the peripheral takes from the buffer.
LEMMA TakenPacket ==
  ASSUME In!TypeOK
  PROVE  LET p == SubSeq(in_cache, 1, in_byteCount) IN
         /\ p \in In!Packets /\ Len(p) = in_byteCount
         /\ \A i \in 1..in_byteCount : p[i] = in_cache[i]
<1>1. /\ in_cache \in [1..Size -> In!Positions] /\ in_byteCount \in 0..Size /\ Size \in Nat
  BY DeviceAssumption DEF In!TypeOK, In!InAssumption
<1>2. in_cache \in Seq(In!Positions) /\ Len(in_cache) = Size
  BY <1>1
<1> DEFINE p == SubSeq(in_cache, 1, in_byteCount)
<1>3. /\ p \in Seq(In!Positions) /\ Len(p) = in_byteCount
      /\ \A i \in 1..in_byteCount : p[i] = in_cache[i]
  BY <1>1, <1>2
<1>4. p \in [1..in_byteCount -> In!Positions]
  BY <1>3, LenProperties
<1>5. p \in In!Packets
  BY <1>4, <1>1 DEF In!Packets
<1> QED
  BY <1>3, <1>5

\* A chunk is not empty and fits both the packet and what is left.
LEMMA ChunkBounds ==
  ASSUME in_len \in 0..MaxSend
  PROVE  In!Chunk \in 0..Size /\ In!Chunk <= in_len /\ (in_len # 0 => In!Chunk >= 1)
BY DeviceAssumption DEF In!Chunk, In!InAssumption

\* Nothing is in the buffer at first.
LEMMA SendingInit == In!Init => SendingInv
<1> SUFFICES ASSUME In!Init PROVE SendingInv
  OBVIOUS
<1> USE DeviceAssumption DEF In!InAssumption
<1>1. in_onBus \in In!Packets \cup {In!Idle}
  BY DEF In!Init
<1>2. in_cache \in [1..Size -> In!Positions]
  BY DEF In!Init, In!Positions
<1>3. in_raced \in BOOLEAN
  BY Zenon DEF In!Init
<1>5. In!TypeOK
  BY <1>1, <1>2, <1>3 DEF In!Init, In!TypeOK, In!Positions
<1>4. In!Accounted
  BY DEF In!Init, In!Accounted
<1> QED
  BY <1>5, <1>4 DEF SendingInv, In!Init, RoomLeft, Preparing, BankOwned, PacketsHeld

\* Every step keeps the types, whatever has happened inside clear().
LEMMA SendingTypes ==
  ASSUME In!TypeOK, RoomLeft, [In!Next]_In!vars
  PROVE  In!TypeOK' /\ RoomLeft'
<1> USE DeviceAssumption DEF In!InAssumption
<1>0. /\ MaxBytes \in Nat /\ Size \in Nat /\ MaxSend \in Nat /\ Timeout \in Nat /\ Clears \in Nat
      /\ in_armed \in 0..MaxBytes /\ in_len \in 0..MaxSend /\ in_byteCount \in 0..Size
  BY DEF In!TypeOK, In!Positions
<1>c. In!Chunk \in 0..Size /\ In!Chunk <= in_len
  BY <1>0, ChunkBounds
<1>1. ASSUME NEW n \in 1..MaxSend, In!Send(n) PROVE In!TypeOK' /\ RoomLeft'
  BY <1>0, <1>1 DEF In!TypeOK, RoomLeft, Preparing, In!Send, In!Step, In!hw, In!hist
<1>2. ASSUME In!Copy PROVE In!TypeOK' /\ RoomLeft'
  <2>1. in_cache' \in [1..Size -> In!Positions]
    <3> SUFFICES ASSUME NEW i \in 1..Size
                 PROVE  (IF i <= In!Chunk THEN in_armed + i ELSE in_cache[i]) \in In!Positions
      BY <1>2 DEF In!Copy
    <3> QED
      BY <1>0, <1>c, <1>2 DEF In!TypeOK, RoomLeft, Preparing, In!Copy, In!Step, In!Positions
  <2> QED
    BY <2>1, <1>0, <1>2 DEF In!TypeOK, RoomLeft, Preparing, In!Copy, In!Step, In!hw, In!hist
<1>3. ASSUME In!SetByteCount PROVE In!TypeOK' /\ RoomLeft'
  BY <1>0, <1>c, <1>3 DEF In!TypeOK, RoomLeft, Preparing, In!SetByteCount, In!Step, In!hist
<1>4. ASSUME In!SetReady PROVE In!TypeOK' /\ RoomLeft'
  BY <1>0, <1>c, <1>4 DEF In!TypeOK, RoomLeft, Preparing, In!SetReady, In!Step, In!Positions
<1>5. ASSUME In!GiveUp PROVE In!TypeOK' /\ RoomLeft'
  BY <1>0, <1>5 DEF In!TypeOK, RoomLeft, Preparing, In!GiveUp, In!Step, In!Waiting
<1>6. ASSUME In!Return \/ In!NextPacket \/ In!Waited \/ In!WaitMore \/ In!AckComplete
      PROVE  In!TypeOK' /\ RoomLeft'
  <2>1. CASE In!Return
    BY <1>0, <2>1 DEF In!TypeOK, RoomLeft, Preparing, In!Return, In!Step, In!hw, In!hist
  <2>2. CASE In!NextPacket
    BY <1>0, <2>2 DEF In!TypeOK, RoomLeft, Preparing, In!NextPacket, In!Step, In!hw, In!hist
  <2>3. CASE In!Waited
    BY <1>0, <2>3 DEF In!TypeOK, RoomLeft, Preparing, In!Waited, In!Step, In!hw, In!hist
  <2>4. CASE In!WaitMore
    BY <1>0, <2>4 DEF In!TypeOK, RoomLeft, Preparing, In!WaitMore, In!Step, In!hw, In!hist
  <2>5. CASE In!AckComplete
    BY <1>0, <2>5 DEF In!TypeOK, RoomLeft, Preparing, In!AckComplete, In!Step, In!hist
  <2> QED
    BY <1>6, <2>1, <2>2, <2>3, <2>4, <2>5
<1>7. ASSUME In!Clear PROVE In!TypeOK' /\ RoomLeft'
  BY <1>0, <1>7 DEF In!TypeOK, RoomLeft, Preparing, In!Clear, In!Step, In!Waiting
<1>8. ASSUME In!ClearAck \/ In!ClearReady PROVE In!TypeOK' /\ RoomLeft'
  <2>1. CASE In!ClearAck
    BY <1>0, <2>1 DEF In!TypeOK, RoomLeft, Preparing, In!ClearAck, In!Step, In!hist
  <2>2. CASE In!ClearReady
    <3>1. in_raced' \in BOOLEAN
      BY <2>2, Zenon DEF In!TypeOK, In!ClearReady
    <3> QED
      BY <1>0, <2>2, <3>1 DEF In!TypeOK, RoomLeft, Preparing, In!ClearReady, In!Step
  <2> QED
    BY <1>8, <2>1, <2>2
<1>9. ASSUME In!FrameInterrupt PROVE In!TypeOK' /\ RoomLeft'
  BY <1>0, <1>9 DEF In!TypeOK, RoomLeft, Preparing, In!FrameInterrupt, In!send, In!hist
<1>10. ASSUME In!BusIn PROVE In!TypeOK' /\ RoomLeft'
  <2>1. in_onBus' \in In!Packets
    BY <1>10, TakenPacket DEF In!BusIn
  <2> QED
    BY <1>0, <1>10, <2>1 DEF In!TypeOK, RoomLeft, Preparing, In!BusIn, In!send, In!hist
<1>11. ASSUME In!BusInDone PROVE In!TypeOK' /\ RoomLeft'
  <2>1. in_received' \in In!Positions
    <3>1. CASE in_onBus = <<>>
      BY <3>1, <1>11 DEF In!BusInDone, In!TypeOK
    <3>2. CASE in_onBus # <<>>
      <4>1. in_onBus \in In!Packets
        BY <1>11 DEF In!BusInDone, In!TypeOK
      <4>2. Len(in_onBus) \in 1..Len(in_onBus)
        BY <4>1, <3>2, PacketShape, EmptySeq
      <4> QED
        BY <4>1, <4>2, <3>2, PacketShape, <1>11 DEF In!BusInDone
    <3> QED
      BY <3>1, <3>2
  <2> QED
    BY <1>0, <1>11, <2>1 DEF In!TypeOK, RoomLeft, Preparing, In!BusInDone, In!send
<1>12. ASSUME In!BusInError PROVE In!TypeOK' /\ RoomLeft'
  <2>1. in_onBus \in In!Packets
    BY <1>12 DEF In!BusInError, In!TypeOK
  <2>2. in_dropped' \in Nat
    BY <2>1, <1>0, <1>12, PacketShape DEF In!BusInError, In!TypeOK
  <2> QED
    BY <1>0, <1>12, <2>2 DEF In!TypeOK, RoomLeft, Preparing, In!BusInError, In!send
<1>13. CASE UNCHANGED In!vars
  BY <1>13 DEF In!vars, In!send, In!hw, In!hist, In!TypeOK, RoomLeft, Preparing
<1> QED
  BY <1>1, <1>2, <1>3, <1>4, <1>5, <1>6, <1>7, <1>8, <1>9, <1>10, <1>11, <1>12, <1>13
     DEF In!Next, In!InSend, In!Bus

\* What each step does to the bank, the buffer and the accounts, as long as no transfer has
\* come to its end inside clear().
LEMMA BankStep ==
  ASSUME SendingInv, [In!Next]_In!vars, ~in_raced'
  PROVE  BankOwned' /\ PacketsHeld' /\ In!Accounted'
<1> USE DeviceAssumption DEF In!InAssumption
<1>0. /\ MaxBytes \in Nat /\ Size \in Nat \ {0} /\ MaxSend \in Nat
      /\ in_armed \in 0..MaxBytes /\ in_received \in 0..MaxBytes /\ in_len \in 0..MaxSend
      /\ in_byteCount \in 0..Size /\ in_dropped \in Nat /\ in_bk1rdy \in {0, 1}
      /\ in_trcpt1 \in {0, 1}
      /\ in_onBus \in In!Packets \cup {In!Idle} /\ in_cache \in [1..Size -> In!Positions]
  BY DEF SendingInv, In!TypeOK, In!Positions
<1>c. In!Chunk \in 0..Size /\ In!Chunk <= in_len /\ (in_len # 0 => In!Chunk >= 1)
  BY <1>0, ChunkBounds
<1>p. in_onBus # In!Idle => /\ Len(in_onBus) \in Nat /\ (in_onBus # <<>> => Len(in_onBus) >= 1)
                      /\ (in_onBus = <<>> => Len(in_onBus) = 0)
  <2> SUFFICES ASSUME in_onBus # In!Idle
               PROVE /\ Len(in_onBus) \in Nat /\ (in_onBus # <<>> => Len(in_onBus) >= 1)
                     /\ (in_onBus = <<>> => Len(in_onBus) = 0)
    OBVIOUS
  <2>1. in_onBus \in In!Packets
    BY <1>0
  <2>2. in_onBus \in Seq(In!Positions) /\ Len(in_onBus) \in 0..Size
    BY <2>1, PacketShape
  <2> QED
    BY <2>2, EmptySeq
<1>b. /\ ~in_raced /\ BankOwned /\ PacketsHeld
      /\ in_armed - in_received <= in_dropped + (IF in_bk1rdy = 0 THEN 0
                                        ELSE IF in_onBus = In!Idle THEN in_byteCount
                                            ELSE Len(in_onBus))
  <2>1. ~in_raced
    <3>1. in_raced => in_raced'
      <4>1. CASE In!ClearReady
        BY <4>1, Zenon DEF In!ClearReady
      <4>2. CASE UNCHANGED in_raced
        BY <4>2
      <4> QED
        BY <4>1, <4>2
           DEF In!Next, In!InSend, In!Bus, In!vars, In!hist, In!Send, In!Return, In!NextPacket,
               In!Waited, In!WaitMore, In!GiveUp,
               In!Copy, In!SetByteCount, In!AckComplete, In!SetReady, In!Clear, In!ClearAck,
               In!FrameInterrupt,
               In!BusIn, In!BusInDone, In!BusInError
    <3> QED
      BY <3>1
  <2> QED
    BY <2>1 DEF SendingInv, In!Accounted
<1> DEFINE Goal == BankOwned' /\ PacketsHeld' /\ In!Accounted'
<1>1. ASSUME \/ \E n \in 1..MaxSend : In!Send(n)
             \/ In!Return \/ In!NextPacket \/ In!Waited \/ In!WaitMore
             \/ UNCHANGED In!vars
      PROVE  Goal
  <2>1. /\ UNCHANGED <<in_cache, in_byteCount, in_bk1rdy, in_trcpt1, in_onBus, in_armed,
                       in_received, in_dropped>>
        /\ \/ in_pc' \in {"idle", "loop"}
           \/ in_pc' = "wait" /\ in_len' = in_len /\ in_len # 0
           \/ in_pc' = "copy" /\ in_bk1rdy = 0 /\ in_len' = in_len /\ in_len # 0
           \/ UNCHANGED <<in_pc, in_len>>
    <3>1. CASE \E n \in 1..MaxSend : In!Send(n)
      BY <3>1 DEF In!Send, In!Step, In!hw, In!hist, Preparing
    <3>2. CASE In!Return \/ In!WaitMore
      BY <3>2 DEF In!Return, In!WaitMore, In!Step, In!hw, In!hist, Preparing
    <3>3. CASE In!NextPacket
      BY <3>3 DEF In!NextPacket, In!Step, In!hw, In!hist, Preparing
    <3>4. CASE In!Waited
      BY <3>4, <1>b, <1>0 DEF In!Waited, In!Step, In!hw, In!hist, Preparing, BankOwned
    <3>5. CASE UNCHANGED In!vars
      BY <3>5 DEF In!vars, In!send, In!hw, In!hist
    <3> QED
      BY <1>1, <3>1, <3>2, <3>3, <3>4, <3>5
  <2>2. BankOwned'
    BY <2>1, <1>b DEF BankOwned, Preparing
  <2>3. PacketsHeld'
    BY <2>1, <1>b DEF PacketsHeld, Preparing, In!Chunk
  <2>4. In!Accounted'
    BY <2>1, <1>b DEF In!Accounted
  <2> QED
    BY <2>2, <2>3, <2>4
<1>2. ASSUME In!GiveUp PROVE Goal
  <2>1. BankOwned'
    BY <1>2, <1>b DEF In!GiveUp, In!Step, BankOwned, Preparing
  <2>2. PacketsHeld'
    BY <1>2, <1>b DEF In!GiveUp, In!Step, PacketsHeld
  <2>3. In!Accounted'
    <3>1. /\ in_byteCount' = 0 /\ UNCHANGED <<in_bk1rdy, in_onBus, in_armed, in_received>>
          /\ in_dropped' = in_dropped + (IF in_bk1rdy = 1
                 /\ in_onBus = In!Idle THEN in_byteCount ELSE 0)
      BY <1>2 DEF In!GiveUp, In!Waiting
    <3>2. CASE in_bk1rdy = 1 /\ in_onBus = In!Idle
      BY <3>1, <3>2, <1>0, <1>b DEF In!Accounted
    <3>3. CASE ~(in_bk1rdy = 1 /\ in_onBus = In!Idle)
      <4>1. in_dropped' = in_dropped
        BY <3>1, <3>3, <1>0
      <4>2. CASE in_bk1rdy = 0
        BY <3>1, <4>1, <4>2, <1>0, <1>b DEF In!Accounted
      <4>3. CASE in_onBus # In!Idle /\ in_bk1rdy # 0
        BY <3>1, <4>1, <4>3, <1>b DEF In!Accounted
      <4> QED
        BY <3>3, <4>2, <4>3, <1>0
    <3> QED
      BY <3>2, <3>3
  <2> QED
    BY <2>1, <2>2, <2>3
<1>3. ASSUME In!Copy PROVE Goal
  <2>1. /\ in_pc = "copy" /\ in_pc' = "count" /\ in_bk1rdy = 0 /\ in_onBus = In!Idle /\ in_len # 0
        /\ UNCHANGED <<in_len, in_byteCount, in_bk1rdy, in_trcpt1, in_onBus, in_armed,
                       in_received, in_dropped>>
        /\ \A i \in 1..Size : i <= In!Chunk => in_cache'[i] = in_armed + i
    BY <1>0, <1>3, <1>b DEF In!Copy, In!Step, In!hw, In!hist, BankOwned, Preparing
  <2>2. BankOwned'
    BY <2>1, <1>b DEF BankOwned, Preparing
  <2>3. PacketsHeld'
    BY <2>1, <1>b, <1>c, <1>0 DEF PacketsHeld, In!Chunk
  <2>4. In!Accounted'
    BY <2>1, <1>b DEF In!Accounted
  <2> QED
    BY <2>2, <2>3, <2>4
<1>4. ASSUME In!SetByteCount PROVE Goal
  <2>1. /\ in_pc = "count" /\ in_pc' = "ack" /\ in_bk1rdy = 0 /\ in_onBus = In!Idle /\ in_len # 0
        /\ in_byteCount' = In!Chunk
        /\ UNCHANGED <<in_len, in_cache, in_bk1rdy, in_trcpt1, in_onBus, in_armed, in_received,
                       in_dropped>>
    BY <1>0, <1>4, <1>b DEF In!SetByteCount, In!Step, In!hist, BankOwned, Preparing
  <2>2. BankOwned'
    BY <2>1, <1>b DEF BankOwned, Preparing
  <2>3. PacketsHeld'
    BY <2>1, <1>b DEF PacketsHeld, In!Chunk
  <2>4. In!Accounted'
    BY <2>1, <1>b DEF In!Accounted
  <2> QED
    BY <2>2, <2>3, <2>4
<1>5. ASSUME In!AckComplete PROVE Goal
  <2>1. /\ in_pc = "ack" /\ in_pc' = "ready" /\ in_bk1rdy = 0 /\ in_onBus = In!Idle /\ in_len # 0
        /\ in_trcpt1' = 0
        /\ UNCHANGED <<in_len, in_cache, in_byteCount, in_bk1rdy, in_onBus, in_armed,
                       in_received, in_dropped>>
    BY <1>0, <1>5, <1>b DEF In!AckComplete, In!Step, In!hist, BankOwned, Preparing
  <2>2. BankOwned'
    BY <2>1, <1>b DEF BankOwned, Preparing
  <2>3. PacketsHeld'
    BY <2>1, <1>b DEF PacketsHeld, In!Chunk
  <2>4. In!Accounted'
    BY <2>1, <1>b DEF In!Accounted
  <2> QED
    BY <2>2, <2>3, <2>4
<1>6. ASSUME In!SetReady PROVE Goal
  <2>1. /\ in_pc = "ready" /\ in_pc' = "loop" /\ in_bk1rdy = 0 /\ in_onBus = In!Idle
        /\ in_trcpt1 = 0
        /\ in_bk1rdy' = 1 /\ in_armed' = in_armed + in_byteCount /\ in_byteCount = In!Chunk
        /\ \A i \in 1..in_byteCount : in_cache[i] = in_armed + i
        /\ UNCHANGED <<in_cache, in_byteCount, in_trcpt1, in_onBus, in_received, in_dropped>>
    BY <1>0, <1>6, <1>b DEF In!SetReady, In!Step, BankOwned, PacketsHeld, Preparing
  <2>2. BankOwned'
    BY <2>1, <1>b DEF BankOwned, Preparing
  <2>3. PacketsHeld'
    BY <2>1, <1>b, <1>0 DEF PacketsHeld, Preparing
  <2>4. In!Accounted'
    BY <2>1, <1>b, <1>0 DEF In!Accounted
  <2> QED
    BY <2>2, <2>3, <2>4
<1>7. ASSUME In!Clear PROVE Goal
  <2>1. BankOwned'
    BY <1>7, <1>b DEF In!Clear, In!Step, BankOwned, Preparing
  <2>2. PacketsHeld'
    BY <1>7, <1>b DEF In!Clear, In!Step, PacketsHeld
  <2>3. In!Accounted'
    <3>1. /\ in_byteCount' = 0 /\ UNCHANGED <<in_bk1rdy, in_onBus, in_armed, in_received>>
          /\ in_dropped' = in_dropped + (IF in_bk1rdy = 1
                 /\ in_onBus = In!Idle THEN in_byteCount ELSE 0)
      BY <1>7 DEF In!Clear, In!Waiting
    <3>2. CASE in_bk1rdy = 1 /\ in_onBus = In!Idle
      BY <3>1, <3>2, <1>0, <1>b DEF In!Accounted
    <3>3. CASE ~(in_bk1rdy = 1 /\ in_onBus = In!Idle)
      <4>1. in_dropped' = in_dropped
        BY <3>1, <3>3, <1>0
      <4>2. CASE in_bk1rdy = 0
        BY <3>1, <4>1, <4>2, <1>0, <1>b DEF In!Accounted
      <4>3. CASE in_onBus # In!Idle /\ in_bk1rdy # 0
        BY <3>1, <4>1, <4>3, <1>b DEF In!Accounted
      <4> QED
        BY <3>3, <4>2, <4>3, <1>0
    <3> QED
      BY <3>2, <3>3
  <2> QED
    BY <2>1, <2>2, <2>3
<1>8. ASSUME In!ClearAck PROVE Goal
  <2>1. BankOwned'
    BY <1>8, <1>b DEF In!ClearAck, In!Step, In!hist, BankOwned, Preparing
  <2>2. PacketsHeld'
    BY <1>8, <1>b DEF In!ClearAck, In!Step, In!hist, PacketsHeld
  <2>3. In!Accounted'
    BY <1>8, <1>b DEF In!ClearAck, In!hist, In!Accounted
  <2> QED
    BY <2>1, <2>2, <2>3
<1>9. ASSUME In!ClearReady PROVE Goal
  <2>0. in_trcpt1 # 1
    BY <1>9, Zenon DEF In!ClearReady
  <2>1. /\ in_pc = "clearReady" /\ in_pc' = "idle" /\ in_trcpt1 = 0 /\ in_bk1rdy' = 1
        /\ in_byteCount = 0
        /\ UNCHANGED <<in_len, in_cache, in_byteCount, in_trcpt1, in_onBus, in_armed,
                       in_received, in_dropped>>
    BY <2>0, <1>0, <1>9, <1>b DEF In!ClearReady, In!Step, BankOwned
  <2>2. BankOwned'
    BY <2>1, <1>b DEF BankOwned, Preparing
  <2>3. PacketsHeld'
    BY <2>1, <1>b, <1>0 DEF PacketsHeld, Preparing
  <2>4. In!Accounted'
    BY <2>1, <1>b, <1>0, <1>p DEF In!Accounted, BankOwned
  <2> QED
    BY <2>2, <2>3, <2>4
<1>10. ASSUME In!FrameInterrupt PROVE Goal
  <2>1. BankOwned'
    BY <1>10, <1>b DEF In!FrameInterrupt, In!send, In!hist, BankOwned, Preparing
  <2>2. PacketsHeld'
    BY <1>10, <1>b DEF In!FrameInterrupt, In!send, In!hist, PacketsHeld, In!Chunk
  <2>3. In!Accounted'
    BY <1>10, <1>b DEF In!FrameInterrupt, In!hist, In!Accounted
  <2> QED
    BY <2>1, <2>2, <2>3
<1>11. ASSUME In!BusIn PROVE Goal
  <2>1. /\ in_bk1rdy = 1 /\ in_onBus = In!Idle /\ in_onBus' \in In!Packets
        /\ Len(in_onBus') = in_byteCount
        /\ \A i \in 1..in_byteCount : in_onBus'[i] = in_cache[i]
        /\ UNCHANGED <<in_pc, in_len, in_cache, in_byteCount, in_bk1rdy, in_trcpt1, in_armed,
                       in_received, in_dropped>>
    BY <1>11, TakenPacket DEF In!BusIn, In!send, In!hist, SendingInv
  <2>2. in_onBus' # In!Idle /\ (in_onBus' # <<>> => in_byteCount # 0)
    BY <2>1, PacketShape, EmptySeq
  <2>3. BankOwned'
    BY <2>1, <1>b DEF BankOwned, Preparing
  <2>4. PacketsHeld'
    BY <2>1, <2>2, <1>b DEF PacketsHeld, In!Chunk
  <2>5. In!Accounted'
    BY <2>1, <2>2, <1>b DEF In!Accounted
  <2> QED
    BY <2>3, <2>4, <2>5
<1>12. ASSUME In!BusInDone PROVE Goal
  <2>1. /\ in_onBus # In!Idle /\ in_bk1rdy = 1 /\ in_onBus' = In!Idle /\ in_bk1rdy' = 0
        /\ in_trcpt1' = 1
        /\ ~Preparing
        /\ UNCHANGED <<in_pc, in_len, in_cache, in_byteCount, in_armed, in_dropped>>
    BY <1>12, <1>b DEF In!BusInDone, In!send, BankOwned
  <2>2. \/ in_onBus = <<>> /\ in_received' = in_received
        \/ in_onBus # <<>> /\ in_received' = in_armed
    BY <1>12, <1>b, <1>p, <1>0, <2>1 DEF In!BusInDone, PacketsHeld
  <2>3. BankOwned'
    BY <2>1, <1>b DEF BankOwned, Preparing
  <2>4. PacketsHeld'
    BY <2>1, <2>2, <1>b, <1>0 DEF PacketsHeld, Preparing
  <2>5. In!Accounted'
    BY <2>1, <2>2, <1>b, <1>0, <1>p DEF In!Accounted
  <2> QED
    BY <2>3, <2>4, <2>5
<1>13. ASSUME In!BusInError PROVE Goal
  <2>1. /\ in_onBus # In!Idle /\ in_bk1rdy = 1 /\ in_onBus' = In!Idle
        /\ in_dropped' = IF in_byteCount = 0 THEN in_dropped + Len(in_onBus) ELSE in_dropped
        /\ UNCHANGED <<in_pc, in_len, in_cache, in_byteCount, in_bk1rdy, in_trcpt1, in_armed,
                       in_received>>
    BY <1>13, <1>b DEF In!BusInError, In!send, BankOwned
  <2>2. BankOwned'
    BY <2>1, <1>b DEF BankOwned, Preparing
  <2>3. PacketsHeld'
    BY <2>1, <1>b, <1>0 DEF PacketsHeld, In!Chunk
  <2>4. In!Accounted'
    BY <2>1, <1>b, <1>0, <1>p DEF In!Accounted, PacketsHeld
  <2> QED
    BY <2>2, <2>3, <2>4
<1> QED
  BY <1>1, <1>2, <1>3, <1>4, <1>5, <1>6, <1>7, <1>8, <1>9, <1>10, <1>11, <1>12, <1>13
     DEF In!Next, In!InSend, In!Bus

\* The invariant of the IN endpoint is inductive.
LEMMA SendingStep == SendingInv /\ [In!Next]_In!vars => SendingInv'
<1> SUFFICES ASSUME SendingInv, [In!Next]_In!vars PROVE SendingInv'
  OBVIOUS
<1>1. In!TypeOK' /\ RoomLeft'
  BY SendingTypes DEF SendingInv
<1>2. ~in_raced' => BankOwned' /\ PacketsHeld' /\ In!Accounted'
  BY BankStep
<1>3. In!Accounted'
  BY <1>2 DEF In!Accounted
<1> QED
  BY <1>1, <1>2, <1>3 DEF SendingInv

\* The invariant of the IN endpoint: who owns the bank, and which bytes the buffer, the bank
\* and the packet on the bus hold.
THEOREM SendingInvariance == In!Spec => []SendingInv
BY SendingInit, SendingStep, PTL DEF In!Spec

\* The types of the IN endpoint, also behind a transfer that ends inside clear().
THEOREM SendingTyped == In!Spec => []In!TypeOK
<1>1. SendingInv => In!TypeOK
  BY DEF SendingInv
<1> QED
  BY <1>1, SendingInvariance, PTL

\* send() and clear(): the buffer is not rewritten under a packet that is ready or on the bus,
\* the host gets no byte twice and none behind a later one, and none is lost but those that a
\* timeout or clear() gives up.
THEOREM PacketsKept == In!Spec => PacketsStable
<1>1. SendingInv => In!Accounted
  BY DEF SendingInv
<1>2. SendingInv /\ [In!Next]_In!vars => [in_bk1rdy = 1 /\ ~in_raced
          => in_cache' = in_cache]_In!vars
  <2> SUFFICES ASSUME SendingInv, [In!Next]_In!vars, in_bk1rdy = 1, ~in_raced
               PROVE  in_cache' = in_cache
    OBVIOUS
  <2>1. ~In!Copy
    BY DEF SendingInv, BankOwned, Preparing, In!Copy, In!Step
  <2> QED
    BY <2>1 DEF In!Next, In!InSend, In!Bus, In!vars, In!Send, In!Return, In!NextPacket,
                In!Waited, In!WaitMore, In!GiveUp,
                In!SetByteCount, In!AckComplete, In!SetReady, In!Clear, In!ClearAck,
                In!ClearReady,
                In!FrameInterrupt, In!BusIn, In!BusInDone, In!BusInError
<1>3. SendingInv /\ [In!Next]_In!vars
        => [in_onBus' # In!Idle /\ in_onBus' # <<>> /\ ~in_raced
            => in_onBus'[1] > in_received]_in_onBus
  <2> SUFFICES ASSUME SendingInv, [In!Next]_In!vars, in_onBus' # in_onBus,
                      in_onBus' # In!Idle, in_onBus' # <<>>, ~in_raced
               PROVE  in_onBus'[1] > in_received
    OBVIOUS
  <2>1. In!BusIn
    BY DEF In!Next, In!InSend, In!Bus, In!vars, In!hw, In!Send, In!Return, In!NextPacket,
           In!Waited, In!WaitMore, In!GiveUp, In!Copy,
           In!SetByteCount, In!AckComplete, In!SetReady, In!Clear, In!ClearAck, In!ClearReady,
           In!FrameInterrupt,
           In!BusInDone, In!BusInError
  <2>2. /\ in_bk1rdy = 1 /\ in_onBus' \in In!Packets /\ Len(in_onBus') = in_byteCount
        /\ \A i \in 1..in_byteCount : in_onBus'[i] = in_cache[i]
    BY <2>1, TakenPacket DEF In!BusIn, SendingInv
  <2>3. in_byteCount >= 1
    BY <2>2, PacketShape, EmptySeq
  <2>4. /\ in_received <= in_armed - in_byteCount /\ in_cache[1] = in_armed - in_byteCount + 1
        /\ {in_armed, in_received, in_byteCount} \subseteq Int
    BY <2>2, <2>3, DeviceAssumption DEF SendingInv, PacketsHeld, In!TypeOK, In!Positions,
                                        In!InAssumption
  <2> QED
    BY <2>2, <2>3, <2>4
<1> QED
  BY <1>1, <1>2, <1>3, SendingInit, SendingStep, PTL
     DEF In!Spec, PacketsStable, In!CacheStable, In!InOrder

-----------------------------------------------------------------------------
(* The serial port: what the sketch reads of the stream. *)

\* readBreak() masks the interrupts for as long as it looks at the request.
BreakMasked ==
  /\ se_masked <=> se_pc \in {"break", "clear"}
  /\ se_pc = "clear" => se_ret = se_breakValue
  /\ se_breakValue # Se!None => se_breakValue = se_breaks /\ se_returned < se_breaks
  /\ se_breakValue = Se!None => se_returned = se_breaks

\* The bytes that were returned, and the one that peek() keeps.
ReturnedOnce ==
  /\ \A i \in 1..Len(se_taken) : se_taken[i] <= se_got /\ se_taken[i] # se_peeked
  /\ \A i, j \in 1..Len(se_taken) : i # j => se_taken[i] # se_taken[j]
  /\ se_peeked <= se_got

\* The bytes readBytes() has placed: k of them, without a gap, newer than all that were
\* returned; in their order, and as many as it counts, unless the count went back.
Placed(k) ==
  /\ \A i \in 0..MaxRead-1 : se_buffer[i] # Se!None <=> i < k
  /\ \A i \in 0..k-1 : se_buffer[i] <= se_got /\ se_buffer[i] # se_peeked
  /\ \A i \in 0..k-1, j \in 1..Len(se_taken) : se_taken[j] < se_buffer[i]
  /\ \A i, j \in 0..k-1 : i # j => se_buffer[i] # se_buffer[j]
  /\ se_count <= k \/ se_count = Word - 1
  /\ \/ se_disturbed
     \/ /\ se_count = k \/ (se_count = Word - 1 /\ k = 0)
        /\ \A i, j \in 0..k-1 : i < j => se_buffer[i] < se_buffer[j]

PlacedInOrder == se_pc = "bytes" => \E k \in 0..se_len : Placed(k)

SerialInv == Se!TypeOK /\ BreakMasked /\ ReturnedOnce /\ PlacedInOrder /\ Se!NothingSkipped

\* The count of a size_t that goes back by one.
LEMMA CountBack ==
  ASSUME NEW c \in 0..Word-1
  PROVE  (c + Word - 1) % Word = IF c = 0 THEN Word - 1 ELSE c - 1
<1>1. Word \in Nat /\ Word > 0
  BY DeviceAssumption DEF Se!SerialAssumption
<1>2. CASE c = 0
  BY <1>1, <1>2
<1>3. CASE c # 0
  BY <1>1, <1>3, SMTT(30)
<1> QED
  BY <1>2, <1>3

\* What readBytes() returns of k bytes that were placed without a gap.
LEMMA DeliveredBytes ==
  ASSUME Se!TypeOK, NEW k \in 0..se_len, \A i \in 0..MaxRead-1 : se_buffer[i] # Se!None <=> i < k
  PROVE  LET m == IF se_count < k THEN se_count ELSE k
         IN  /\ m \in 0..k
             /\ Se!Delivered = [i \in 1..m |-> se_buffer[i-1]]
             /\ Se!Delivered \in Seq(Se!Byte) /\ Len(Se!Delivered) = m
             /\ \A i \in 1..m : Se!Delivered[i] = se_buffer[i-1] /\ i-1 \in 0..k-1
<1> DEFINE m == IF se_count < k THEN se_count ELSE k
<1>1. /\ Word \in Nat /\ MaxRead \in Nat /\ MaxSent \in Nat /\ se_len \in 0..MaxRead
      /\ se_count \in 0..Word-1
      /\ se_buffer \in [0..MaxRead-1 -> Se!Byte \cup {Se!None}]
  BY DeviceAssumption DEF Se!SerialAssumption, Se!TypeOK
<1>2. m \in 0..k /\ m \in Nat
  BY <1>1
<1>3. Se!Covered = 1..m
  BY <1>1 DEF Se!Covered
<1>5. Se!Delivered = [i \in 1..m |-> se_buffer[i-1]]
  BY <1>3 DEF Se!Delivered
<1>6. \A i \in 1..m : se_buffer[i-1] \in Se!Byte /\ i-1 \in 0..k-1
  BY <1>1, <1>2
<1>7. Se!Delivered \in [1..m -> Se!Byte] /\ \A i \in 1..m : Se!Delivered[i] = se_buffer[i-1]
  BY <1>5, <1>6
<1>8. Se!Delivered \in Seq(Se!Byte) /\ Len(Se!Delivered) = m
  BY <1>7, <1>2
<1> QED
  BY <1>2, <1>5, <1>6, <1>7, <1>8

\* Nothing has been sent at first.
LEMMA SerialInit == Se!Init => SerialInv
<1> SUFFICES ASSUME Se!Init PROVE SerialInv
  OBVIOUS
<1>1. /\ {MaxSent, MaxRead, MaxResets, MaxBreaks} \subseteq Nat /\ Word \in Nat
      /\ Word > MaxRead + 1
  BY DeviceAssumption DEF Se!SerialAssumption
<1>2. se_buffer \in [0..MaxRead-1 -> Se!Byte
          \cup {Se!None}] /\ se_taken \in Seq(Se!Byte) /\ Len(se_taken) = 0
  BY EmptySeq DEF Se!Init
<1>3. se_configured \in BOOLEAN /\ se_expired \in BOOLEAN /\ se_masked \in BOOLEAN
          /\ se_disturbed \in BOOLEAN
  BY Zenon DEF Se!Init
<1>4. Se!TypeOK
  BY <1>1, <1>2, <1>3 DEF Se!Init, Se!TypeOK, Se!None
<1>5. Se!NothingSkipped
  BY <1>2 DEF Se!NothingSkipped, Se!InBuffer, Se!Init, Se!None
<1> QED
  BY <1>2, <1>4, <1>5 DEF Se!Init, SerialInv, BreakMasked, ReturnedOnce, PlacedInOrder, Se!None

\* Every step keeps the types: what was placed without a gap is what is appended.
LEMMA SerialTypes ==
  ASSUME SerialInv, [Se!Next]_Se!vars
  PROVE  Se!TypeOK'
<1>0. /\ {MaxSent, MaxRead, MaxResets, MaxBreaks} \subseteq Nat /\ Word \in Nat
      /\ Word > MaxRead + 1
  BY DeviceAssumption DEF Se!SerialAssumption
<1>t. Se!TypeOK
  BY DEF SerialInv
<1>1. CASE Se!HostSends
  BY <1>0, <1>t, <1>1 DEF Se!HostSends, Se!TypeOK, Se!bytes, Se!brk
<1>2. CASE Se!BusReset
  <2>1. se_configured' \in BOOLEAN
    BY <1>2, Zenon DEF Se!BusReset
  <2> QED
    BY <1>0, <1>t, <1>2, <2>1 DEF Se!BusReset, Se!TypeOK, Se!bytes, Se!brk
<1>3. CASE Se!Configure
  <2>1. se_configured' \in BOOLEAN
    BY <1>3, Zenon DEF Se!Configure
  <2> QED
    BY <1>0, <1>t, <1>3, <2>1 DEF Se!Configure, Se!TypeOK, Se!bytes, Se!brk, Se!Byte
<1>4. CASE Se!SendBreak
  BY <1>0, <1>t, <1>4 DEF Se!SendBreak, Se!TypeOK, Se!bytes, Se!stream
<1>r. ASSUME NEW c, Se!RecvByte(c)
      PROVE  /\ UNCHANGED <<se_configured, se_sent, se_resets, se_dropped>>
             /\ se_got' \in 0..se_sent
             /\ c \in Se!Byte \cup {Se!None}
  <2>1. /\ MaxSent \in Nat /\ se_sent \in 0..MaxSent /\ se_got \in 0..se_sent
    BY <1>0, <1>t DEF Se!TypeOK
  <2>2. CASE c = se_got + 1 /\ Se!Recv(1, 1)
    BY <2>1, <2>2 DEF Se!Recv, Se!Byte
  <2>3. CASE c = Se!None /\ UNCHANGED Se!stream
    BY <2>1, <2>3 DEF Se!stream
  <2> QED
    BY <1>r, <2>2, <2>3 DEF Se!RecvByte
<1>5. CASE Se!Read
  <2>1. PICK c \in Se!Byte \cup {Se!None} :
          /\ IF se_peeked # Se!None THEN c = se_peeked /\ UNCHANGED Se!stream ELSE Se!RecvByte(c)
          /\ se_taken' = IF c = Se!None THEN se_taken ELSE Append(se_taken, c)
    BY <1>5 DEF Se!Read
  <2>2. se_taken' \in Seq(Se!Byte)
    BY <2>1, <1>t, AppendProperties DEF Se!TypeOK
  <2>3. UNCHANGED <<se_configured, se_sent, se_resets, se_dropped>> /\ se_got' \in 0..se_sent
    BY <2>1, <1>r, <1>t DEF Se!TypeOK, Se!stream
  <2> QED
    BY <1>0, <1>t, <1>5, <2>2, <2>3 DEF Se!Read, Se!TypeOK, Se!bytes, Se!brk
<1>6. CASE Se!Peek
  <2>1. /\ UNCHANGED <<se_configured, se_sent, se_resets, se_dropped>> /\ se_got' \in 0..se_sent
        /\ se_peeked' \in Se!Byte \cup {Se!None}
    BY <1>6, <1>r, <1>t DEF Se!Peek, Se!TypeOK, Se!stream
  <2> QED
    BY <1>0, <1>t, <1>6, <2>1 DEF Se!Peek, Se!TypeOK, Se!bytes, Se!brk
<1>7. CASE Se!CallReadBytes
  <2>1. se_buffer' \in [0..MaxRead-1 -> Se!Byte \cup {Se!None}]
    BY <1>7 DEF Se!CallReadBytes, Se!ReadBytes
  <2>2. se_expired' \in BOOLEAN
    BY <1>7, Zenon DEF Se!CallReadBytes, Se!ReadBytes
  <2> QED
    BY <1>0, <1>t, <1>7, <2>1, <2>2 DEF Se!CallReadBytes, Se!ReadBytes, Se!TypeOK, Se!stream,
                                        Se!brk
<1>8. CASE Se!Expire
  <2>1. se_expired' \in BOOLEAN
    BY <1>8, Zenon DEF Se!Expire
  <2> QED
    BY <1>0, <1>t, <1>8, <2>1 DEF Se!Expire, Se!TypeOK, Se!stream, Se!brk
<1>9. CASE Se!BytesReceived
  <2>1. PICK n \in 1..MaxRead :
          /\ Se!Recv(se_len - se_count, n)
          /\ se_buffer' = [i \in 0..MaxRead-1 |->
                          IF i \in se_count..(se_count + n - 1) THEN se_got + 1 + (i - se_count)
                                                          ELSE se_buffer[i]]
          /\ se_count' = se_count + n
    BY <1>9 DEF Se!BytesReceived
  <2>2. /\ se_got' = se_got + n /\ n <= se_len - se_count /\ n <= se_sent - se_got
        /\ UNCHANGED <<se_configured, se_sent, se_resets, se_dropped>>
    BY <2>1 DEF Se!Recv
  <2>3. se_buffer' \in [0..MaxRead-1 -> Se!Byte \cup {Se!None}]
    <3> SUFFICES ASSUME NEW i \in 0..MaxRead-1
                 PROVE  (IF i \in se_count..(se_count + n - 1) THEN se_got + 1 + (i - se_count)
                                                         ELSE se_buffer[i]) \in Se!Byte
                                                             \cup {Se!None}
      BY <2>1
    <3>1. se_buffer[i] \in Se!Byte \cup {Se!None}
      BY <1>t DEF Se!TypeOK
    <3>2. /\ se_got \in Nat /\ se_sent \in Nat /\ se_sent <= MaxSent /\ se_count \in Nat
          /\ MaxSent \in Nat
      BY <1>0, <1>t DEF Se!TypeOK
    <3>3. i \in se_count..(se_count + n - 1) => se_got + 1 + (i - se_count) \in Se!Byte
      BY <2>2, <3>2 DEF Se!Byte
    <3> QED
      BY <3>1, <3>3
  <2>4. se_got' \in 0..se_sent' /\ se_count' \in 0..Word-1
    BY <1>0, <1>t, <2>1, <2>2 DEF Se!TypeOK
  <2> QED
    BY <1>0, <1>t, <1>9, <2>2, <2>3, <2>4 DEF Se!BytesReceived, Se!TypeOK, Se!brk
<1>10. CASE Se!BytesUnconfigured
  <2>1. se_count' \in 0..Word-1
    <3>1. se_count \in 0..Word-1 /\ se_count' = (se_count + Word - 1) % Word
      BY <1>t, <1>10 DEF Se!BytesUnconfigured, Se!TypeOK
    <3>2. se_count' = IF se_count = 0 THEN Word - 1 ELSE se_count - 1
      BY <3>1, CountBack
    <3> QED
      BY <1>0, <3>1, <3>2
  <2>2. se_disturbed' \in BOOLEAN
    BY <1>t, <1>10, Zenon DEF Se!BytesUnconfigured, Se!TypeOK
  <2> QED
    BY <1>0, <1>t, <1>10, <2>1, <2>2 DEF Se!BytesUnconfigured, Se!TypeOK, Se!stream, Se!brk
<1>11. CASE Se!BytesReturn
  <2>1. PICK k \in 0..se_len : Placed(k)
    BY <1>11 DEF SerialInv, PlacedInOrder, Se!BytesReturn
  <2>2. Se!Delivered \in Seq(Se!Byte)
    BY <1>t, <2>1, DeliveredBytes DEF Placed
  <2>3. se_taken' \in Seq(Se!Byte)
    BY <1>t, <1>11, <2>2, ConcatProperties DEF Se!BytesReturn, Se!TypeOK
  <2> QED
    BY <1>0, <1>t, <1>11, <2>3 DEF Se!BytesReturn, Se!TypeOK, Se!stream, Se!bytes, Se!brk
<1>12. CASE Se!ReadBreak \/ Se!BreakRead \/ Se!BreakClear
  <2>1. se_masked' \in BOOLEAN
    BY <1>12, <1>t, Zenon DEF Se!ReadBreak, Se!BreakRead, Se!BreakClear, Se!TypeOK
  <2>2. CASE Se!ReadBreak
    BY <1>0, <1>t, <2>1, <2>2 DEF Se!ReadBreak, Se!TypeOK, Se!stream, Se!bytes
  <2>3. CASE Se!BreakRead
    BY <1>0, <1>t, <2>1, <2>3 DEF Se!BreakRead, Se!TypeOK, Se!stream, Se!bytes
  <2>4. CASE Se!BreakClear
    BY <1>0, <1>t, <2>1, <2>4 DEF Se!BreakClear, Se!TypeOK, Se!stream, Se!bytes, Se!None
  <2> QED
    BY <1>12, <2>2, <2>3, <2>4
<1>13. CASE UNCHANGED Se!vars
  BY <1>t, <1>13 DEF Se!vars, Se!stream, Se!bytes, Se!brk, Se!TypeOK
<1> QED
  BY <1>1, <1>2, <1>3, <1>4, <1>5, <1>6, <1>7, <1>8, <1>9, <1>10, <1>11, <1>12, <1>13
     DEF Se!Next, Se!Host, Se!InCall

\* The interrupts are masked from the read of the request to its reset.
LEMMA BreakStep ==
  ASSUME SerialInv, [Se!Next]_Se!vars
  PROVE  BreakMasked'
<1>t. Se!TypeOK /\ BreakMasked /\ MaxBreaks \in Nat
  BY DeviceAssumption DEF SerialInv, Se!SerialAssumption
<1>1. CASE Se!SendBreak
  <2>1. /\ ~se_masked /\ se_breaks' = se_breaks + 1 /\ se_breakValue' = se_breaks + 1
        /\ UNCHANGED <<se_pc, se_masked, se_ret, se_returned>>
    BY <1>1 DEF Se!SendBreak
  <2>2. se_pc \notin {"break", "clear"}
    BY <1>t, <2>1, Zenon DEF BreakMasked
  <2>3. (se_masked <=> se_pc \in {"break", "clear"})'
    BY <1>t, <2>1, Zenon DEF BreakMasked
  <2>4. se_breaks \in Nat /\ se_returned \in Nat /\ se_returned <= se_breaks
    BY <1>t DEF Se!TypeOK, BreakMasked, Se!None
  <2> QED
    BY <2>1, <2>2, <2>3, <2>4 DEF BreakMasked, Se!None
<1>2. CASE Se!ReadBreak
  <2>1. (se_masked <=> se_pc \in {"break", "clear"})'
    BY <1>2, Zenon DEF Se!ReadBreak
  <2> QED
    BY <1>t, <1>2, <2>1 DEF Se!ReadBreak, BreakMasked
<1>3. CASE Se!BreakRead
  <2>1. (se_masked <=> se_pc \in {"break", "clear"})'
    BY <1>t, <1>3, Zenon DEF Se!BreakRead, BreakMasked
  <2> QED
    BY <1>t, <1>3, <2>1 DEF Se!BreakRead, BreakMasked
<1>4. CASE Se!BreakClear
  <2>1. se_pc' = "app" /\ se_masked' = FALSE
    BY <1>4 DEF Se!BreakClear
  <2>2. (se_masked <=> se_pc \in {"break", "clear"})'
    <3>1. se_pc' \notin {"break", "clear"}
      BY <2>1
    <3> QED
      BY <2>1, <3>1, Zenon
  <2> QED
    BY <1>t, <1>4, <2>1, <2>2 DEF Se!BreakClear, BreakMasked
<1>5. ASSUME UNCHANGED Se!brk, se_pc' = se_pc \/ {se_pc, se_pc'} \subseteq {"app", "bytes"}
      PROVE  BreakMasked'
  <2>1. se_pc' \in {"break", "clear"} <=> se_pc \in {"break", "clear"}
    BY <1>5
  <2>2. se_masked' <=> se_masked
    BY <1>5, Zenon DEF Se!brk
  <2>3. (se_masked <=> se_pc \in {"break", "clear"})'
    BY <1>t, <2>1, <2>2, Zenon DEF BreakMasked
  <2> QED
    BY <1>t, <1>5, <2>3 DEF BreakMasked, Se!brk
<1>6. ASSUME ~Se!SendBreak, ~Se!ReadBreak, ~Se!BreakRead, ~Se!BreakClear
      PROVE  UNCHANGED Se!brk /\ (se_pc' = se_pc \/ {se_pc, se_pc'} \subseteq {"app", "bytes"})
  <2>1. CASE Se!HostSends
    BY <2>1 DEF Se!HostSends
  <2>2. CASE Se!BusReset
    BY <2>2 DEF Se!BusReset
  <2>3. CASE Se!Configure
    BY <2>3 DEF Se!Configure
  <2>4. CASE Se!Read
    BY <2>4 DEF Se!Read
  <2>5. CASE Se!Peek
    BY <2>5 DEF Se!Peek
  <2>6. CASE Se!CallReadBytes
    BY <2>6 DEF Se!CallReadBytes, Se!ReadBytes
  <2>7. CASE Se!Expire
    BY <2>7 DEF Se!Expire
  <2>8. CASE Se!BytesReceived
    BY <2>8 DEF Se!BytesReceived
  <2>9. CASE Se!BytesUnconfigured
    BY <2>9 DEF Se!BytesUnconfigured
  <2>10. CASE Se!BytesReturn
    BY <2>10 DEF Se!BytesReturn
  <2>11. CASE UNCHANGED Se!vars
    BY <2>11 DEF Se!vars
  <2> QED
    BY <1>6, <2>1, <2>2, <2>3, <2>4, <2>5, <2>6, <2>7, <2>8, <2>9, <2>10, <2>11
       DEF Se!Next, Se!Host, Se!InCall
<1> QED
  BY <1>1, <1>2, <1>3, <1>4, <1>5, <1>6

\* Bytes of the stream: what recv() of one byte answers.
LEMMA OneByte ==
  ASSUME Se!TypeOK, NEW c, Se!RecvByte(c)
  PROVE  \/ c = Se!None /\ UNCHANGED Se!stream
         \/ /\ c = se_got + 1 /\ c # Se!None /\ se_got' = c /\ c \in Se!Byte
            /\ UNCHANGED <<se_configured, se_sent, se_resets, se_dropped>>
<1>1. /\ MaxSent \in Nat /\ se_sent \in 0..MaxSent /\ se_got \in 0..se_sent
  BY DeviceAssumption DEF Se!SerialAssumption, Se!TypeOK
<1>2. CASE c = se_got + 1 /\ Se!Recv(1, 1)
  BY <1>1, <1>2 DEF Se!Recv, Se!Byte, Se!None
<1> QED
  BY <1>2 DEF Se!RecvByte

\* The rest of the invariant, which only the stream, the calls that read and the caller's
\* buffer concern.
LEMMA BytesStep ==
  ASSUME SerialInv, [Se!Next]_Se!vars
  PROVE  ReturnedOnce' /\ PlacedInOrder' /\ Se!NothingSkipped'
<1>t. /\ Se!TypeOK /\ ReturnedOnce /\ PlacedInOrder /\ Se!NothingSkipped
  BY DEF SerialInv
<1>0. /\ MaxSent \in Nat /\ MaxRead \in Nat /\ Word \in Nat /\ Word > MaxRead + 1
      /\ se_sent \in 0..MaxSent /\ se_got \in 0..se_sent /\ se_got \in Nat
      /\ se_peeked \in Nat /\ se_taken \in Seq(Se!Byte) /\ Len(se_taken) \in Nat
      /\ se_len \in 0..MaxRead /\ se_count \in 0..Word-1
      /\ \A i \in 1..Len(se_taken) : se_taken[i] \in Nat \ {0}
      /\ \A i \in 0..MaxRead-1 : se_buffer[i] \in Nat
  <2>1. /\ MaxSent \in Nat /\ MaxRead \in Nat /\ Word \in Nat /\ Word > MaxRead + 1
    BY DeviceAssumption DEF Se!SerialAssumption
  <2>2. /\ se_sent \in 0..MaxSent /\ se_got \in 0..se_sent /\ se_taken \in Seq(Se!Byte)
        /\ se_len \in 0..MaxRead /\ se_count \in 0..Word-1
        /\ se_peeked \in Se!Byte \cup {Se!None}
        /\ se_buffer \in [0..MaxRead-1 -> Se!Byte \cup {Se!None}]
    BY <1>t DEF Se!TypeOK
  <2>3. /\ \A x \in Se!Byte : x \in Nat \ {0}
        /\ \A x \in Se!Byte \cup {Se!None} : x \in Nat
    BY <2>1 DEF Se!Byte, Se!None
  <2>4. Len(se_taken) \in Nat /\ \A i \in 1..Len(se_taken) : se_taken[i] \in Se!Byte
    BY <2>2
  <2>5. \A i \in 0..MaxRead-1 : se_buffer[i] \in Nat
    <3>1. \A i \in 0..MaxRead-1 : se_buffer[i] \in Se!Byte \cup {Se!None}
      BY <2>2
    <3> QED
      BY <3>1, <2>3
  <2>6. se_peeked \in Nat /\ se_got \in Nat
    BY <2>1, <2>2, <2>3
  <2>7. \A i \in 1..Len(se_taken) : se_taken[i] \in Nat \ {0}
    BY <2>4, <2>3
  <2> QED
    BY <2>1, <2>2, <2>4, <2>5, <2>6, <2>7
<1> DEFINE Goal == ReturnedOnce' /\ PlacedInOrder' /\ Se!NothingSkipped'
           Returned == {se_taken[i] : i \in 1..Len(se_taken)}
<1>1. ASSUME UNCHANGED <<se_got, se_dropped, se_peeked, se_len, se_count, se_buffer,
                         se_disturbed, se_taken>>,
             se_pc' = se_pc \/ "bytes" \notin {se_pc, se_pc'}
      PROVE  Goal
  <2>1. ReturnedOnce'
    BY <1>1, <1>t DEF ReturnedOnce
  <2>2. PlacedInOrder'
    BY <1>1, <1>t DEF PlacedInOrder, Placed
  <2>3. Se!NothingSkipped'
    BY <1>1, <1>t DEF Se!NothingSkipped, Se!InBuffer
  <2> QED
    BY <2>1, <2>2, <2>3
<1>2. ASSUME Se!HostSends \/ Se!BusReset \/ Se!SendBreak \/ Se!ReadBreak \/ Se!BreakRead
                 \/ Se!BreakClear \/ Se!Expire
             \/ UNCHANGED Se!vars
      PROVE  Goal
  <2>1. /\ UNCHANGED <<se_got, se_dropped, se_peeked, se_len, se_count, se_buffer, se_disturbed,
                       se_taken>>
        /\ se_pc' = se_pc \/ "bytes" \notin {se_pc, se_pc'}
    BY <1>2 DEF Se!HostSends, Se!BusReset, Se!SendBreak, Se!ReadBreak, Se!BreakRead,
                Se!BreakClear, Se!Expire,
                Se!vars, Se!stream, Se!bytes, Se!brk
  <2> QED
    BY <2>1, <1>1
<1>3. ASSUME Se!Configure PROVE Goal
  <2>1. /\ se_dropped' = se_dropped \cup (se_got+1 .. se_sent) /\ se_got' = se_sent
        /\ UNCHANGED <<se_peeked, se_pc, se_len, se_count, se_buffer, se_disturbed, se_taken>>
    BY <1>3 DEF Se!Configure, Se!bytes
  <2>2. ReturnedOnce'
    BY <2>1, <1>t, <1>0 DEF ReturnedOnce
  <2>3. PlacedInOrder'
    <3> SUFFICES ASSUME se_pc = "bytes" PROVE \E k \in 0..se_len : Placed(k)'
      BY <2>1 DEF PlacedInOrder
    <3>1. PICK k \in 0..se_len : Placed(k)
      BY <1>t DEF PlacedInOrder
    <3>2. Placed(k)'
      BY <2>1, <3>1, <1>0 DEF Placed
    <3> QED
      BY <3>2
  <2>4. Se!NothingSkipped'
    <3>1. 1..se_sent = 1..se_got \cup (se_got+1 .. se_sent)
      BY <1>0
    <3> QED
      BY <2>1, <3>1, <1>t DEF Se!NothingSkipped, Se!InBuffer
  <2> QED
    BY <2>2, <2>3, <2>4
<1>4. ASSUME Se!Read PROVE Goal
  <2>1. PICK c \in Se!Byte \cup {Se!None} :
          /\ IF se_peeked # Se!None THEN c = se_peeked /\ UNCHANGED Se!stream ELSE Se!RecvByte(c)
          /\ se_taken' = IF c = Se!None THEN se_taken ELSE Append(se_taken, c)
    BY <1>4 DEF Se!Read
  <2>2. /\ se_pc = "app" /\ se_pc' = "app" /\ se_peeked' = Se!None
        /\ UNCHANGED <<se_buffer, se_disturbed>>
    BY <1>4 DEF Se!Read, Se!bytes
  <2>3. PlacedInOrder'
    BY <2>2 DEF PlacedInOrder
  <2>4. CASE c = Se!None
    <3>1. UNCHANGED <<se_got, se_dropped, se_peeked, se_taken>>
      BY <2>1, <2>2, <2>4, <1>t, OneByte DEF Se!stream, Se!None
    <3> QED
      BY <2>2, <2>3, <3>1, <1>t DEF ReturnedOnce, Se!NothingSkipped, Se!InBuffer
  <2>5. CASE c # Se!None
    <3>1. /\ se_taken' = Append(se_taken, c) /\ c \in Se!Byte /\ se_dropped' = se_dropped
          /\ \/ se_peeked = c /\ se_got' = se_got
             \/ se_peeked = Se!None /\ c = se_got + 1 /\ se_got' = se_got + 1
      BY <2>1, <2>5, <1>t, OneByte DEF Se!stream
    <3>2. /\ Len(se_taken') = Len(se_taken) + 1 /\ se_taken'[Len(se_taken) + 1] = c
          /\ \A i \in 1..Len(se_taken) : se_taken'[i] = se_taken[i]
      BY <1>0, <3>1, AppendProperties
    <3>3. c \in Nat \ {0} /\ c <= se_got' /\ se_got' \in Nat /\ se_got <= se_got'
      BY <3>1, <1>0, <1>t DEF Se!Byte, ReturnedOnce
    <3>4. \A i \in 1..Len(se_taken) : se_taken[i] # c
      BY <3>1, <1>0, <1>t DEF ReturnedOnce
    <3>5. ReturnedOnce'
      BY <3>2, <3>3, <3>4, <2>2, <1>0, <1>t DEF ReturnedOnce, Se!None
    <3>6. {se_taken'[i] : i \in 1..Len(se_taken')} = Returned \cup {c}
      <4>1. \A i \in 1..Len(se_taken') : i \in 1..Len(se_taken) \/ i = Len(se_taken) + 1
        BY <3>2, <1>0
      <4>2. 1..Len(se_taken) \subseteq 1..Len(se_taken') /\ Len(se_taken) + 1 \in 1..Len(se_taken')
        BY <3>2, <1>0
      <4>3. ASSUME NEW b \in {se_taken'[i] : i \in 1..Len(se_taken')}
            PROVE  b \in Returned \cup {c}
        BY <3>2, <4>1
      <4>4. ASSUME NEW b \in Returned \cup {c}
            PROVE  b \in {se_taken'[i] : i \in 1..Len(se_taken')}
        BY <3>2, <4>2
      <4> QED
        BY <4>3, <4>4
    <3>7. Se!NothingSkipped'
      <4> SUFFICES ASSUME ~se_disturbed
                   PROVE  1..se_got' = {se_taken'[i] : i \in 1..Len(se_taken')} \cup se_dropped
        BY <2>2, <3>1 DEF Se!NothingSkipped, Se!InBuffer
      <4>1. 1..se_got = Returned \cup ({se_peeked} \ {Se!None}) \cup se_dropped
        BY <2>2, <1>t DEF Se!NothingSkipped, Se!InBuffer
      <4>2. CASE se_peeked = c /\ se_got' = se_got
        BY <4>1, <4>2, <3>6, <2>5
      <4>3. CASE se_peeked = Se!None /\ c = se_got + 1 /\ se_got' = se_got + 1
        <5>1. 1..se_got' = 1..se_got \cup {c}
          BY <4>3, <1>0
        <5> QED
          BY <4>1, <4>3, <5>1, <3>6
      <4> QED
        BY <3>1, <4>2, <4>3
    <3> QED
      BY <3>5, <3>7, <2>3
  <2> QED
    BY <2>4, <2>5
<1>5. ASSUME Se!Peek PROVE Goal
  <2>1. /\ se_pc = "app" /\ se_pc' = "app" /\ UNCHANGED <<se_buffer, se_disturbed, se_taken>>
        /\ \/ UNCHANGED <<se_peeked, se_got, se_dropped>>
           \/ /\ se_peeked = Se!None /\ se_peeked' = se_got + 1 /\ se_got' = se_got + 1
              /\ se_dropped' = se_dropped
    BY <1>5, <1>t, OneByte DEF Se!Peek, Se!bytes, Se!stream
  <2>2. PlacedInOrder'
    BY <2>1 DEF PlacedInOrder
  <2>3. ReturnedOnce'
    BY <2>1, <1>0, <1>t DEF ReturnedOnce
  <2>4. Se!NothingSkipped'
    <3>1. CASE UNCHANGED <<se_peeked, se_got, se_dropped>>
      BY <2>1, <3>1, <1>t DEF Se!NothingSkipped, Se!InBuffer
    <3>2. CASE se_peeked = Se!None /\ se_peeked' = se_got + 1 /\ se_got' = se_got + 1
                   /\ se_dropped' = se_dropped
      <4>1. 1..se_got' = 1..se_got \cup {se_peeked'} /\ se_peeked' # Se!None
        BY <3>2, <1>0 DEF Se!None
      <4> QED
        BY <2>1, <3>2, <4>1, <1>t DEF Se!NothingSkipped, Se!InBuffer
    <3> QED
      BY <2>1, <3>1, <3>2
  <2> QED
    BY <2>2, <2>3, <2>4
<1>6. ASSUME Se!CallReadBytes PROVE Goal
  <2>1. /\ se_pc = "app" /\ se_pc' = "bytes" /\ se_count' = 0 /\ se_len' \in 1..MaxRead
        /\ se_buffer' = [i \in 0..MaxRead-1 |-> Se!None]
        /\ UNCHANGED <<se_got, se_dropped, se_peeked, se_disturbed, se_taken>>
    BY <1>6 DEF Se!CallReadBytes, Se!ReadBytes, Se!stream
  <2>2. ReturnedOnce'
    BY <2>1, <1>t DEF ReturnedOnce
  <2>3. Placed(0)'
    BY <2>1, <1>0 DEF Placed, Se!None
  <2>4. PlacedInOrder'
    BY <2>1, <2>3, <1>0 DEF PlacedInOrder
  <2>5. Se!NothingSkipped'
    BY <2>1, <1>t DEF Se!NothingSkipped, Se!InBuffer
  <2> QED
    BY <2>2, <2>4, <2>5
<1>7. ASSUME Se!BytesUnconfigured PROVE Goal
  <2>0. se_count' = IF se_count = 0 THEN Word - 1 ELSE se_count - 1
    BY <1>7, <1>0, CountBack DEF Se!BytesUnconfigured
  <2>1. /\ se_pc = "bytes" /\ se_pc' = "bytes" /\ se_count < se_len
        /\ se_disturbed' <=> (se_disturbed \/ se_count > 0)
        /\ UNCHANGED <<se_got, se_dropped, se_peeked, se_buffer, se_taken, se_len>>
    BY <1>7 DEF Se!BytesUnconfigured, Se!stream
  <2>2. ReturnedOnce'
    BY <2>1, <1>t DEF ReturnedOnce
  <2>3. PICK k \in 0..se_len : Placed(k)
    BY <2>1, <1>t DEF PlacedInOrder
  <2>4. Placed(k)'
    BY <2>0, <2>1, <2>3, <1>0 DEF Placed
  <2>5. PlacedInOrder'
    BY <2>1, <2>4 DEF PlacedInOrder
  <2>6. Se!NothingSkipped'
    BY <2>1, <1>t DEF Se!NothingSkipped, Se!InBuffer
  <2> QED
    BY <2>2, <2>5, <2>6
<1>8. ASSUME Se!BytesReceived PROVE Goal
  <2>1. PICK n \in 1..MaxRead :
          /\ Se!Recv(se_len - se_count, n)
          /\ se_buffer' = [i \in 0..MaxRead-1 |->
                          IF i \in se_count..(se_count + n - 1) THEN se_got + 1 + (i - se_count)
                                                          ELSE se_buffer[i]]
          /\ se_count' = se_count + n
    BY <1>8 DEF Se!BytesReceived
  <2>2. /\ se_got' = se_got + n /\ n <= se_len - se_count /\ se_dropped' = se_dropped
        /\ se_count < se_len
        /\ se_pc = "bytes" /\ se_pc' = "bytes" /\ UNCHANGED <<se_peeked, se_len, se_disturbed,
                                                              se_taken>>
    BY <1>8, <2>1 DEF Se!Recv, Se!BytesReceived
  <2>3. PICK k \in 0..se_len : Placed(k)
    BY <2>2, <1>t DEF PlacedInOrder
  <2>r. PICK r \in 0..se_len : r = IF se_count + n < k THEN k ELSE se_count + n
    BY <1>0, <2>2
  <2>4. /\ n \in Nat /\ se_count \in Nat /\ k \in Nat /\ r \in 0..se_len /\ se_count <= k
        /\ se_count + n <= r /\ k <= r /\ (r = k \/ r = se_count + n)
    BY <1>0, <2>2, <2>3, <2>r DEF Placed
  <2>5. /\ \A i \in 0..MaxRead-1 : i < se_count => se_buffer'[i] = se_buffer[i]
        /\ \A i \in 0..MaxRead-1 : i >= se_count + n => se_buffer'[i] = se_buffer[i]
        /\ \A i \in 0..MaxRead-1 : se_count <= i /\ i < se_count + n
               => se_buffer'[i] = se_got + 1 + (i - se_count)
    BY <2>1, <2>4, <1>0
  <2>6. ReturnedOnce'
    BY <2>2, <1>t, <1>0 DEF ReturnedOnce
  <2>7. Placed(r)'
    <3>1. \A i \in 0..MaxRead-1 : se_buffer'[i] # Se!None <=> i < r
      BY <2>3, <2>4, <2>5, <1>0 DEF Placed, Se!None
    <3>i. \A i \in 0..r-1 : i \in 0..MaxRead-1
      BY <2>4, <1>0
    <3>j. \A i \in 0..r-1 : \/ i \in 0..k-1 /\ (i < se_count \/ i >= se_count + n)
                            \/ se_count <= i /\ i < se_count + n
      BY <2>4
    <3>2. \A i \in 0..r-1 : se_buffer'[i] <= se_got' /\ se_buffer'[i] # se_peeked
      <4> SUFFICES ASSUME NEW i \in 0..r-1
                   PROVE  se_buffer'[i] <= se_got' /\ se_buffer'[i] # se_peeked
        OBVIOUS
      <4>1. CASE i \in 0..k-1 /\ (i < se_count \/ i >= se_count + n)
        <5>1. se_buffer'[i] = se_buffer[i] /\ se_buffer[i] \in Nat
          BY <4>1, <3>i, <2>5, <1>0
        <5> QED
          BY <4>1, <5>1, <2>2, <2>3, <2>4, <1>0 DEF Placed
      <4>2. CASE se_count <= i /\ i < se_count + n
        <5>1. se_buffer'[i] = se_got + 1 + (i - se_count)
          BY <4>2, <3>i, <2>5
        <5> QED
          BY <4>2, <5>1, <2>2, <2>4, <1>0, <1>t DEF ReturnedOnce
      <4> QED
        BY <3>j, <4>1, <4>2
    <3>3. \A i \in 0..r-1, j \in 1..Len(se_taken) : se_taken[j] < se_buffer'[i]
      BY <3>i, <3>j, <2>2, <2>3, <2>4, <2>5, <1>0, <1>t DEF Placed, ReturnedOnce
    <3>4. \A i, j \in 0..r-1 : i # j => se_buffer'[i] # se_buffer'[j]
      BY <3>i, <3>j, <2>2, <2>3, <2>4, <2>5, <1>0 DEF Placed
    <3>5. ~se_disturbed => /\ se_count = k /\ r = se_count + n
                        /\ \A i, j \in 0..r-1 : i < j => se_buffer'[i] < se_buffer'[j]
      <4> SUFFICES ASSUME ~se_disturbed
                   PROVE  /\ se_count = k /\ r = se_count + n
                          /\ \A i, j \in 0..r-1 : i < j => se_buffer'[i] < se_buffer'[j]
        OBVIOUS
      <4>1. se_count = k /\ r = se_count + n
        BY <2>2, <2>3, <2>4, <1>0 DEF Placed
      <4>2. \A i, j \in 0..k-1 : i < j => se_buffer[i] < se_buffer[j]
        BY <2>3 DEF Placed
      <4>3. \A i \in 0..k-1 : se_buffer[i] <= se_got
        BY <2>3 DEF Placed
      <4> QED
        BY <3>i, <2>4, <2>5, <1>0, <4>1, <4>2, <4>3
    <3> QED
      BY <3>1, <3>2, <3>3, <3>4, <3>5, <2>1, <2>2, <2>4 DEF Placed
  <2>8. PlacedInOrder'
    <3>1. r \in 0..se_len'
      BY <2>2, <2>4
    <3> QED
      BY <3>1, <2>7, Zenon DEF PlacedInOrder
  <2>9. Se!NothingSkipped'
    <3> SUFFICES ASSUME ~se_disturbed
                 PROVE  1..se_got' = Returned \cup ({se_peeked} \ {Se!None})
                                  \cup ({se_buffer'[i] : i \in 0..MaxRead-1} \ {Se!None})
                                      \cup se_dropped
      BY <2>2 DEF Se!NothingSkipped, Se!InBuffer
    <3>1. se_count = k
      BY <2>2, <2>3, <2>4, <1>0 DEF Placed
    <3>2. {se_buffer'[i] : i \in 0..MaxRead-1} \ {Se!None}
          = ({se_buffer[i] : i \in 0..MaxRead-1} \ {Se!None}) \cup (se_got+1 .. se_got+n)
      <4>1. ASSUME NEW b \in {se_buffer'[i] : i \in 0..MaxRead-1} \ {Se!None}

            PROVE  b \in ({se_buffer[i] : i \in 0..MaxRead-1} \ {Se!None})
                         \cup (se_got+1 .. se_got+n)
        <5>1. PICK i \in 0..MaxRead-1 : b = se_buffer'[i]
          BY <4>1
        <5>2. CASE i < se_count \/ i >= se_count + n
          <6>1. se_buffer'[i] = se_buffer[i]
            BY <5>2, <2>5
          <6> QED
            BY <4>1, <5>1, <6>1
        <5>3. CASE se_count <= i /\ i < se_count + n
          <6>1. b = se_got + 1 + (i - se_count)
            BY <5>1, <5>3, <2>5
          <6>2. b \in se_got+1 .. se_got+n
            BY <5>3, <6>1, <2>4, <1>0
          <6> QED
            BY <6>2
        <5> QED
          BY <5>2, <5>3, <2>4
      <4>2. ASSUME NEW b \in {se_buffer[i] : i \in 0..MaxRead-1} \ {Se!None}
            PROVE  b \in {se_buffer'[i] : i \in 0..MaxRead-1} \ {Se!None}
        <5>1. PICK i \in 0..MaxRead-1 : b = se_buffer[i]
          BY <4>2
        <5>2. i < k
          BY <4>2, <5>1, <2>3 DEF Placed
        <5> QED
          BY <3>1, <4>2, <5>1, <5>2, <2>5
      <4>3. ASSUME NEW b \in se_got+1 .. se_got+n
            PROVE  b \in {se_buffer'[i] : i \in 0..MaxRead-1} \ {Se!None}
        <5>1. /\ se_count + (b - se_got - 1) \in 0..MaxRead-1
              /\ se_buffer'[se_count + (b - se_got - 1)] = b /\ b # Se!None
          BY <2>2, <2>4, <2>5, <1>0, <4>3 DEF Se!None
        <5> QED
          BY <5>1
      <4> QED
        BY <4>1, <4>2, <4>3
    <3>3. 1..se_got' = 1..se_got \cup (se_got+1 .. se_got+n)
      BY <2>2, <2>4, <1>0
    <3>4. 1..se_got = Returned \cup ({se_peeked} \ {Se!None})
                   \cup ({se_buffer[i] : i \in 0..MaxRead-1} \ {Se!None}) \cup se_dropped
      BY <2>2, <1>t DEF Se!NothingSkipped, Se!InBuffer
    <3> HIDE DEF Returned
    <3> QED
      BY <3>2, <3>3, <3>4
  <2> QED
    BY <2>6, <2>8, <2>9
<1>9. ASSUME Se!BytesReturn PROVE Goal
  <2>1. /\ se_pc = "bytes" /\ se_pc' = "app" /\ se_taken' = se_taken \o Se!Delivered
        /\ UNCHANGED <<se_got, se_peeked, se_dropped, se_disturbed>>
        /\ se_count >= se_len \/ se_expired
    BY <1>9 DEF Se!BytesReturn, Se!stream, Se!bytes
  <2>2. PICK k \in 0..se_len : Placed(k)
    BY <2>1, <1>t DEF PlacedInOrder
  <2> DEFINE m == IF se_count < k THEN se_count ELSE k
  <2>3. /\ m \in 0..k /\ Se!Delivered \in Seq(Se!Byte) /\ Len(Se!Delivered) = m
        /\ \A i \in 1..m : Se!Delivered[i] = se_buffer[i-1] /\ i-1 \in 0..k-1
    BY <1>t, <2>2, DeliveredBytes DEF Placed
  <2>m. ~se_disturbed => m = k
    BY <2>2, <1>0 DEF Placed
  <2> HIDE DEF m
  <2>4. /\ Len(se_taken') = Len(se_taken) + m
        /\ \A i \in 1..Len(se_taken) : se_taken'[i] = se_taken[i]
        /\ \A i \in 1..m : se_taken'[Len(se_taken) + i] = Se!Delivered[i]
    <3>1. /\ Len(se_taken \o Se!Delivered) = Len(se_taken) + Len(Se!Delivered)
          /\ \A i \in 1 .. Len(se_taken) + Len(Se!Delivered) :
               (se_taken \o Se!Delivered)[i] = IF i <= Len(se_taken) THEN se_taken[i]
                                         ELSE Se!Delivered[i - Len(se_taken)]
      <4>1. se_taken \in Seq(Se!Byte) /\ Se!Delivered \in Seq(Se!Byte)
        BY <1>0, <2>3
      <4> QED
        BY <4>1, ConcatProperties
    <3>2. m \in Nat
      BY <2>3
    <3>3. /\ Len(se_taken') = Len(se_taken) + m
          /\ \A i \in 1 .. Len(se_taken) + m :
               se_taken'[i] = IF i <= Len(se_taken) THEN se_taken[i]
                   ELSE Se!Delivered[i - Len(se_taken)]
      BY <2>1, <2>3, <3>1
    <3>4. \A i \in 1..m : Len(se_taken) + i \in 1 .. Len(se_taken) + m
              /\ ~(Len(se_taken) + i <= Len(se_taken))
                          /\ Len(se_taken) + i - Len(se_taken) = i
      BY <3>2, <1>0
    <3> QED
      BY <3>2, <3>3, <3>4, <1>0
  <2>5. \A i \in 1..Len(se_taken') :
          \/ i \in 1..Len(se_taken) /\ se_taken'[i] = se_taken[i]
          \/ i - Len(se_taken) - 1 \in 0..k-1 /\ se_taken'[i] = se_buffer[i - Len(se_taken) - 1]
    <3> SUFFICES ASSUME NEW i \in 1..Len(se_taken'), i \notin 1..Len(se_taken)
                 PROVE  /\ i - Len(se_taken) - 1 \in 0..k-1
                        /\ se_taken'[i] = se_buffer[i - Len(se_taken) - 1]
      BY <2>4
    <3> DEFINE q == i - Len(se_taken)
    <3>1. q \in 1..m /\ i = Len(se_taken) + q
      BY <2>3, <2>4, <1>0
    <3> HIDE DEF q
    <3>2. se_taken'[i] = se_buffer[q - 1] /\ q - 1 \in 0..k-1
      BY <3>1, <2>3, <2>4
    <3> QED
      BY <3>2 DEF q
  <2>6. \A i \in 1..Len(se_taken') : se_taken'[i] <= se_got /\ se_taken'[i] # se_peeked
    <3> SUFFICES ASSUME NEW i \in 1..Len(se_taken')
                 PROVE  se_taken'[i] <= se_got /\ se_taken'[i] # se_peeked
      OBVIOUS
    <3>1. CASE i \in 1..Len(se_taken) /\ se_taken'[i] = se_taken[i]
      BY <3>1, <1>t DEF ReturnedOnce
    <3>2. CASE i - Len(se_taken) - 1 \in 0..k-1 /\ se_taken'[i] = se_buffer[i - Len(se_taken) - 1]
      BY <3>2, <2>2 DEF Placed
    <3> QED
      BY <2>5, <3>1, <3>2
  <2>7. \A i, j \in 1..Len(se_taken') : i # j => se_taken'[i] # se_taken'[j]
    <3> SUFFICES ASSUME NEW i \in 1..Len(se_taken'), NEW j \in 1..Len(se_taken'), i < j
                 PROVE  se_taken'[i] # se_taken'[j]
      BY <1>0, <2>4
    <3>1. CASE j \in 1..Len(se_taken)
      BY <3>1, <2>4, <1>0, <1>t DEF ReturnedOnce
    <3>2. CASE j \notin 1..Len(se_taken)
      <4>1. j - Len(se_taken) - 1 \in 0..k-1 /\ se_taken'[j] = se_buffer[j - Len(se_taken) - 1]
        BY <3>2, <2>5
      <4>2. CASE i \in 1..Len(se_taken)
        <5>1. se_taken[i] < se_buffer[j - Len(se_taken) - 1]
          BY <4>1, <4>2, <2>2 DEF Placed
        <5> QED
          BY <4>1, <4>2, <5>1, <2>4, <1>0
      <4>3. CASE i \notin 1..Len(se_taken)
        <5>1. i - Len(se_taken) - 1 \in 0..k-1 /\ se_taken'[i] = se_buffer[i - Len(se_taken) - 1]
          BY <4>3, <2>5
        <5>2. i - Len(se_taken) - 1 # j - Len(se_taken) - 1
          BY <1>0, <2>4
        <5> QED
          BY <4>1, <5>1, <5>2, <2>2 DEF Placed
      <4> QED
        BY <4>2, <4>3
    <3> QED
      BY <3>1, <3>2
  <2>8. ReturnedOnce'
    BY <2>1, <2>6, <2>7, <1>t DEF ReturnedOnce
  <2>9. PlacedInOrder'
    BY <2>1 DEF PlacedInOrder
  <2>10. Se!NothingSkipped'
    <3> SUFFICES ASSUME ~se_disturbed

                 PROVE  1..se_got = {se_taken'[i] : i \in 1..Len(se_taken')}
                                    \cup ({se_peeked} \ {Se!None}) \cup se_dropped
      BY <2>1 DEF Se!NothingSkipped, Se!InBuffer
    <3>1. {se_taken'[i] : i \in 1..Len(se_taken')}
          = Returned \cup ({se_buffer[i] : i \in 0..MaxRead-1} \ {Se!None})
      <4>1. ASSUME NEW b \in {se_taken'[i] : i \in 1..Len(se_taken')}
            PROVE  b \in Returned \cup ({se_buffer[i] : i \in 0..MaxRead-1} \ {Se!None})
        <5>1. PICK i \in 1..Len(se_taken') : b = se_taken'[i]
          BY <4>1
        <5>2. CASE i \in 1..Len(se_taken)
          BY <5>1, <5>2, <2>4
        <5>3. CASE i \notin 1..Len(se_taken)
          <6>1. i - Len(se_taken) - 1 \in 0..k-1 /\ b = se_buffer[i - Len(se_taken) - 1]
            BY <5>1, <5>3, <2>5
          <6>2. i - Len(se_taken) - 1 \in 0..MaxRead-1 /\ i - Len(se_taken) - 1 < k
            BY <6>1, <1>0
          <6> QED
            BY <6>1, <6>2, <2>2 DEF Placed
        <5> QED
          BY <5>2, <5>3
      <4>2. ASSUME NEW i \in 1..Len(se_taken)
            PROVE  se_taken[i] \in {se_taken'[x] : x \in 1..Len(se_taken')}
        <5>1. i \in 1..Len(se_taken') /\ se_taken'[i] = se_taken[i]
          BY <2>3, <2>4, <1>0
        <5> QED
          BY <5>1
      <4>3. ASSUME NEW b \in {se_buffer[i] : i \in 0..MaxRead-1} \ {Se!None}
            PROVE  b \in {se_taken'[x] : x \in 1..Len(se_taken')}
        <5>1. PICK i \in 0..MaxRead-1 : b = se_buffer[i]
          BY <4>3
        <5>2. i < k
          BY <4>3, <5>1, <2>2 DEF Placed
        <5>3. i + 1 \in 1..m /\ (i + 1) - 1 = i
          BY <5>2, <2>m, <2>3
        <5>4. Se!Delivered[i + 1] = b
          BY <5>1, <5>3, <2>3
        <5>5. Len(se_taken) + (i + 1) \in 1..Len(se_taken')
                  /\ se_taken'[Len(se_taken) + (i + 1)] = b
          BY <5>3, <5>4, <2>3, <2>4, <1>0
        <5> QED
          BY <5>5
      <4> QED
        BY <4>1, <4>2, <4>3
    <3>2. 1..se_got = Returned \cup ({se_peeked} \ {Se!None})
                   \cup ({se_buffer[i] : i \in 0..MaxRead-1} \ {Se!None}) \cup se_dropped
      BY <2>1, <1>t DEF Se!NothingSkipped, Se!InBuffer
    <3> HIDE DEF Returned
    <3> QED
      BY <3>1, <3>2
  <2> QED
    BY <2>8, <2>9, <2>10
<1> QED
  BY <1>2, <1>3, <1>4, <1>5, <1>6, <1>7, <1>8, <1>9 DEF Se!Next, Se!Host, Se!InCall

\* The invariant of the serial port is inductive.
LEMMA SerialStep == SerialInv /\ [Se!Next]_Se!vars => SerialInv'
BY SerialTypes, BreakStep, BytesStep DEF SerialInv

\* A step makes what was returned longer only by reading.
LEMMA ReturnsInOrder ==
  ASSUME SerialInv, [Se!Next]_Se!vars, se_taken' # se_taken,
         NEW i \in 1..Len(se_taken'), NEW j \in Len(se_taken)+1..Len(se_taken'), i < j
  PROVE  /\ se_taken'[i] # se_taken'[j]
         /\ se_taken'[i] < se_taken'[j] \/ se_taken'[j] = se_peeked \/ se_disturbed
<1>t. Se!TypeOK /\ ReturnedOnce /\ PlacedInOrder /\ ReturnedOnce'
  BY SerialStep DEF SerialInv
<1>0. /\ se_taken \in Seq(Se!Byte) /\ Len(se_taken) \in Nat /\ se_got \in Nat
  BY <1>t, DeviceAssumption DEF Se!TypeOK, Se!SerialAssumption
<1>1. Se!Read \/ Se!BytesReturn
  BY DEF Se!Next, Se!Host, Se!InCall, Se!HostSends, Se!BusReset, Se!Configure, Se!SendBreak,
         Se!Peek, Se!CallReadBytes,
         Se!ReadBytes, Se!ReadBreak, Se!BreakRead, Se!BreakClear, Se!Expire, Se!BytesReceived,
         Se!BytesUnconfigured, Se!vars
<1>2. CASE Se!Read
  <2>1. PICK c \in Se!Byte \cup {Se!None} :
          /\ IF se_peeked # Se!None THEN c = se_peeked /\ UNCHANGED Se!stream ELSE Se!RecvByte(c)
          /\ se_taken' = Append(se_taken, c) /\ c # Se!None
    BY <1>2 DEF Se!Read
  <2>2. c = se_peeked \/ c = se_got + 1
    BY <2>1, <1>t, OneByte
  <2>3. c \in Se!Byte
    BY <2>1
  <2>4. /\ Len(se_taken') = Len(se_taken) + 1 /\ se_taken'[Len(se_taken) + 1] = c
        /\ \A x \in 1..Len(se_taken) : se_taken'[x] = se_taken[x]
    BY <1>0, <2>1, <2>3, AppendProperties
  <2>5. j = Len(se_taken) + 1 /\ i \in 1..Len(se_taken) /\ se_taken'[i] = se_taken[i]
            /\ se_taken'[j] = c
    BY <2>4, <1>0
  <2>6. se_taken[i] <= se_got /\ se_taken[i] # se_peeked /\ se_taken[i] \in Se!Byte
    BY <2>5, <1>0, <1>t DEF ReturnedOnce
  <2>7. se_taken[i] \in Nat
    BY <2>6 DEF Se!Byte
  <2>8. CASE c = se_peeked
    BY <2>5, <2>6, <2>8
  <2>9. CASE c = se_got + 1
    <3>1. se_taken[i] < c
      BY <2>6, <2>7, <2>9, <1>0
    <3> QED
      BY <2>5, <2>7, <2>9, <3>1, <1>0
  <2> QED
    BY <2>2, <2>8, <2>9
<1>3. CASE Se!BytesReturn
  <2>1. PICK k \in 0..se_len : Placed(k)
    BY <1>3, <1>t DEF Se!BytesReturn, PlacedInOrder
  <2>2. se_taken' = se_taken \o Se!Delivered
    BY <1>3 DEF Se!BytesReturn
  <2>3. /\ Se!Delivered \in Seq(Se!Byte) /\ Len(Se!Delivered) \in Nat
        /\ \A x \in 1..Len(Se!Delivered) : Se!Delivered[x] = se_buffer[x-1] /\ x-1 \in 0..k-1
    BY <1>t, <2>1, DeliveredBytes DEF Placed
  <2>4. /\ Len(se_taken \o Se!Delivered) = Len(se_taken) + Len(Se!Delivered)
        /\ \A x \in 1 .. Len(se_taken) + Len(Se!Delivered) :
             (se_taken \o Se!Delivered)[x] = IF x <= Len(se_taken) THEN se_taken[x]
                                       ELSE Se!Delivered[x - Len(se_taken)]
    BY <1>0, <2>3, ConcatProperties
  <2>5. j - Len(se_taken) \in 1..Len(Se!Delivered)
            /\ se_taken'[j] = Se!Delivered[j - Len(se_taken)]
    BY <1>0, <2>2, <2>3, <2>4
  <2>6. se_taken'[j] = se_buffer[j - Len(se_taken) - 1] /\ j - Len(se_taken) - 1 \in 0..k-1
    BY <2>3, <2>5
  <2>7. se_taken'[i] # se_taken'[j]
    BY <1>t, <1>0 DEF ReturnedOnce
  <2>8. CASE i <= Len(se_taken)
    <3>1. se_taken'[i] = se_taken[i] /\ i \in 1..Len(se_taken)
      BY <2>2, <2>3, <2>4, <2>8, <1>0
    <3> QED
      BY <2>1, <2>6, <2>7, <3>1 DEF Placed
  <2>9. CASE i > Len(se_taken) /\ ~se_disturbed
    <3>1. i - Len(se_taken) \in 1..Len(Se!Delivered)
              /\ se_taken'[i] = Se!Delivered[i - Len(se_taken)]
      BY <1>0, <2>2, <2>3, <2>4, <2>9
    <3>2. se_taken'[i] = se_buffer[i - Len(se_taken) - 1] /\ i - Len(se_taken) - 1 \in 0..k-1
      BY <2>3, <3>1
    <3>3. i - Len(se_taken) - 1 < j - Len(se_taken) - 1
      BY <1>0
    <3>4. se_buffer[i - Len(se_taken) - 1] < se_buffer[j - Len(se_taken) - 1]
      BY <2>1, <2>6, <2>9, <3>2, <3>3 DEF Placed
    <3> QED
      BY <2>6, <2>7, <3>2, <3>4
  <2> QED
    BY <2>7, <2>8, <2>9, <1>0
<1> QED
  BY <1>1, <1>2, <1>3

\* The invariant of the serial port: each byte that came was returned, waits in one place, or
\* is of a configuration that is over.
THEOREM SerialInvariance == Se!Spec => []SerialInv
BY SerialInit, SerialStep, PTL DEF Se!Spec

\* The types of the serial port: the count of readBytes() stays in the width of a size_t.
THEOREM SerialTyped == Se!Spec => []Se!TypeOK
<1>1. SerialInv => Se!TypeOK
  BY DEF SerialInv
<1> QED
  BY <1>1, SerialInvariance, PTL

\* read(), peek() and readBytes(): the bytes of the stream reach the sketch once, in order and
\* without a gap, through what peek() keeps, the timeout of readBytes() and bus resets.
THEOREM StreamReaches == Se!Spec => OnceAndInOrder
<1>1. SerialInv => Se!NothingSkipped
  BY DEF SerialInv
<1>2. SerialInv /\ [Se!Next]_Se!vars
        => [\A i \in 1..Len(se_taken'), j \in Len(se_taken)+1..Len(se_taken') :
              i < j => /\ se_taken'[i] # se_taken'[j]
                       /\ se_taken'[i] < se_taken'[j] \/ se_taken'[j] = se_peeked
                              \/ se_disturbed]_se_taken
  BY ReturnsInOrder
<1> QED
  BY <1>1, <1>2, SerialInit, SerialStep, PTL DEF Se!Spec, OnceAndInOrder, Se!OnceAndInOrder

\* readBreak() returns the most recent break request, and returns it once.
THEOREM BreaksReach == Se!Spec => BreaksKept
<1>1. SerialInv => Se!MostRecentBreak
  BY DEF SerialInv, BreakMasked, Se!MostRecentBreak
<1>2. SerialInv /\ [Se!Next]_Se!vars
          => [se_pc = "clear" /\ se_ret # Se!None /\ se_pc' = "app"
              => se_ret > se_returned]_Se!vars
  BY DEF SerialInv, BreakMasked, Se!TypeOK, Se!None
<1> QED
  BY <1>1, <1>2, SerialInit, SerialStep, PTL DEF Se!Spec, BreaksKept, Se!BreakAtMostOnce

-----------------------------------------------------------------------------
(* The modules: the invariant of UsbModules. *)

\* What the constructors have shared out: the sums over the list are the counters, and bounded by
\* the endpoints that are taken.
Counters ==
  /\ mo_nodes \in Seq(Modules) /\ IsFiniteSet(Mo!Plugged)
  /\ Len(mo_nodes) = Cardinality(Mo!Plugged)
  /\ mo_lastIf = Mo!Counted /\ mo_lastEp \in 1..Mo!totalEP
  /\ mo_nodes = <<>> => mo_lastEp = 1
  /\ Mo!Described <= 25 * (mo_lastEp - 1) /\ Mo!Total(Mo!ShortName) <= 11 * (mo_lastEp - 1)
  /\ \E k \in 0..MaxReports : mo_descriptorSize = k * ReportSize

\* Every interface below lastIf is that of exactly one module,
InterfacesShared ==
  /\ mo_pluggedInterface \in [Modules -> Nat]
  /\ \A i \in Int : (\E m \in Mo!Plugged : i \in Mo!Interfaces(m)) <=> i \in 0..mo_lastIf - 1
  /\ \A m, n \in Mo!Plugged : m # n => Mo!Interfaces(m) \cap Mo!Interfaces(n) = {}

\* and the endpoints below lastEp have the types that the modules gave them.
EndpointsShared ==
  /\ mo_pluggedEndpoint \in [Modules -> Nat] /\ DOMAIN mo_EndPoints = 1..9
  /\ \A m \in Mo!Plugged : \A k \in DOMAIN Mo!endpointType(m) :
       /\ mo_pluggedEndpoint[m] + k - 1 \in 1..mo_lastEp - 1
       /\ mo_EndPoints[mo_pluggedEndpoint[m] + k - 1] = Mo!endpointType(m)[k]
  /\ \A i \in 1..mo_lastEp - 1 : mo_EndPoints[i] # "none"

\* SET_CONFIGURATION comes after that, and configures them all.
AllConfigured ==
  /\ mo_attached \in BOOLEAN /\ DOMAIN mo_hw = Mo!Endpoints
  /\ \/ \A e \in Mo!Endpoints : mo_hw[e] = "none"
     \/ mo_attached /\ \A e \in 1..mo_lastEp - 1 : mo_hw[e] = mo_EndPoints[e]

\* The buffers after that of endpoint 0 are those of the first module, which never sends from them
\* if it is the serial port.
FirstBuffers ==
  /\ mo_packet \in [Mo!Endpoints -> {"none", "own", "spilled"}]
  /\ ~mo_attached => \A e \in Mo!Endpoints : mo_packet[e] = "none"
  /\ mo_nodes # <<>> /\ mo_nodes[1] = "cdc" =>
       /\ mo_pluggedEndpoint["cdc"] = 1 /\ mo_packet[1] = "none" /\ mo_packet[2] = "none"
       /\ \A e \in Mo!Endpoints : mo_packet[e] # "spilled"

\* The inductive invariant of the modules.
ModInv == Counters /\ InterfacesShared /\ EndpointsShared /\ AllConfigured /\ FirstBuffers

\* The report descriptors of the HID fill at most the buffers of the first three endpoints.
ReportsFit == MaxReports * ReportSize <= 3 * Mo!BufferSize

\* getInterface() adds up over the list.
LEMMA TotalIsSum == \A size : Mo!Total(size) = SumOver(size, mo_nodes)
  BY DEF Mo!Total, SumOver, FoldLeft, MapThenFoldSet, Max, Mo!FoldLeft, Mo!MapThenFoldSet, Mo!Max

\* What the constructors say of themselves: no descriptor needs more than 25 bytes for each endpoint
\* of its module, no name more than 11.
LEMMA ModuleSizes ==
  /\ Mo!numInterfaces \in [Modules -> Nat] /\ Mo!DescriptorSize \in [Modules -> Nat]
  /\ Mo!ShortName \in [Modules -> Nat]
  /\ \A m \in Modules :
       /\ Mo!numInterfaces[m] > 0
       /\ Len(Mo!endpointType(m)) \in 1..3
       /\ DOMAIN Mo!endpointType(m) = 1..Len(Mo!endpointType(m))
       /\ Mo!DescriptorSize[m] <= 25 * Len(Mo!endpointType(m))
       /\ Mo!ShortName[m] <= 11 * Len(Mo!endpointType(m))
       /\ \A k \in 1..Len(Mo!endpointType(m)) :
            Mo!endpointType(m)[k] \in {"interrupt in", "bulk out", "bulk in"}
<1>1. /\ Mo!numInterfaces \in [Modules -> Nat] /\ Mo!DescriptorSize \in [Modules -> Nat]
      /\ Mo!ShortName \in [Modules -> Nat]
  BY DEF Mo!numInterfaces, Mo!DescriptorSize, Mo!ShortName
<1>2. ASSUME NEW m \in Modules
      PROVE  /\ Mo!numInterfaces[m] > 0
             /\ Len(Mo!endpointType(m)) \in 1..3
             /\ DOMAIN Mo!endpointType(m) = 1..Len(Mo!endpointType(m))
             /\ Mo!DescriptorSize[m] <= 25 * Len(Mo!endpointType(m))
             /\ Mo!ShortName[m] <= 11 * Len(Mo!endpointType(m))
             /\ \A k \in 1..Len(Mo!endpointType(m)) :
                  Mo!endpointType(m)[k] \in {"interrupt in", "bulk out", "bulk in"}
  <2>1. CASE m = "cdc"
    <3> DEFINE t == <<"interrupt in", "bulk out", "bulk in">>
    <3>1. Len(t) = 3 /\ DOMAIN t = 1..3
              /\ \A k \in 1..3 : t[k] \in {"interrupt in", "bulk out", "bulk in"}
      OBVIOUS
    <3>2. Mo!endpointType(m) = t
      BY <2>1 DEF Mo!endpointType
    <3>3. Mo!numInterfaces[m] = 2 /\ Mo!DescriptorSize[m] = 66 /\ Mo!ShortName[m] = 32
      BY <2>1 DEF Mo!numInterfaces, Mo!DescriptorSize, Mo!ShortName
    <3> HIDE DEF t
    <3>7. Len(Mo!endpointType(m)) = 3
      BY <3>1, <3>2
    <3>8. DOMAIN Mo!endpointType(m) = 1..3
      BY <3>1, <3>2
    <3>4. /\ Len(Mo!endpointType(m)) = 3 /\ DOMAIN Mo!endpointType(m) = 1..3
          /\ 25 * Len(Mo!endpointType(m)) = 75 /\ 11 * Len(Mo!endpointType(m)) = 33
      BY <3>7, <3>8
    <3>5. \A k \in 1..Len(Mo!endpointType(m)) :
            Mo!endpointType(m)[k] \in {"interrupt in", "bulk out", "bulk in"}
      BY <3>1, <3>2, <3>4
    <3>6. /\ Mo!numInterfaces[m] > 0 /\ Len(Mo!endpointType(m)) \in 1..3
          /\ Mo!DescriptorSize[m] <= 25 * Len(Mo!endpointType(m))
          /\ Mo!ShortName[m] <= 11 * Len(Mo!endpointType(m))
      BY <3>3, <3>4
    <3>. QED
      BY <3>4, <3>5, <3>6
  <2>2. CASE m = "hid"
    <3> DEFINE t == <<"interrupt in">>
    <3>1. Len(t) = 1 /\ DOMAIN t = 1..1
              /\ \A k \in 1..1 : t[k] \in {"interrupt in", "bulk out", "bulk in"}
      OBVIOUS
    <3>2. Mo!endpointType(m) = t
      BY <2>2 DEF Mo!endpointType
    <3>3. Mo!numInterfaces[m] = 1 /\ Mo!DescriptorSize[m] = 25 /\ Mo!ShortName[m] = 5
      BY <2>2 DEF Mo!numInterfaces, Mo!DescriptorSize, Mo!ShortName
    <3> HIDE DEF t
    <3>7. Len(Mo!endpointType(m)) = 1
      BY <3>1, <3>2
    <3>8. DOMAIN Mo!endpointType(m) = 1..1
      BY <3>1, <3>2
    <3>4. /\ Len(Mo!endpointType(m)) = 1 /\ DOMAIN Mo!endpointType(m) = 1..1
          /\ 25 * Len(Mo!endpointType(m)) = 25 /\ 11 * Len(Mo!endpointType(m)) = 11
      BY <3>7, <3>8
    <3>5. \A k \in 1..Len(Mo!endpointType(m)) :
            Mo!endpointType(m)[k] \in {"interrupt in", "bulk out", "bulk in"}
      BY <3>1, <3>2, <3>4
    <3>6. /\ Mo!numInterfaces[m] > 0 /\ Len(Mo!endpointType(m)) \in 1..3
          /\ Mo!DescriptorSize[m] <= 25 * Len(Mo!endpointType(m))
          /\ Mo!ShortName[m] <= 11 * Len(Mo!endpointType(m))
      BY <3>3, <3>4
    <3>. QED
      BY <3>4, <3>5, <3>6
  <2>3. CASE m # "cdc" /\ m # "hid"
    <3> DEFINE t == <<"bulk out", "bulk in">>
    <3>1. Len(t) = 2 /\ DOMAIN t = 1..2
              /\ \A k \in 1..2 : t[k] \in {"interrupt in", "bulk out", "bulk in"}
      OBVIOUS
    <3>2. Mo!endpointType(m) = t
      BY <2>3 DEF Mo!endpointType
    <3>3. Mo!numInterfaces[m] = 1 /\ Mo!DescriptorSize[m] = 23 /\ Mo!ShortName[m] = 1
      BY <2>3 DEF Mo!numInterfaces, Mo!DescriptorSize, Mo!ShortName
    <3> HIDE DEF t
    <3>7. Len(Mo!endpointType(m)) = 2
      BY <3>1, <3>2
    <3>8. DOMAIN Mo!endpointType(m) = 1..2
      BY <3>1, <3>2
    <3>4. /\ Len(Mo!endpointType(m)) = 2 /\ DOMAIN Mo!endpointType(m) = 1..2
          /\ 25 * Len(Mo!endpointType(m)) = 50 /\ 11 * Len(Mo!endpointType(m)) = 22
      BY <3>7, <3>8
    <3>5. \A k \in 1..Len(Mo!endpointType(m)) :
            Mo!endpointType(m)[k] \in {"interrupt in", "bulk out", "bulk in"}
      BY <3>1, <3>2, <3>4
    <3>6. /\ Mo!numInterfaces[m] > 0 /\ Len(Mo!endpointType(m)) \in 1..3
          /\ Mo!DescriptorSize[m] <= 25 * Len(Mo!endpointType(m))
          /\ Mo!ShortName[m] <= 11 * Len(Mo!endpointType(m))
      BY <3>3, <3>4
    <3>. QED
      BY <3>4, <3>5, <3>6
  <2>. QED
    BY <2>1, <2>2, <2>3
<1>. QED
  BY <1>1, <1>2

\* A module that is appended is in the list.
LEMMA RangeAppend ==
  ASSUME NEW T, NEW s \in Seq(T), NEW e \in T
  PROVE  Mo!Range(Append(s, e)) = Mo!Range(s) \cup {e}
<1> DEFINE t == Append(s, e)
<1>1. /\ DOMAIN s = 1..Len(s) /\ DOMAIN t = 1..Len(s) + 1 /\ Len(s) \in Nat
      /\ \A i \in 1..Len(s) : t[i] = s[i]
      /\ t[Len(s) + 1] = e
  BY AppendProperties
<1> HIDE DEF t
<1>. QED
  BY <1>1 DEF Mo!Range, t

\* A bound on the sum of what is there and what is added.
LEMMA LinearBound ==
  \A c \in Nat : \A x, a, l, n \in Int :
    x <= c * (l - 1) /\ a <= c * n => x + a <= c * (l + n - 1)
<1> SUFFICES ASSUME NEW c \in Nat, NEW x \in Int, NEW a \in Int, NEW l \in Int, NEW n \in Int,
                    x <= c * (l - 1), a <= c * n
             PROVE  x + a <= c * (l + n - 1)
  OBVIOUS
<1>1. c * (l + n - 1) = c * (l - 1) + c * n
  OBVIOUS
<1>. QED
  BY <1>1

\* The invariant holds before the first constructor.
LEMMA ModStart == ASSUME "cdc" \in Modules, ReportSize \in Nat, MaxReports \in Nat, Mo!Init
                  PROVE  ModInv
<1>1. mo_nodes = <<>> /\ mo_nodes \in Seq(Modules) /\ Mo!Plugged = {}
  BY DEF Mo!Init, Mo!Plugged, Mo!Range
<1>2. Mo!Counted = 0 /\ Mo!Described = 0 /\ Mo!Total(Mo!ShortName) = 0
  BY <1>1, TotalIsSum, SumNone, ModuleSizes DEF Mo!Counted, Mo!Described
<1>3. Counters
  <2>1. IsFiniteSet(Mo!Plugged) /\ Cardinality(Mo!Plugged) = 0
    BY <1>1, FS_EmptySet
  <2>2. 0 \in 0..MaxReports /\ mo_descriptorSize = 0 * ReportSize
    BY DEF Mo!Init
  <2>. QED
    <3>1. mo_lastIf = 0 /\ mo_lastEp = 1 /\ Len(mo_nodes) = 0
      BY <1>1 DEF Mo!Init
    <3>2. 25 * (mo_lastEp - 1) = 0 /\ 11 * (mo_lastEp - 1) = 0
      BY <3>1
    <3>3. \E k \in 0..MaxReports : mo_descriptorSize = k * ReportSize
      BY <2>2
    <3>. QED
      BY <1>1, <1>2, <2>1, <3>1, <3>2, <3>3 DEF Counters, Mo!totalEP
<1>4. InterfacesShared
  BY <1>1 DEF InterfacesShared, Mo!Init
<1>5. EndpointsShared
  BY <1>1 DEF EndpointsShared, Mo!Init
<1>6. AllConfigured
  BY Zenon DEF AllConfigured, Mo!Init
<1>7. FirstBuffers
  BY <1>1 DEF FirstBuffers, Mo!Init
<1>. QED
  BY <1>3, <1>4, <1>5, <1>6, <1>7 DEF ModInv

\* plug() keeps it: the new module takes the interfaces and endpoints after those that are taken.
LEMMA PlugStep ==
  ASSUME ReportSize \in Nat, MaxReports \in Nat, ModInv, NEW m \in Modules, Mo!Plug(m)
  PROVE  ModInv'
<1> DEFINE n == Len(Mo!endpointType(m))
<1>1. /\ mo_nodes \in Seq(Modules) /\ mo_lastIf = Mo!Counted /\ mo_lastEp \in 1..Mo!totalEP
      /\ mo_lastEp \in Nat
      /\ IsFiniteSet(Mo!Plugged) /\ Len(mo_nodes) = Cardinality(Mo!Plugged)
  BY DEF ModInv, Counters
<1>2. /\ mo_nodes' = Append(mo_nodes, m) /\ mo_nodes' \in Seq(Modules) /\ m \notin Mo!Plugged
      /\ mo_lastEp + n <= Mo!totalEP /\ mo_lastEp' = mo_lastEp + n
      /\ mo_lastIf' = mo_lastIf + Mo!numInterfaces[m]
      /\ mo_pluggedInterface' = [mo_pluggedInterface EXCEPT ![m] = mo_lastIf]
      /\ mo_pluggedEndpoint' = [mo_pluggedEndpoint EXCEPT ![m] = mo_lastEp]
      /\ mo_EndPoints' = [i \in 1..9 |->
           IF i \in mo_lastEp..mo_lastEp + n - 1 THEN Mo!endpointType(m)[i - mo_lastEp + 1]
           ELSE mo_EndPoints[i]]
  BY <1>1 DEF Mo!Plug, Mo!NextInterface
<1>3. /\ n \in 1..3 /\ Mo!numInterfaces[m] \in Nat \ {0} /\ DOMAIN Mo!endpointType(m) = 1..n
      /\ Mo!DescriptorSize[m] <= 25 * n /\ Mo!ShortName[m] <= 11 * n
      /\ \A k \in 1..n : Mo!endpointType(m)[k] \in {"interrupt in", "bulk out", "bulk in"}
      /\ Mo!DescriptorSize[m] \in Nat /\ Mo!ShortName[m] \in Nat
  <2>1. Mo!numInterfaces[m] \in Nat /\ Mo!DescriptorSize[m] \in Nat /\ Mo!ShortName[m] \in Nat
    BY ModuleSizes
  <2>2. /\ n \in 1..3 /\ Mo!numInterfaces[m] > 0 /\ DOMAIN Mo!endpointType(m) = 1..n
        /\ Mo!DescriptorSize[m] <= 25 * n /\ Mo!ShortName[m] <= 11 * n
    BY ModuleSizes
  <2>3. \A k \in 1..n : Mo!endpointType(m)[k] \in {"interrupt in", "bulk out", "bulk in"}
    BY ModuleSizes
  <2>4. Mo!numInterfaces[m] \in Nat \ {0}
    BY <2>1, <2>2
  <2> HIDE DEF n
  <2>. QED
    BY <2>1, <2>2, <2>3, <2>4, Zenon
<1>4. ~mo_attached /\ UNCHANGED <<mo_attached, mo_descriptorSize, mo_hw, mo_packet>>
  BY DEF Mo!Plug
<1>5. Mo!Plugged' = Mo!Plugged \cup {m}
  BY <1>1, <1>2, RangeAppend DEF Mo!Plugged
<1>6. /\ Mo!Counted \in Nat /\ Mo!Counted' = Mo!Counted + Mo!numInterfaces[m]
      /\ Mo!Described \in Nat /\ Mo!Described' = Mo!Described + Mo!DescriptorSize[m]
      /\ Mo!Total(Mo!ShortName) \in Nat
      /\ Mo!Total(Mo!ShortName)' = Mo!Total(Mo!ShortName) + Mo!ShortName[m]
  <2>1. ASSUME NEW W \in [Modules -> Nat]
        PROVE  Mo!Total(W) \in Nat /\ SumOver(W, mo_nodes') = Mo!Total(W) + W[m]
    BY <1>1, <1>2, TotalIsSum, SumAppend
  <2>2. Mo!Total(Mo!numInterfaces)' = SumOver(Mo!numInterfaces, mo_nodes')
    BY DEF Mo!Total, SumOver, FoldLeft, MapThenFoldSet, Max, Mo!FoldLeft, Mo!MapThenFoldSet,
           Mo!Max, Mo!numInterfaces
  <2>3. Mo!Total(Mo!DescriptorSize)' = SumOver(Mo!DescriptorSize, mo_nodes')
    BY DEF Mo!Total, SumOver, FoldLeft, MapThenFoldSet, Max, Mo!FoldLeft, Mo!MapThenFoldSet,
           Mo!Max, Mo!DescriptorSize
  <2>4. Mo!Total(Mo!ShortName)' = SumOver(Mo!ShortName, mo_nodes')
    BY DEF Mo!Total, SumOver, FoldLeft, MapThenFoldSet, Max, Mo!FoldLeft, Mo!MapThenFoldSet,
           Mo!Max, Mo!ShortName
  <2>. QED
    BY <2>1, <2>2, <2>3, <2>4, ModuleSizes DEF Mo!Counted, Mo!Described
<1>n. /\ mo_lastEp \in 1..7 /\ n \in 1..3 /\ mo_lastEp + n <= 7 /\ mo_lastEp' = mo_lastEp + n
      /\ mo_lastEp' \in 2..7 /\ Mo!totalEP = 7
  <2>1. mo_lastEp \in 1..7 /\ n \in 1..3 /\ mo_lastEp + n <= 7 /\ mo_lastEp' = mo_lastEp + n
            /\ Mo!totalEP = 7
    BY <1>1, <1>2, <1>3 DEF Mo!totalEP
  <2> HIDE DEF n
  <2>. QED
    BY <2>1
<1>7. \A p \in Modules : Mo!endpointType(p)' = Mo!endpointType(p)
  BY DEF Mo!endpointType
<1>8. Counters'
  <2>1. IsFiniteSet(Mo!Plugged') /\ Cardinality(Mo!Plugged') = Cardinality(Mo!Plugged) + 1
    BY <1>1, <1>2, <1>5, FS_AddElement
  <2>2. Len(mo_nodes') = Len(mo_nodes) + 1 /\ mo_nodes' # <<>>
    BY <1>1, <1>2
  <2>3. /\ Mo!Described <= 25 * (mo_lastEp - 1) /\ Mo!Total(Mo!ShortName) <= 11 * (mo_lastEp - 1)
        /\ \E k \in 0..MaxReports : mo_descriptorSize = k * ReportSize
    BY DEF ModInv, Counters
  <2>4. Mo!Described' <= 25 * (mo_lastEp' - 1) /\ Mo!Total(Mo!ShortName)' <= 11 * (mo_lastEp' - 1)
    <3>1. mo_lastEp \in Int /\ n \in Int /\ mo_lastEp' = mo_lastEp + n
      BY <1>n
    <3> DEFINE x == Mo!Described
               y == Mo!Total(Mo!ShortName)
               a == Mo!DescriptorSize[m]
               b == Mo!ShortName[m]
    <3>4. /\ x \in Int /\ y \in Int /\ a \in Int /\ b \in Int
          /\ x <= 25 * (mo_lastEp - 1) /\ y <= 11 * (mo_lastEp - 1) /\ a <= 25 * n /\ b <= 11 * n
      <4>1. x \in Nat /\ y \in Nat /\ a \in Nat /\ b \in Nat
        BY <1>3, <1>6
      <4>2. x <= 25 * (mo_lastEp - 1) /\ y <= 11 * (mo_lastEp - 1) /\ a <= 25 * n /\ b <= 11 * n
        BY <1>3, <2>3, Zenon
      <4> HIDE DEF n, x, y, a, b
      <4>. QED
        BY <4>1, <4>2
    <3> HIDE DEF n, x, y, a, b
    <3>2. x + a <= 25 * (mo_lastEp + n - 1)
      BY <3>1, <3>4, LinearBound
    <3>3. y + b <= 11 * (mo_lastEp + n - 1)
      BY <3>1, <3>4, LinearBound
    <3> USE DEF n, x, y, a, b
    <3>. QED
      BY <1>6, <3>1, <3>2, <3>3
  <2>5. mo_lastEp' \in 1..Mo!totalEP
    BY <1>n
  <2>6. (mo_lastIf = Mo!Counted)'
    BY <1>1, <1>2, <1>6
  <2>. QED
    BY <1>1, <1>2, <1>4, <2>1, <2>2, <2>3, <2>4, <2>5, <2>6 DEF Counters
<1>9. InterfacesShared'
  <2>1. /\ mo_pluggedInterface \in [Modules -> Nat] /\ mo_lastIf \in Nat
        /\ \A i \in Int : (\E p \in Mo!Plugged : i \in Mo!Interfaces(p)) <=> i \in 0..mo_lastIf - 1
        /\ \A p, q \in Mo!Plugged : p # q => Mo!Interfaces(p) \cap Mo!Interfaces(q) = {}
    BY <1>1, <1>6 DEF ModInv, InterfacesShared
  <2>2. Mo!Plugged \subseteq Modules
    BY <1>1 DEF Mo!Plugged, Mo!Range
  <2>3. \A p \in Mo!Plugged : Mo!Interfaces(p)' = Mo!Interfaces(p)
    BY <1>2, <2>1, <2>2 DEF Mo!Interfaces, Mo!numInterfaces
  <2>4. Mo!Interfaces(m)' = mo_lastIf..mo_lastIf + Mo!numInterfaces[m] - 1
    <3>1. mo_pluggedInterface'[m] = mo_lastIf
      BY <1>2, <2>1
    <3>2. Mo!numInterfaces' = Mo!numInterfaces
      BY DEF Mo!numInterfaces
    <3>. QED
      BY <3>1, <3>2 DEF Mo!Interfaces
  <2>5. mo_pluggedInterface' \in [Modules -> Nat]
    BY <1>2, <2>1
  <2>6. ASSUME NEW i \in Int
        PROVE  (\E p \in Mo!Plugged' : i \in Mo!Interfaces(p)') <=> i \in 0..mo_lastIf' - 1
    <3>1. (\E p \in Mo!Plugged' : i \in Mo!Interfaces(p)') <=>
            (\E p \in Mo!Plugged : i \in Mo!Interfaces(p)) \/ i \in Mo!Interfaces(m)'
      BY <1>5, <2>3
    <3>2. i \in Mo!Interfaces(m)' <=> i \in mo_lastIf..mo_lastIf + Mo!numInterfaces[m] - 1
      BY <2>4
    <3>3. (\E p \in Mo!Plugged : i \in Mo!Interfaces(p)) <=> i \in 0..mo_lastIf - 1
      BY <2>1
    <3> DEFINE x == Mo!numInterfaces[m]
    <3>4. x \in Nat \ {0} /\ mo_lastIf \in Nat /\ mo_lastIf' = mo_lastIf + x
      BY <1>2, <1>3, <2>1
    <3> HIDE DEF x
    <3>5. i \in 0..mo_lastIf' - 1 <=> i \in 0..mo_lastIf - 1 \/ i \in mo_lastIf..mo_lastIf + x - 1
      BY <3>4
    <3>. QED
      BY <3>1, <3>2, <3>3, <3>5 DEF x
  <2>7. ASSUME NEW p \in Mo!Plugged PROVE Mo!Interfaces(p) \cap Mo!Interfaces(m)' = {}
    <3>1. \A i \in Mo!Interfaces(p) : i \in Int /\ i \in 0..mo_lastIf - 1
      <4>1. \A i \in Mo!Interfaces(p) : i \in Int
        <5>1. \A j \in Nat, k \in Nat : \A i \in j..j + k - 1 : i \in Int
          OBVIOUS
        <5>2. mo_pluggedInterface[p] \in Nat /\ Mo!numInterfaces[p] \in Nat
          BY <2>1, <2>2, <2>7, ModuleSizes
        <5>. QED
          BY <5>1, <5>2 DEF Mo!Interfaces
      <4>. QED
        BY <2>1, <4>1
    <3>. QED
      BY <2>1, <2>4, <3>1
  <2>8. ASSUME NEW p \in Mo!Plugged', NEW q \in Mo!Plugged', p # q
        PROVE  Mo!Interfaces(p)' \cap Mo!Interfaces(q)' = {}
    <3>1. CASE p \in Mo!Plugged /\ q \in Mo!Plugged
      BY <2>1, <2>3, <2>8, <3>1
    <3>2. CASE p = m /\ q \in Mo!Plugged
      BY <2>3, <2>7, <3>2
    <3>3. CASE p \in Mo!Plugged /\ q = m
      BY <2>3, <2>7, <3>3
    <3>. QED
      BY <1>5, <2>8, <3>1, <3>2, <3>3
  <2>. QED
    BY <2>5, <2>6, <2>8 DEF InterfacesShared
<1>10. EndpointsShared'
  <2>1. /\ mo_pluggedEndpoint \in [Modules -> Nat] /\ DOMAIN mo_EndPoints = 1..9
        /\ \A p \in Mo!Plugged : \A k \in DOMAIN Mo!endpointType(p) :
             /\ mo_pluggedEndpoint[p] + k - 1 \in 1..mo_lastEp - 1
             /\ mo_EndPoints[mo_pluggedEndpoint[p] + k - 1] = Mo!endpointType(p)[k]
        /\ \A i \in 1..mo_lastEp - 1 : mo_EndPoints[i] # "none"
    BY DEF ModInv, EndpointsShared
  <2>2. Mo!Plugged \subseteq Modules
    BY <1>1 DEF Mo!Plugged, Mo!Range
  <2>3. \A i \in 1..mo_lastEp - 1 : mo_EndPoints'[i] = mo_EndPoints[i]
    BY <1>1, <1>2 DEF Mo!totalEP
  <2>4. \A k \in 1..n : mo_lastEp + k - 1 \in 1..mo_lastEp' - 1
            /\ mo_EndPoints'[mo_lastEp + k - 1] = Mo!endpointType(m)[k]
    <3> HIDE DEF n
    <3>1. SUFFICES ASSUME NEW k \in 1..n

                   PROVE  /\ mo_lastEp + k - 1 \in 1..mo_lastEp' - 1
                          /\ mo_EndPoints'[mo_lastEp + k - 1] = Mo!endpointType(m)[k]
      OBVIOUS
    <3>2. mo_lastEp + k - 1 \in 1..mo_lastEp' - 1 /\ mo_lastEp + k - 1 \in 1..9
              /\ mo_lastEp + k - 1 \in mo_lastEp..mo_lastEp + n - 1
      BY <1>n
    <3>3. (mo_lastEp + k - 1) - mo_lastEp + 1 = k
      BY <1>n
    <3>. QED
      BY <1>2, <3>2, <3>3
  <2>5. ASSUME NEW p \in Mo!Plugged', NEW k \in DOMAIN Mo!endpointType(p)
        PROVE  /\ mo_pluggedEndpoint'[p] + k - 1 \in 1..mo_lastEp' - 1
               /\ mo_EndPoints'[mo_pluggedEndpoint'[p] + k - 1] = Mo!endpointType(p)[k]
    <3>1. CASE p = m
      <4>1. mo_pluggedEndpoint'[m] = mo_lastEp
        BY <1>2, <2>1
      <4>. QED
        BY <1>3, <2>4, <2>5, <3>1, <4>1
    <3>2. CASE p \in Mo!Plugged
      <4>1. mo_pluggedEndpoint'[p] = mo_pluggedEndpoint[p]
        BY <1>2, <2>1, <2>2, <3>2
      <4>2. mo_pluggedEndpoint[p] + k - 1 \in 1..mo_lastEp - 1
                /\ mo_EndPoints[mo_pluggedEndpoint[p] + k - 1] = Mo!endpointType(p)[k]
        BY <2>1, <2>5, <3>2
      <4>3. 1..mo_lastEp - 1 \subseteq 1..mo_lastEp' - 1
        <5> HIDE DEF n
        <5>. QED
          BY <1>n
      <4>. QED
        BY <2>3, <4>1, <4>2, <4>3
    <3>. QED
      BY <1>5, <3>1, <3>2
  <2>6. ASSUME NEW i \in 1..mo_lastEp' - 1 PROVE mo_EndPoints'[i] # "none"
    <3> HIDE DEF n
    <3>1. CASE i \in 1..mo_lastEp - 1
      BY <2>1, <2>3, <3>1
    <3>2. CASE i >= mo_lastEp
      <4>1. i - mo_lastEp + 1 \in 1..n /\ i \in mo_lastEp..mo_lastEp + n - 1 /\ i \in 1..9
        BY <1>n, <3>2
      <4>. QED
        BY <1>2, <1>3, <4>1
    <3>. QED
      BY <1>1, <3>1, <3>2
  <2>7. mo_pluggedEndpoint' \in [Modules -> Nat] /\ DOMAIN mo_EndPoints' = 1..9
    BY <1>1, <1>2, <2>1
  <2>8. \A p \in Mo!Plugged' : Mo!endpointType(p)' = Mo!endpointType(p)
    BY <1>5, <1>7, <2>2
  <2>. QED
    BY <2>5, <2>6, <2>7, <2>8 DEF EndpointsShared
<1>11. AllConfigured'
  BY <1>4 DEF ModInv, AllConfigured
<1>12. FirstBuffers'
  <2>1. /\ mo_packet \in [Mo!Endpoints -> {"none", "own", "spilled"}]
        /\ \A e \in Mo!Endpoints : mo_packet[e] = "none"
        /\ mo_nodes # <<>> /\ mo_nodes[1] = "cdc" => mo_pluggedEndpoint["cdc"] = 1
    BY <1>4 DEF ModInv, FirstBuffers
  <2>2. mo_pluggedEndpoint \in [Modules -> Nat]
    BY DEF ModInv, EndpointsShared
  <2>3. 1 \in Mo!Endpoints /\ 2 \in Mo!Endpoints
    BY DEF Mo!Endpoints, Mo!totalEP
  <2>4. ASSUME mo_nodes'[1] = "cdc" PROVE mo_pluggedEndpoint'["cdc"] = 1
    <3>1. CASE mo_nodes = <<>>
      <4>1. m = "cdc" /\ mo_lastEp = 1
        BY <1>2, <2>4, <3>1 DEF ModInv, Counters
      <4>. QED
        BY <1>2, <2>2, <4>1
    <3>2. CASE mo_nodes # <<>>
      <4>1. mo_nodes[1] = "cdc" /\ 1 \in 1..Len(mo_nodes)
        BY <1>1, <1>2, <2>4, <3>2
      <4>2. "cdc" \in Mo!Plugged
        BY <1>1, <4>1 DEF Mo!Plugged, Mo!Range
      <4>. QED
        BY <1>2, <2>1, <2>2, <3>2, <4>1, <4>2
    <3>. QED
      BY <3>1, <3>2
  <2>. QED
    BY <1>4, <2>1, <2>3, <2>4 DEF FirstBuffers
<1>. QED
  BY <1>8, <1>9, <1>10, <1>11, <1>12 DEF ModInv

\* A step that leaves the list alone leaves what follows from it:
LEMMA PlugKept ==
  ASSUME ModInv, UNCHANGED Mo!plug
  PROVE  /\ InterfacesShared' /\ EndpointsShared'
         /\ (\E k \in 0..MaxReports : mo_descriptorSize' = k * ReportSize) => Counters'
<1>1. UNCHANGED <<mo_nodes, mo_lastIf, mo_lastEp, mo_pluggedInterface, mo_pluggedEndpoint,
                  mo_EndPoints>>
  BY DEF Mo!plug
<1>2. Mo!Counted' = Mo!Counted
  BY <1>1 DEF Mo!Counted, Mo!Total, Mo!FoldLeft, Mo!MapThenFoldSet, Mo!numInterfaces
<1>3. Mo!Described' = Mo!Described
  BY <1>1 DEF Mo!Described, Mo!Total, Mo!FoldLeft, Mo!MapThenFoldSet, Mo!DescriptorSize
<1>4. Mo!Total(Mo!ShortName)' = Mo!Total(Mo!ShortName)
  BY <1>1 DEF Mo!Total, Mo!FoldLeft, Mo!MapThenFoldSet, Mo!ShortName
<1>5. Mo!Plugged' = Mo!Plugged
  BY <1>1 DEF Mo!Plugged
<1>6. (\E k \in 0..MaxReports : mo_descriptorSize' = k * ReportSize) => Counters'
  BY <1>1, <1>2, <1>3, <1>4, <1>5 DEF ModInv, Counters
<1>7. \A m : Mo!Interfaces(m)' = Mo!Interfaces(m)
  BY <1>1 DEF Mo!Interfaces, Mo!numInterfaces
<1>8. \A m : Mo!endpointType(m)' = Mo!endpointType(m)
  BY DEF Mo!endpointType
<1>9. InterfacesShared'
  BY <1>1, <1>5, <1>7 DEF ModInv, InterfacesShared
<1>10. EndpointsShared'
  BY <1>1, <1>5, <1>8 DEF ModInv, EndpointsShared
<1>. QED
  BY <1>6, <1>9, <1>10

\* a report descriptor of the HID,
LEMMA AppendDescriptorStep ==
  ASSUME ReportSize \in Nat, MaxReports \in Nat, ModInv, Mo!AppendDescriptor
  PROVE  ModInv'
<1>1. UNCHANGED Mo!plug /\ UNCHANGED <<mo_attached, mo_hw, mo_packet, mo_nodes, mo_lastEp,
                                       mo_EndPoints, mo_pluggedEndpoint>>
  BY DEF Mo!AppendDescriptor, Mo!plug
<1>2. PICK k \in 0..MaxReports : mo_descriptorSize = k * ReportSize
  BY DEF ModInv, Counters
<1>3. k * ReportSize < MaxReports * ReportSize /\ mo_descriptorSize' = k * ReportSize + ReportSize
  BY <1>2 DEF Mo!AppendDescriptor
<1>4. k # MaxReports
  BY <1>3
<1>5. k + 1 \in 0..MaxReports /\ mo_descriptorSize' = (k + 1) * ReportSize
  BY <1>3, <1>4
<1>6. AllConfigured' /\ FirstBuffers'
  BY <1>1 DEF ModInv, AllConfigured, FirstBuffers
<1>. QED
  BY <1>1, <1>5, <1>6, PlugKept DEF ModInv

\* the attach,
LEMMA AttachStep == ASSUME ModInv, Mo!Attach PROVE ModInv'
<1>1. /\ UNCHANGED Mo!plug /\ UNCHANGED <<mo_hw, mo_packet, mo_nodes, mo_lastEp, mo_EndPoints,
                                          mo_pluggedEndpoint>>
      /\ ~mo_attached /\ mo_attached' = TRUE
  BY DEF Mo!Attach, Mo!plug
<1>2. \E k \in 0..MaxReports : mo_descriptorSize' = k * ReportSize
  BY DEF ModInv, Counters, Mo!Attach
<1>3. mo_attached' \in BOOLEAN
  BY <1>1, Zenon
<1>4. AllConfigured'
  BY <1>1, <1>3 DEF ModInv, AllConfigured
<1>5. FirstBuffers'
  BY <1>1 DEF ModInv, FirstBuffers
<1>. QED
  BY <1>1, <1>2, <1>4, <1>5, PlugKept DEF ModInv

\* and SET_CONFIGURATION, which finds a type for each endpoint below lastEp.
LEMMA ConfigureModulesStep == ASSUME ModInv, Mo!SetConfiguration PROVE ModInv'
<1>1. /\ UNCHANGED Mo!plug
      /\ UNCHANGED <<mo_attached, mo_packet, mo_nodes, mo_lastEp, mo_EndPoints,
                     mo_pluggedEndpoint>>
      /\ mo_attached
  BY DEF Mo!SetConfiguration, Mo!plug
<1>2. \E k \in 0..MaxReports : mo_descriptorSize' = k * ReportSize
  BY DEF ModInv, Counters, Mo!SetConfiguration
<1>3. \A e \in 1..mo_lastEp - 1 : e \in Mo!Endpoints /\ mo_hw'[e] = mo_EndPoints[e]
  <2>1. mo_lastEp \in 1..7 /\ Mo!totalEP = 7
    BY DEF ModInv, Counters, Mo!totalEP
  <2>2. \A i \in 1..mo_lastEp - 1 : mo_EndPoints[i] # "none"
    BY DEF ModInv, EndpointsShared
  <2>3. ASSUME NEW e \in 1..mo_lastEp - 1
        PROVE  e \in Mo!Endpoints /\ mo_hw'[e] = mo_EndPoints[e]
    <3>1. e \in Mo!Endpoints
      BY <2>1 DEF Mo!Endpoints
    <3>2. \A i \in 1..e : i \in 1..mo_lastEp - 1
      BY <2>1
    <3>. QED
      BY <2>2, <3>1, <3>2 DEF Mo!SetConfiguration
  <2>. QED
    BY <2>3
<1>4. DOMAIN mo_hw' = Mo!Endpoints
  BY DEF Mo!SetConfiguration
<1>5. AllConfigured'
  BY <1>1, <1>3, <1>4 DEF ModInv, AllConfigured, Mo!Endpoints
<1>6. FirstBuffers'
  BY <1>1 DEF ModInv, FirstBuffers, Mo!Endpoints
<1>. QED
  BY <1>1, <1>2, <1>5, <1>6, PlugKept DEF ModInv

\* An answer that fits three buffers rewrites no packet behind those of the first module,
LEMMA ArmStep ==
  ASSUME ModInv, UNCHANGED <<mo_attached, Mo!plug, mo_descriptorSize, mo_hw>>,
         NEW length \in Nat, length <= 3 * Mo!BufferSize, Mo!ArmSend(length), mo_attached
  PROVE  ModInv'
<1>1. /\ UNCHANGED Mo!plug
      /\ UNCHANGED <<mo_attached, mo_hw, mo_nodes, mo_lastEp, mo_EndPoints, mo_pluggedEndpoint>>
  BY DEF Mo!plug
<1>2. \E k \in 0..MaxReports : mo_descriptorSize' = k * ReportSize
  BY DEF ModInv, Counters
<1>3. AllConfigured'
  BY <1>1 DEF ModInv, AllConfigured
<1>4. mo_packet' \in [Mo!Endpoints -> {"none", "own", "spilled"}]
  BY DEF ModInv, FirstBuffers, Mo!ArmSend
<1>5. /\ \A e \in Mo!Endpoints : e = 1 \/ e = 2 \/ ~(e * Mo!BufferSize < length)
      /\ 1 \in Mo!Endpoints /\ 2 \in Mo!Endpoints
  BY DEF Mo!Endpoints, Mo!totalEP, Mo!BufferSize
<1>6. ASSUME mo_nodes # <<>>, mo_nodes[1] = "cdc"

      PROVE  /\ mo_packet'[1] = "none" /\ mo_packet'[2] = "none"
             /\ \A e \in Mo!Endpoints : mo_packet'[e] # "spilled"
  <2>1. mo_packet[1] = "none" /\ mo_packet[2] = "none"
            /\ \A e \in Mo!Endpoints : mo_packet[e] # "spilled"
    BY <1>6 DEF ModInv, FirstBuffers
  <2>. QED
    BY <1>5, <2>1 DEF Mo!ArmSend
<1>7. FirstBuffers'
  BY <1>1, <1>4, <1>6 DEF ModInv, FirstBuffers
<1>. QED
  BY <1>1, <1>2, <1>3, <1>7, PlugKept DEF ModInv

\* and the configuration and the serial number fit them, with every list of modules,
LEMMA SumsAreSmall ==
  ASSUME ModInv
  PROVE  /\ Mo!Described \in Nat /\ Mo!ConfigSize + Mo!Described <= 3 * Mo!BufferSize
         /\ Mo!Total(Mo!ShortName) \in Nat /\ 2 + 2 * Mo!Total(Mo!ShortName) <= 3 * Mo!BufferSize
         /\ Mo!Counted \in Nat
<1>1. /\ mo_nodes \in Seq(Modules) /\ mo_lastEp \in 1..7
      /\ Mo!Described <= 25 * (mo_lastEp - 1) /\ Mo!Total(Mo!ShortName) <= 11 * (mo_lastEp - 1)
  BY DEF ModInv, Counters, Mo!totalEP
<1>2. \A W \in [Modules -> Nat] : Mo!Total(W) \in Nat
  BY <1>1, TotalIsSum, SumValues, FoldTyped
<1>3. Mo!Described \in Nat /\ Mo!Total(Mo!ShortName) \in Nat /\ Mo!Counted \in Nat
  BY <1>2, ModuleSizes DEF Mo!Described, Mo!Counted
<1> DEFINE x == Mo!Described
           y == Mo!Total(Mo!ShortName)
<1>4. x \in Nat /\ y \in Nat /\ x <= 25 * (mo_lastEp - 1) /\ y <= 11 * (mo_lastEp - 1)
  BY <1>1, <1>3
<1> HIDE DEF x, y
<1>5. x <= 150 /\ y <= 66
  BY <1>1, <1>4
<1>6. 9 + x <= 192 /\ 2 + 2 * y <= 192
  BY <1>4, <1>5
<1>. QED
  BY <1>3, <1>6 DEF x, y, Mo!BufferSize, Mo!ConfigSize

\* so every answer keeps the invariant.
LEMMA AnswerStep ==
  ASSUME ReportSize \in Nat, MaxReports \in Nat, ReportsFit, ModInv,
         \/ \E n \in {Mo!ConfigSize, 255} : Mo!GetConfiguration(n)
         \/ Mo!GetSerialNumber(255)
         \/ \E i \in 0..6 : Mo!GetReportDescriptor(i)
  PROVE  ModInv'
<1>1. CASE \E n \in {Mo!ConfigSize, 255} : Mo!GetConfiguration(n)
  <2>1. PICK n \in {Mo!ConfigSize, 255} : Mo!GetConfiguration(n)
    BY <1>1
  <2> DEFINE l == IF n = Mo!ConfigSize THEN Mo!ConfigSize ELSE Mo!ConfigSize + Mo!Described
  <2>2. l \in Nat /\ l <= 3 * Mo!BufferSize
    BY SumsAreSmall DEF Mo!ConfigSize, Mo!BufferSize
  <2>3. Mo!ArmSend(l) /\ mo_attached /\ UNCHANGED <<mo_attached, Mo!plug, mo_descriptorSize,
                                                    mo_hw>>
    BY <2>1 DEF Mo!GetConfiguration
  <2> HIDE DEF l
  <2>. QED
    BY <2>2, <2>3, ArmStep
<1>2. CASE Mo!GetSerialNumber(255)
  <2> DEFINE size == 2 + 2 * Mo!Total(Mo!ShortName)
             l == IF size < 255 THEN size ELSE 255
  <2>1. size \in Nat /\ size <= 3 * Mo!BufferSize /\ Mo!BufferSize = 64
    BY SumsAreSmall DEF Mo!BufferSize
  <2>2. Mo!ArmSend(l) /\ mo_attached /\ UNCHANGED <<mo_attached, Mo!plug, mo_descriptorSize,
                                                    mo_hw>>
    BY <1>2 DEF Mo!GetSerialNumber
  <2> HIDE DEF size
  <2>3. l \in Nat /\ l <= 3 * Mo!BufferSize
    BY <2>1
  <2> HIDE DEF l
  <2>. QED
    BY <2>2, <2>3, ArmStep
<1>3. CASE \E i \in 0..6 : Mo!GetReportDescriptor(i)
  <2>1. Mo!ArmSend(mo_descriptorSize) /\ mo_attached /\ UNCHANGED <<mo_attached, Mo!plug,
                                                                    mo_descriptorSize, mo_hw>>
    BY <1>3 DEF Mo!GetReportDescriptor
  <2>2. PICK k \in 0..MaxReports : mo_descriptorSize = k * ReportSize
    BY DEF ModInv, Counters
  <2>3. k * ReportSize \in Nat /\ k * ReportSize <= MaxReports * ReportSize
    OBVIOUS
  <2>4. mo_descriptorSize \in Nat /\ mo_descriptorSize <= 3 * Mo!BufferSize
    BY <2>2, <2>3 DEF ReportsFit, Mo!BufferSize
  <2>. QED
    BY <2>1, <2>4, ArmStep
<1>. QED
  BY <1>1, <1>2, <1>3

\* So do a module that sends and a host that takes: not from the first two endpoints.
LEMMA ModulePacketStep ==
  ASSUME ModInv, NEW e \in Mo!Endpoints, Mo!Sends(e) \/ Mo!HostTakes(e)
  PROVE  ModInv'
<1>1. /\ UNCHANGED Mo!plug
      /\ UNCHANGED <<mo_attached, mo_hw, mo_nodes, mo_lastEp, mo_EndPoints, mo_pluggedEndpoint>>
  BY DEF Mo!Sends, Mo!HostTakes, Mo!plug
<1>2. \E k \in 0..MaxReports : mo_descriptorSize' = k * ReportSize
  BY DEF ModInv, Counters, Mo!Sends, Mo!HostTakes
<1>3. AllConfigured'
  BY <1>1 DEF ModInv, AllConfigured
<1>4. /\ mo_packet \in [Mo!Endpoints -> {"none", "own", "spilled"}]
      /\ mo_packet' = [mo_packet EXCEPT ![e] = "own"]
             \/ mo_packet' = [mo_packet EXCEPT ![e] = "none"]
  BY DEF ModInv, FirstBuffers, Mo!Sends, Mo!HostTakes
<1>5. ~mo_attached => \A f \in Mo!Endpoints : mo_packet[f] = "none" /\ mo_hw[f] = "none"
  BY DEF ModInv, FirstBuffers, AllConfigured
<1>6. ASSUME mo_nodes # <<>>, mo_nodes[1] = "cdc"
      PROVE  /\ mo_packet'[1] = "none" /\ mo_packet'[2] = "none"
             /\ \A f \in Mo!Endpoints : mo_packet'[f] # "spilled"
  <2>1. /\ mo_pluggedEndpoint["cdc"] = 1 /\ mo_packet[1] = "none" /\ mo_packet[2] = "none"
        /\ \A f \in Mo!Endpoints : mo_packet[f] # "spilled"
    BY <1>6 DEF ModInv, FirstBuffers
  <2>2. "cdc" \in Mo!Plugged
    <3>1. mo_nodes \in Seq(Modules)
      BY DEF ModInv, Counters
    <3>2. 1 \in 1..Len(mo_nodes)
      BY <1>6, <3>1
    <3>. QED
      BY <1>6, <3>1, <3>2 DEF Mo!Plugged, Mo!Range
  <2>3. mo_hw[2] \notin {"bulk in", "interrupt in"}
    <3> DEFINE t == <<"interrupt in", "bulk out", "bulk in">>
    <3>1. DOMAIN t = 1..3
      OBVIOUS
    <3>2. t[2] = "bulk out"
      OBVIOUS
    <3>3. Mo!endpointType("cdc") = t
      BY DEF Mo!endpointType
    <3> HIDE DEF t
    <3>4. 2 \in DOMAIN Mo!endpointType("cdc")
      BY <3>1, <3>3
    <3>5. \A k \in DOMAIN Mo!endpointType("cdc") :
            /\ mo_pluggedEndpoint["cdc"] + k - 1 \in 1..mo_lastEp - 1
            /\ mo_EndPoints[mo_pluggedEndpoint["cdc"] + k - 1] = Mo!endpointType("cdc")[k]
      BY <2>2 DEF ModInv, EndpointsShared
    <3>6. mo_pluggedEndpoint["cdc"] + 2 - 1 = 2
      BY <2>1
    <3>7. 2 \in 1..mo_lastEp - 1 /\ mo_EndPoints[2] = t[2]
      BY <3>3, <3>4, <3>5, <3>6
    <3>8. 2 \in Mo!Endpoints
      BY DEF Mo!Endpoints, Mo!totalEP
    <3>9. mo_hw[2] = "none" \/ mo_hw[2] = mo_EndPoints[2]
      BY <3>7, <3>8 DEF ModInv, AllConfigured
    <3>. QED
      BY <3>2, <3>7, <3>9
  <2>4. CASE Mo!Sends(e)
    <3>1. e # 1 /\ e # 2 /\ mo_packet' = [mo_packet EXCEPT ![e] = "own"]
      BY <2>1, <2>3, <2>4 DEF Mo!Sends
    <3>. QED
      BY <1>4, <2>1, <3>1 DEF Mo!Endpoints, Mo!totalEP
  <2>5. CASE Mo!HostTakes(e)
    <3>1. mo_packet' = [mo_packet EXCEPT ![e] = "none"]
      BY <2>5 DEF Mo!HostTakes
    <3>. QED
      BY <1>4, <2>1, <3>1 DEF Mo!Endpoints, Mo!totalEP
  <2>. QED
    BY <2>4, <2>5
<1>7. ~mo_attached' => \A f \in Mo!Endpoints : mo_packet'[f] = "none"
  <2> SUFFICES ASSUME ~mo_attached PROVE \A f \in Mo!Endpoints : mo_packet'[f] = "none"
    BY <1>1
  <2>1. mo_packet[e] = "none" /\ mo_hw[e] = "none"
    BY <1>5
  <2>. QED
    BY <2>1 DEF Mo!Sends, Mo!HostTakes
<1>8. mo_packet' \in [Mo!Endpoints -> {"none", "own", "spilled"}]
  BY <1>4
<1>9. FirstBuffers'
  BY <1>1, <1>6, <1>7, <1>8 DEF ModInv, FirstBuffers
<1>. QED
  BY <1>1, <1>2, <1>3, <1>9, PlugKept DEF ModInv

\* Every step keeps the invariant.
LEMMA ModStep ==
  ASSUME ReportSize \in Nat, MaxReports \in Nat, ReportsFit
  PROVE  ModInv /\ [Mo!Next]_Mo!vars => ModInv'
<1> SUFFICES ASSUME ModInv, [Mo!Next]_Mo!vars PROVE ModInv'
  OBVIOUS
<1>1. CASE UNCHANGED Mo!vars
  <2>1. UNCHANGED Mo!plug /\ UNCHANGED <<mo_attached, mo_descriptorSize, mo_hw, mo_packet,
                                         mo_nodes, mo_lastEp, mo_EndPoints, mo_pluggedEndpoint>>
    BY <1>1 DEF Mo!vars, Mo!plug
  <2>2. \E k \in 0..MaxReports : mo_descriptorSize' = k * ReportSize
    BY <2>1 DEF ModInv, Counters
  <2>3. AllConfigured' /\ FirstBuffers'
    BY <2>1 DEF ModInv, AllConfigured, FirstBuffers
  <2>. QED
    BY <2>1, <2>2, <2>3, PlugKept DEF ModInv
<1>. QED
  BY <1>1, PlugStep, AppendDescriptorStep, AttachStep, AnswerStep, ConfigureModulesStep,
     ModulePacketStep
     DEF Mo!Next

\* The invariant gives what the host is told, and that nothing is rewritten.
LEMMA ModGives ==
  ASSUME ReportSize \in Nat, MaxReports \in Nat, ReportsFit, ModInv
  PROVE  Mo!TypeOK /\ Mo!DescribedAsIs /\ Mo!NothingSpilled
<1>1. Mo!NothingSpilled
  BY DEF ModInv, FirstBuffers, Mo!NothingSpilled
<1>2. Mo!DescribedAsIs
  <2>1. \A m, n \in Mo!Plugged : m # n => Mo!Interfaces(m) \cap Mo!Interfaces(n) = {}
    BY DEF ModInv, InterfacesShared
  <2>2. UNION {Mo!Interfaces(m) : m \in Mo!Plugged} = 0..Mo!Counted - 1
    <3>1. mo_lastIf = Mo!Counted /\ Mo!Plugged \subseteq Modules
      BY DEF ModInv, Counters, Mo!Plugged, Mo!Range
    <3>2. \A m \in Mo!Plugged : \A i \in Mo!Interfaces(m) : i \in Int
      <4>1. \A m \in Mo!Plugged : mo_pluggedInterface[m] \in Nat /\ Mo!numInterfaces[m] \in Nat
        BY <3>1, ModuleSizes DEF ModInv, InterfacesShared
      <4>2. \A j \in Nat, k \in Nat : \A i \in j..j + k - 1 : i \in Int
        OBVIOUS
      <4>. QED
        BY <4>1, <4>2 DEF Mo!Interfaces
    <3>3. \A i \in Int : (\E m \in Mo!Plugged : i \in Mo!Interfaces(m)) <=> i \in 0..Mo!Counted - 1
      BY <3>1 DEF ModInv, InterfacesShared
    <3>4. \A i \in 0..Mo!Counted - 1 : i \in Int
      BY SumsAreSmall
    <3>. QED
      BY <3>2, <3>3, <3>4
  <2>3. ASSUME \E e \in Mo!Endpoints : mo_hw[e] # "none",
               NEW m \in Mo!Plugged, NEW k \in DOMAIN Mo!endpointType(m)
        PROVE  mo_hw[mo_pluggedEndpoint[m] + k - 1] = Mo!endpointType(m)[k]
    BY <2>3 DEF ModInv, EndpointsShared, AllConfigured
  <2>. QED
    BY <2>1, <2>2, <2>3 DEF Mo!DescribedAsIs
<1>3. Mo!TypeOK
  <2>1. /\ mo_nodes \in Seq(Modules) /\ Len(mo_nodes) = Cardinality(Mo!Plugged)
        /\ mo_lastIf = Mo!Counted
        /\ mo_lastEp \in 1..Mo!totalEP
    BY DEF ModInv, Counters
  <2>2. Mo!Plugged \subseteq Modules
    BY <2>1 DEF Mo!Plugged, Mo!Range
  <2>3. PICK k \in 0..MaxReports : mo_descriptorSize = k * ReportSize
    BY DEF ModInv, Counters
  <2>4. k * ReportSize \in Nat /\ k * ReportSize <= MaxReports * ReportSize
    OBVIOUS
  <2>5. mo_descriptorSize \in 0..Mo!PackSize
    BY <2>3, <2>4 DEF ReportsFit, Mo!BufferSize, Mo!PackSize
  <2>6. Mo!ConfigSize + Mo!Described <= Mo!PackSize /\ mo_lastIf \in Nat
    BY <2>1, SumsAreSmall DEF Mo!ConfigSize, Mo!BufferSize, Mo!PackSize
  <2>7. Len(mo_nodes) = Mo!Cardinality(Mo!Plugged)
    <3>1. Mo!Cardinality(Mo!Plugged) = Cardinality(Mo!Plugged)
      BY DEF Cardinality, Mo!Cardinality
    <3>. QED
      BY <2>1, <3>1
  <2>. QED
    BY <2>1, <2>2, <2>5, <2>6, <2>7
       DEF ModInv, EndpointsShared, AllConfigured, FirstBuffers, Mo!TypeOK
<1>. QED
  BY <1>1, <1>2, <1>3

\* The inductive invariant of the modules of a composite device (PluggableUSB.cpp, USBCore.cpp).
THEOREM ModulesInvariance == ASSUME ReportsFit PROVE Mo!Spec => []ModInv
<1>1. "cdc" \in Modules /\ ReportSize \in Nat /\ MaxReports \in Nat
  BY DeviceAssumption DEF Mo!ModulesAssumption
<1>. QED
  BY <1>1, ModStart, ModStep, PTL DEF Mo!Spec

\* The counters of PluggableUSB_ stay in their ranges, and the configuration fits the buffer
\* in which it is put together, for every list of modules.
THEOREM ModulesTyped == ASSUME ReportsFit PROVE Mo!Spec => []Mo!TypeOK
<1>1. ReportSize \in Nat /\ MaxReports \in Nat
  BY DeviceAssumption DEF Mo!ModulesAssumption
<1>2. ModInv => Mo!TypeOK
  BY <1>1, ModGives
<1>. QED
  BY <1>2, ModulesInvariance, PTL

\* For every set of modules with the serial port, in every order of their constructors: the
\* interfaces are numbered as the descriptors say, each endpoint gets the type that its module
\* declared, and no answer rewrites a packet if the serial port was plugged first and the report
\* descriptors fit.
THEOREM ModulesAgreeWithHost == ASSUME ReportsFit PROVE Mo!Spec => []ModulesAgree
<1>1. ReportSize \in Nat /\ MaxReports \in Nat
  BY DeviceAssumption DEF Mo!ModulesAssumption
<1>2. ModInv => ModulesAgree
  BY <1>1, ModGives DEF ModulesAgree
<1>. QED
  BY <1>2, ModulesInvariance, PTL

\* Together: no register and no variable of the USB device leaves its type, for every size, bound
\* and set of modules, when the host configures between two calls of the sketch.
THEOREM DeviceTypes ==
  ASSUME CallsDone, ReportsFit
  PROVE  RSpec /\ Control!Spec /\ In!Spec /\ Se!Spec /\ Mo!Spec => []TypesOK
<1>1. RSpec => []TypeOK
  <2>1. IInv => TypeOK
    BY DEF IInv
  <2>. QED
    BY <2>1, ReconfigurationInvariance, PTL
<1>2. TypeOK /\ Control!TypeOK /\ In!TypeOK /\ Se!TypeOK /\ Mo!TypeOK => TypesOK
  BY DEF TypesOK
<1>. QED
  BY <1>1, <1>2, ControlTypes, SendingTyped, SerialTyped, ModulesTyped, PTL
=============================================================================
