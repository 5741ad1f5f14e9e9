----------------------------- MODULE UsbControl -----------------------------
(***************************************************************************)
(* The control endpoint: USBDeviceClass::ISRHandler() and what it calls    *)
(* (cores/arduino/USB/USBCore.cpp), with the requests of the serial port   *)
(* (CDC.cpp).  Two requests wait for the host inside the interrupt:        *)
(* SET_ADDRESS for its status stage, SET_LINE_CODING for its data stage.   *)
(* They wait for flags that earlier transfers may have left set, because   *)
(* the handler acknowledges them only when it runs.  The host is slower    *)
(* than the instructions from the last epBank1SetReady() to the end of the *)
(* handler, and does not give a transfer up while the handler waits.       *)
(***************************************************************************)
EXTENDS Integers

CONSTANTS Addresses, Configurations, MaxRequests, MaxResets  \* values of the host; bounds

ControlAssumption ==
  /\ Addresses \cup Configurations \subseteq Nat \ {0} /\ {MaxRequests, MaxResets} \subseteq Nat

VARIABLES
  DADD, _usbConfiguration,
  EORST, SOF, RXSTP,        \* interrupt flags
  TRCPT0, TRCPT1,           \* transfer complete: flags without an interrupt
  BK0RDY, BK1RDY, STALLRQ1, \* the OUT bank holds a packet, the IN bank is ready, refuses
  BYTE_COUNT,               \* bytes of the IN bank
  pc,                       \* the handler: "idle", "setAddress" or "recvControl"
  setup,                    \* the request in the buffer
  stage,                    \* the host: "idle", "in", "out", "statusIn" or "statusOut"
  known,                    \* the address and configuration the host has been told of
  gotData,                  \* history: the data stage of this request has come
  requests, resets

flags  == <<EORST, SOF, RXSTP, TRCPT0, TRCPT1>>
bank   == <<BK0RDY, BK1RDY, STALLRQ1, BYTE_COUNT>>
device == <<DADD, _usbConfiguration>>
host   == <<stage, known, gotData, requests, resets>>
vars   == <<flags, bank, device, pc, setup, host>>

Reads == {"GET_STATUS", "GET_DESCRIPTOR", "GET_CONFIGURATION", "GET_INTERFACE",
          "CDC_GET_LINE_CODING"}
Refused == {"GET_DESCRIPTOR_unknown", "SET_DESCRIPTOR", "SET_CONFIGURATION_interface",
            "unknown_class"}
Empty == {"ENDPOINTHALT", "SET_INTERFACE", "CDC_SET_CONTROL_LINE_STATE", "CDC_SEND_BREAK"}

\* What falls through to a `return true` that arms nothing: another feature, a standard request
\* without a case (with or without data for the host), and another class request to the port.
Unhandled == {"SET_FEATURE_other", "unknown_standard", "unknown_standard_read", "CDC_other"}

\* The host expects data.
WantsData == Reads \cup {"GET_DESCRIPTOR_unknown", "unknown_standard_read"}

Requests ==
  [name : Reads \cup Refused \cup Empty \cup Unhandled
            \cup {"DEVICEREMOTEWAKEUP", "CDC_SET_LINE_CODING"},
   value : {0}]
    \cup [name : {"SET_ADDRESS"}, value : Addresses]
    \cup [name : {"SET_CONFIGURATION"}, value : Configurations \cup {0}]

Init ==
  /\ DADD = 0 /\ _usbConfiguration = 0
  /\ EORST = TRUE /\ SOF = FALSE /\ RXSTP = FALSE /\ TRCPT0 = FALSE /\ TRCPT1 = FALSE
  /\ BK0RDY = FALSE /\ BK1RDY = FALSE /\ STALLRQ1 = FALSE /\ BYTE_COUNT = 0
  /\ pc = "idle" /\ setup = [name |-> "GET_STATUS", value |-> 0]
  /\ stage = "idle" /\ known = [address |-> 0, configuration |-> 0] /\ gotData = FALSE
  /\ requests = 0 /\ resets = 0

-----------------------------------------------------------------------------
(* The host and the peripheral (external).  A SETUP packet is always taken *)
(* and takes back the answer of the transfer before it.                    *)

HostSetup(r) ==
  /\ stage = "idle" /\ requests < MaxRequests /\ requests' = requests + 1
  /\ ~EORST /\ ~RXSTP
  /\ setup' = r /\ RXSTP' = TRUE /\ BK0RDY' = TRUE /\ BK1RDY' = FALSE /\ STALLRQ1' = FALSE
  /\ stage' = CASE r.name \in WantsData -> "in"
                [] r.name = "CDC_SET_LINE_CODING" -> "out"
                [] OTHER -> "statusIn"
  /\ gotData' = FALSE
  /\ UNCHANGED <<EORST, SOF, TRCPT0, TRCPT1, BYTE_COUNT, device, pc, known, resets>>

\* Whatever the bank holds goes to the host: the data of a read, or the status stage.
HostReadsIn ==
  /\ stage \in {"in", "statusIn"} /\ BK1RDY
  /\ BK1RDY' = FALSE /\ TRCPT1' = TRUE
  /\ stage' = IF stage = "in" THEN "statusOut" ELSE "idle"
  /\ known' = IF stage = "in" \/ BYTE_COUNT # 0 THEN known
              ELSE CASE setup.name = "SET_ADDRESS" -> [known EXCEPT !.address = setup.value]
                     [] setup.name = "SET_CONFIGURATION" ->
                          [known EXCEPT !.configuration = setup.value]
                     [] OTHER -> known
  /\ UNCHANGED <<EORST, SOF, RXSTP, TRCPT0, BK0RDY, STALLRQ1, BYTE_COUNT, device, pc, setup,
                 gotData, requests, resets>>

\* The data of a write, or the empty packet that ends a read.
HostWritesOut ==
  /\ stage \in {"out", "statusOut"} /\ ~BK0RDY
  /\ BK0RDY' = TRUE /\ TRCPT0' = TRUE
  /\ gotData' = (stage = "out")
  /\ stage' = IF stage = "out" THEN "statusIn" ELSE "idle"
  /\ UNCHANGED <<EORST, SOF, RXSTP, TRCPT1, BK1RDY, STALLRQ1, BYTE_COUNT, device, pc, setup, known,
                 requests, resets>>

HostSeesStall ==
  /\ stage # "idle" /\ STALLRQ1
  /\ stage' = "idle"
  /\ UNCHANGED <<flags, bank, device, pc, setup, known, gotData, requests, resets>>

HostSendsSof ==
  /\ pc = "idle" /\ ~SOF /\ SOF' = TRUE
  /\ UNCHANGED <<EORST, RXSTP, TRCPT0, TRCPT1, bank, device, pc, setup, host>>

BusReset ==
  /\ pc = "idle" /\ resets < MaxResets /\ resets' = resets + 1
  /\ EORST' = TRUE /\ RXSTP' = FALSE /\ TRCPT0' = FALSE /\ TRCPT1' = FALSE
  /\ BK0RDY' = FALSE /\ BK1RDY' = FALSE /\ STALLRQ1' = FALSE
  /\ DADD' = 0
  /\ stage' = "idle" /\ known' = [address |-> 0, configuration |-> 0]
  /\ UNCHANGED <<SOF, BYTE_COUNT, _usbConfiguration, pc, setup, gotData, requests>>

-----------------------------------------------------------------------------
(* ISRHandler().                                                           *)

\* The end: epBank1SetReady(0) or stall(0), and epAckPendingInterrupts(0).
AckPending == RXSTP' = FALSE /\ TRCPT0' = FALSE /\ TRCPT1' = FALSE

Answer(ok, count) ==
  /\ BYTE_COUNT' = count
  /\ BK1RDY' = ok /\ STALLRQ1' = ~ok
  /\ pc' = "idle" /\ AckPending

\* The part before the request: end of reset, start of frame.
NoReset == _usbConfiguration     \* mutant: the configuration survives a bus reset
AfterReset == IF EORST THEN 0 ELSE _usbConfiguration
Housekeeping == EORST' = FALSE /\ SOF' = FALSE

KeepOut == UNCHANGED BK0RDY       \* mutant: bank 0 is not given back
ReleaseOut == BK0RDY' = FALSE

IsrWithoutSetup ==
  /\ pc = "idle" /\ (EORST \/ SOF) /\ ~RXSTP
  /\ Housekeeping /\ AckPending
  /\ _usbConfiguration' = AfterReset
  /\ UNCHANGED <<bank, DADD, pc, setup, host>>

\* The SETUP packet is read and bank 0 is given back before the request is looked at.
IsrSetup(r) ==
  /\ pc = "idle" /\ RXSTP /\ setup = r
  /\ Housekeeping /\ ReleaseOut
  /\ UNCHANGED <<DADD, setup, host>>

\* armSend() for a read; sendZlp() for a request without data, and in handleClassInterfaceSetup()
\* before a refusal; no other request sets the count, which stays what the answer before left.
\* The remote wake-up requests arm data bytes.
CountFor(name) ==
  CASE name \in Reads \cup {"DEVICEREMOTEWAKEUP"} -> 1
    [] name \in Empty \cup {"SET_CONFIGURATION", "unknown_class"} -> 0
    [] OTHER -> BYTE_COUNT

Serve(r) ==
  /\ r.name \notin {"SET_ADDRESS", "CDC_SET_LINE_CODING"}
  /\ IsrSetup(r)
  /\ _usbConfiguration' = IF r.name = "SET_CONFIGURATION" THEN r.value ELSE AfterReset
  /\ Answer(r.name \notin Refused, CountFor(r.name))

\* setAddress(): an empty packet of its own, the flag acknowledged, and the wait.
AckTransferComplete == TRCPT1' = FALSE

SetAddress(r) ==
  /\ r.name = "SET_ADDRESS"
  /\ IsrSetup(r)
  /\ BYTE_COUNT' = 0 /\ BK1RDY' = TRUE /\ AckTransferComplete
  /\ pc' = "setAddress"
  /\ _usbConfiguration' = AfterReset
  /\ UNCHANGED <<RXSTP, TRCPT0, STALLRQ1>>

\* The address is taken, and handleStandardSetup() answers once more.
AddressIsSet ==
  /\ pc = "setAddress" /\ TRCPT1
  /\ DADD' = setup.value
  /\ Answer(TRUE, 0)
  /\ UNCHANGED <<EORST, SOF, BK0RDY, _usbConfiguration, setup, host>>

\* recvControl(): bank 0 is released; armRecvCtrlOUT() waits for the bank and for the flag.
RecvControl(r) ==
  /\ r.name = "CDC_SET_LINE_CODING"
  /\ IsrSetup(r)
  /\ pc' = "recvControl"
  /\ _usbConfiguration' = AfterReset
  /\ UNCHANGED <<RXSTP, TRCPT0, TRCPT1, BK1RDY, STALLRQ1, BYTE_COUNT>>

FlagOnly == TRCPT0               \* mutant: the wait for the bank is missing
DataIsThere == BK0RDY /\ TRCPT0

DataReceived ==
  /\ pc = "recvControl" /\ DataIsThere
  /\ Answer(TRUE, 0)
  /\ UNCHANGED <<EORST, SOF, BK0RDY, device, setup, host>>

Isr ==
  \/ IsrWithoutSetup \/ AddressIsSet \/ DataReceived
  \/ Serve(setup) \/ SetAddress(setup) \/ RecvControl(setup)

Host == HostReadsIn \/ HostWritesOut \/ HostSeesStall

Next == Isr \/ Host \/ HostSendsSof \/ BusReset \/ \E r \in Requests : HostSetup(r)

\* The handler runs while a flag is set; the host goes on with a transfer, and sends a start
\* of frame every millisecond.
Fairness == WF_vars(Isr) /\ WF_vars(Host) /\ WF_vars(HostSendsSof)

Spec == Init /\ [][Next]_vars

FairSpec == Spec /\ Fairness

-----------------------------------------------------------------------------
TypeOK ==
  /\ {EORST, SOF, RXSTP, TRCPT0, TRCPT1, BK0RDY, BK1RDY, STALLRQ1, gotData} \subseteq BOOLEAN
  /\ DADD \in Addresses \cup {0} /\ _usbConfiguration \in Configurations \cup {0}
  /\ BYTE_COUNT \in 0..1 /\ ~(BK1RDY /\ STALLRQ1)
  /\ pc \in {"idle", "setAddress", "recvControl"} /\ setup \in Requests
  /\ stage \in {"idle", "in", "out", "statusIn", "statusOut"}
  /\ requests \in 0..MaxRequests /\ resets \in 0..MaxResets

\* The device takes a new address only when the host has seen the status stage of the request
\* under the old one (USBCore.cpp setAddress), and recvControl() returns only with the data
\* stage of its own request, whatever flags the transfers before have left.
WaitsAreForThisRequest ==
  [][/\ (DADD' # DADD /\ DADD' # 0) => known.address = DADD'
     /\ (pc = "recvControl" /\ pc' = "idle") => gotData]_vars

\* Between two requests the host and the device agree on the address and on the configuration,
\* also across bus resets at any moment the handler does not wait.
HostAndDeviceAgree ==
  (stage = "idle" /\ pc = "idle" /\ ~RXSTP /\ ~EORST) =>
    known = [address |-> DADD, configuration |-> _usbConfiguration]

\* Every request ends, answered or refused, and the handler does not wait for ever.
RequestsEnd == (stage # "idle" \/ pc # "idle") ~> (stage = "idle" /\ pc = "idle")
=============================================================================
