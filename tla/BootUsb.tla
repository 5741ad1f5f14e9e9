------------------------------- MODULE BootUsb -------------------------------
(***************************************************************************)
(* The USB port of the bootloader (sam_ba_usb.c, board_driver_usb.c,       *)
(* sam_ba_cdc.c): no interrupts, one loop that looks for a bus reset, then *)
(* for a request, then for a packet, and that waits without a timeout for  *)
(* the host to take what it sends.  Descriptors and data toggles are left  *)
(* out; the monitor is any program that answers each packet with one.      *)
(***************************************************************************)
EXTENDS Integers, Sequences

CONSTANTS
  Addresses,                          \* that the host gives out
  MaxRequests, MaxResets, MaxPackets  \* bounds: what the host does

BootUsbAssumption ==
  Addresses \subseteq Nat \ {0} /\ {MaxRequests, MaxResets, MaxPackets} \subseteq Nat

USB_EP_IN == 1
USB_EP_OUT == 2
None == -1

VARIABLES
  hostAddress, hostConfiguration, request,   \* of the host; the request it waits for
  requests, resets, sent, answers,           \* its counts, and what it read
  EORST, RXSTP, DADD, STALLRQ,
  ep0, TRCPT1,                               \* endpoint 0: what waits to be taken; taken
  stalled,                                   \* endpoint 0 refuses the request
  open, BK0RDY, TRCPT0, packet,              \* the endpoints have types; the OUT endpoint
  ep1, taken1,                               \* the IN endpoint, as endpoint 0
  pc, served, currentConfiguration, read_job,
  orphaned  \* history: the endpoint was configured again while a read had it waiting

host   == <<hostAddress, hostConfiguration, request, requests, resets, sent, answers>>
bus    == <<EORST, RXSTP, DADD, STALLRQ>>
ctrl   == <<ep0, TRCPT1, stalled>>
out    == <<open, BK0RDY, TRCPT0, packet>>
inp    == <<ep1, taken1>>
device == <<pc, served, currentConfiguration, read_job, orphaned>>
vars   == <<host, bus, ctrl, out, inp, device>>

NoRequest == [kind |-> "none", arg |-> 0]
Requests ==
  [kind : {"SET_ADDRESS"}, arg : Addresses] \cup [kind : {"SET_CONFIGURATION"}, arg : {0, 1}] \cup
  [kind : {"GET_STATUS", "SET_FEATURE", "CLEAR_FEATURE"}, arg : {USB_EP_IN, USB_EP_OUT}] \cup
  [kind : {"GET_CONFIGURATION", "SET_INTERFACE"}, arg : {0}]

Init ==
  /\ hostAddress = 0 /\ hostConfiguration = 0 /\ request = NoRequest
  /\ requests = 0 /\ resets = 0 /\ sent = 0 /\ answers = <<>>
  /\ EORST = FALSE /\ RXSTP = FALSE /\ DADD = 0 /\ STALLRQ = {}
  /\ ep0 = None /\ TRCPT1 = FALSE /\ stalled = FALSE
  /\ open = FALSE /\ BK0RDY = FALSE /\ TRCPT0 = FALSE /\ packet = None
  /\ ep1 = None /\ taken1 = FALSE
  /\ pc = "poll" /\ served = NoRequest /\ currentConfiguration = 0
  /\ read_job = FALSE /\ orphaned = FALSE

-----------------------------------------------------------------------------
(* USB_IsConfigured() and sam_ba_usb_CDC_Enumerate().                      *)

\* Faulty variant: the reset leaves the configuration.
KeptAtReset(c) == c

AtReset(c) == 0

EndOfReset ==
  /\ pc = "poll" /\ EORST
  /\ EORST' = FALSE /\ DADD' = 0 /\ ep0' = None
  /\ currentConfiguration' = AtReset(currentConfiguration)
  /\ UNCHANGED <<host, RXSTP, STALLRQ, TRCPT1, stalled, out, inp, pc, served, read_job, orphaned>>

\* USB_Write() on endpoint 0 and USB_SendZlp(), up to the wait.
Answer(value) == ep0' = value /\ TRCPT1' = FALSE /\ pc' = "wait0" /\ UNCHANGED stalled

\* After the request the same call goes on to USB_Read().
AfterRequest == IF currentConfiguration # 0 THEN "read" ELSE "poll"

Refuse == stalled' = TRUE /\ pc' = AfterRequest /\ UNCHANGED <<ep0, TRCPT1>>

\* The direction is tested with 80 in place of 0x80, so it is OUT for every endpoint.
Status(e) == IF e = USB_EP_OUT /\ USB_EP_OUT \in STALLRQ THEN 1 ELSE 0

Enumerate ==
  /\ pc = "poll" /\ ~EORST /\ RXSTP
  /\ RXSTP' = FALSE /\ served' = request
  /\ CASE request.kind = "GET_CONFIGURATION" -> Answer(currentConfiguration)
       [] request.kind = "GET_STATUS"        -> Answer(Status(request.arg))
       [] request.kind = "SET_INTERFACE"     -> Refuse
       [] OTHER                              -> Answer(0)
  /\ STALLRQ' = CASE request.kind = "SET_FEATURE"   -> STALLRQ \cup {request.arg}
                  [] request.kind = "CLEAR_FEATURE" -> STALLRQ \ {request.arg}
                  [] OTHER                          -> STALLRQ
  /\ currentConfiguration' =
       IF request.kind = "SET_CONFIGURATION" THEN request.arg ELSE currentConfiguration
  /\ UNCHANGED <<host, EORST, DADD, out, inp, read_job, orphaned>>

\* The wait is over: USB_SetAddress() and USB_Configure() come after it.
Taken ==
  /\ pc = "wait0" /\ TRCPT1 /\ pc' = AfterRequest
  /\ DADD' = IF served.kind = "SET_ADDRESS" THEN served.arg ELSE DADD
  /\ IF served.kind = "SET_CONFIGURATION"
     THEN /\ open' = TRUE /\ BK0RDY' = TRUE /\ ep1' = None
          /\ orphaned' = (orphaned \/ (read_job /\ ~TRCPT0))
     ELSE UNCHANGED <<open, BK0RDY, ep1, orphaned>>
  /\ UNCHANGED <<host, EORST, RXSTP, STALLRQ, ctrl, TRCPT0, packet, taken1>>
  /\ UNCHANGED <<served, currentConfiguration, read_job>>

\* Nothing to do for the control endpoint.
Poll ==
  /\ pc = "poll" /\ ~EORST /\ ~RXSTP /\ currentConfiguration # 0
  /\ pc' = "read"
  /\ UNCHANGED <<host, bus, ctrl, out, inp, served, currentConfiguration, read_job, orphaned>>

-----------------------------------------------------------------------------
(* USB_Read() and the monitor's USB_Write().                               *)

\* Without a job the endpoint is opened for a packet; with one that has come, the packet is
\* copied and answered.
Read ==
  /\ pc = "read"
  /\ IF TRCPT0
     THEN /\ TRCPT0' = FALSE /\ read_job' = FALSE
          /\ ep1' = packet /\ taken1' = FALSE /\ pc' = "wait1"
     ELSE read_job' = TRUE /\ pc' = "poll" /\ UNCHANGED <<TRCPT0, inp>>
  /\ BK0RDY' = (read_job /\ BK0RDY)
  /\ UNCHANGED <<host, bus, ctrl, open, packet, served, currentConfiguration, orphaned>>

Answered ==
  /\ pc = "wait1" /\ taken1 /\ pc' = "poll"
  /\ UNCHANGED <<host, bus, ctrl, out, inp, served, currentConfiguration, read_job, orphaned>>

Device == EndOfReset \/ Enumerate \/ Taken \/ Poll \/ Read \/ Answered

-----------------------------------------------------------------------------
(* The host: one request at a time, and one packet at a time, each with    *)
(* its answer.  It resets the bus, and halts an endpoint, while no answer  *)
(* is under way: the waits have no way out.                                *)

Outstanding == Len(answers) < sent

HostReset ==
  /\ request = NoRequest /\ ~Outstanding /\ ~stalled /\ resets < MaxResets
  /\ resets' = resets + 1 /\ EORST' = TRUE /\ open' = FALSE
  /\ hostAddress' = 0 /\ hostConfiguration' = 0
  /\ UNCHANGED <<request, requests, sent, answers, RXSTP, DADD, STALLRQ, ctrl, inp, device>>
  /\ UNCHANGED <<BK0RDY, TRCPT0, packet>>

HostRequest(r) ==
  /\ request = NoRequest /\ requests < MaxRequests /\ DADD = hostAddress
  /\ r.kind = "SET_FEATURE" => ~Outstanding
  /\ requests' = requests + 1 /\ request' = r /\ RXSTP' = TRUE /\ stalled' = FALSE
  /\ UNCHANGED <<hostAddress, hostConfiguration, resets, sent, answers>>
  /\ UNCHANGED <<EORST, DADD, STALLRQ, ep0, TRCPT1, out, inp, device>>

\* The answer is taken from the address the host has asked at.
HostTakes ==
  /\ request # NoRequest /\ ~RXSTP /\ ep0 # None /\ DADD = hostAddress
  /\ ep0' = None /\ TRCPT1' = TRUE /\ request' = NoRequest
  /\ hostAddress' = IF request.kind = "SET_ADDRESS" THEN request.arg ELSE hostAddress
  /\ hostConfiguration' =
       IF request.kind = "SET_CONFIGURATION" THEN request.arg ELSE hostConfiguration
  /\ UNCHANGED <<requests, resets, sent, answers, bus, stalled, out, inp, device>>

HostRefused ==
  /\ request # NoRequest /\ stalled /\ request' = NoRequest /\ stalled' = FALSE
  /\ UNCHANGED <<hostAddress, hostConfiguration, requests, resets, sent, answers>>
  /\ UNCHANGED <<bus, ep0, TRCPT1, out, inp, device>>

\* The host talks to a configured device, with no halted endpoint.
Talks == hostConfiguration = 1 /\ STALLRQ = {} /\ ~EORST

HostSends ==
  /\ Talks /\ ~Outstanding /\ sent < MaxPackets /\ request.kind # "SET_FEATURE"
  /\ open /\ ~BK0RDY
  /\ sent' = sent + 1 /\ packet' = sent' /\ BK0RDY' = TRUE /\ TRCPT0' = TRUE
  /\ UNCHANGED <<hostAddress, hostConfiguration, request, requests, resets, answers>>
  /\ UNCHANGED <<bus, ctrl, open, inp, device>>

HostReads ==
  /\ open /\ ep1 # None /\ USB_EP_IN \notin STALLRQ
  /\ answers' = Append(answers, ep1) /\ ep1' = None /\ taken1' = TRUE
  /\ UNCHANGED <<hostAddress, hostConfiguration, request, requests, resets, sent>>
  /\ UNCHANGED <<bus, ctrl, out, device>>

Next ==
  \/ Device \/ HostReset \/ HostTakes \/ HostRefused \/ HostSends \/ HostReads
  \/ \E r \in Requests : HostRequest(r)

\* The loop runs, and the host asks for the answers it waits for.
Spec ==
  /\ Init /\ [][Next]_vars /\ WF_vars(Device)
  /\ WF_vars(HostTakes \/ HostRefused) /\ WF_vars(HostSends) /\ WF_vars(HostReads)

-----------------------------------------------------------------------------
TypeOK ==
  /\ hostAddress \in Addresses \cup {0} /\ DADD \in Addresses \cup {0}
  /\ request \in Requests \cup {NoRequest} /\ served \in Requests \cup {NoRequest}
  /\ STALLRQ \subseteq {USB_EP_IN, USB_EP_OUT}
  /\ {hostConfiguration, currentConfiguration} \subseteq {0, 1}
  /\ pc \in {"poll", "wait0", "read", "wait1"} /\ sent \in 0..MaxPackets
  /\ {EORST, RXSTP, TRCPT1, stalled, open, BK0RDY, TRCPT0, taken1, read_job} \subseteq BOOLEAN

\* Between the requests the host and the device have the same address and the same
\* configuration, through bus resets wherever they come, and a halted OUT endpoint is reported.
HostAndDeviceAgree ==
  /\ request = NoRequest /\ ~EORST /\ pc # "wait0" =>
       DADD = hostAddress /\ currentConfiguration = hostConfiguration
  /\ request = [kind |-> "GET_STATUS", arg |-> USB_EP_OUT] /\ ~RXSTP /\ ep0 # None =>
       ep0 = IF USB_EP_OUT \in STALLRQ THEN 1 ELSE 0

\* The host's packets are answered once and in their order.
AnsweredInOrder == answers = [i \in 1..Len(answers) |-> i] /\ Len(answers) <= sent

\* Every request ends.
RequestsEnd == request # NoRequest ~> request = NoRequest

\* A host that talks to the device for ever has all its packets answered, unless it configured
\* the device again while USB_Read() had the endpoint open: USB_Configure() closes it, and
\* read_job says that it is still open.
PacketsAnswered == <>[](Talks /\ request = NoRequest) => <>(Len(answers) = MaxPackets \/ orphaned)
=============================================================================
