----------------------------- MODULE UsbModules -----------------------------
(***************************************************************************)
(* The modules of a composite device: PluggableUSB_ (api/PluggableUSB.cpp) *)
(* shares out interfaces and endpoints before the device is attached, the  *)
(* control endpoint describes them (USBCore.cpp sendConfiguration,         *)
(* sendDescriptor, sendControl, armSend) and sends their requests on to    *)
(* them (CDC.cpp, HID.cpp).  The descriptors are built twice, once to      *)
(* measure and once to send, and an answer longer than an endpoint's       *)
(* buffer runs on into the buffers of the endpoints after it.              *)
(***************************************************************************)
EXTENDS Integers, SequencesExt

CONSTANTS
  Modules,     \* the modules of the program
  ReportSize,  \* bytes of a report descriptor of the HID
  MaxReports   \* bound: report descriptors

\* What the constructors say of themselves.  "cdc" is Serial_, "hid" is HID_; the others are
\* modules with an interface and two endpoints that a program brings along.
numInterfaces == [m \in Modules |-> IF m = "cdc" THEN 2 ELSE 1]
endpointType(m) ==
  CASE m = "cdc" -> <<"interrupt in", "bulk out", "bulk in">>
    [] m = "hid" -> <<"interrupt in">>
    [] OTHER     -> <<"bulk out", "bulk in">>
DescriptorSize == [m \in Modules |-> CASE m = "cdc" -> 66 [] m = "hid" -> 25 [] OTHER -> 23]
ShortName == [m \in Modules |-> CASE m = "cdc" -> 32 [] m = "hid" -> 5 [] OTHER -> 1]

totalEP == 7
BufferSize == 64      \* of an endpoint, in udd_ep_in_cache_buffer
PackSize == 256       \* of _pack_buffer
ConfigSize == 9       \* sizeof(ConfigDescriptor)

ModulesAssumption == "cdc" \in Modules /\ {ReportSize, MaxReports} \subseteq Nat

VARIABLES
  attached,
  nodes,             \* the list from rootNode
  lastIf, lastEp,
  pluggedInterface, pluggedEndpoint,
  EndPoints,         \* the types that SET_CONFIGURATION goes through; "none" is 0
  descriptorSize,    \* of the HID
  hw,                \* the types the endpoints are configured with
  packet             \* what the buffer of an IN endpoint holds: "none", "own", "spilled"

plug == <<nodes, lastIf, lastEp, pluggedInterface, pluggedEndpoint, EndPoints>>
vars == <<attached, plug, descriptorSize, hw, packet>>

Endpoints == 1..totalEP - 1
Plugged == Range(nodes)

Init ==
  /\ attached = FALSE /\ nodes = <<>> /\ lastIf = 0 /\ lastEp = 1
  /\ pluggedInterface = [m \in Modules |-> 0] /\ pluggedEndpoint = [m \in Modules |-> 0]
  /\ EndPoints = [i \in 1..9 |-> "none"] /\ descriptorSize = 0
  /\ hw = [e \in Endpoints |-> "none"] /\ packet = [e \in Endpoints |-> "none"]

-----------------------------------------------------------------------------
(* The constructors of the program, in the order of the linker. *)

\* Faulty variant: every module is given one interface.
OneInterface(m) == lastIf + 1

NextInterface(m) == lastIf + numInterfaces[m]

Plug(m) ==
  LET n == Len(endpointType(m)) IN
  /\ ~attached /\ m \notin Plugged
  /\ lastEp + n <= totalEP
  /\ nodes' = Append(nodes, m)
  /\ pluggedInterface' = [pluggedInterface EXCEPT ![m] = lastIf]
  /\ pluggedEndpoint' = [pluggedEndpoint EXCEPT ![m] = lastEp]
  /\ lastIf' = NextInterface(m) /\ lastEp' = lastEp + n
  /\ EndPoints' = [i \in 1..9 |->
       IF i \in lastEp..lastEp + n - 1 THEN endpointType(m)[i - lastEp + 1] ELSE EndPoints[i]]
  /\ UNCHANGED <<attached, descriptorSize, hw, packet>>

AppendDescriptor ==
  /\ ~attached /\ "hid" \in Modules /\ descriptorSize < MaxReports * ReportSize
  /\ descriptorSize' = descriptorSize + ReportSize
  /\ UNCHANGED <<attached, plug, hw, packet>>

Attach ==
  /\ ~attached /\ "cdc" \in Plugged /\ attached' = TRUE
  /\ UNCHANGED <<plug, descriptorSize, hw, packet>>

-----------------------------------------------------------------------------
(* The requests of the host. *)

\* armSend(): the answer is copied to the buffer of endpoint 0, over what the buffers after it
\* hold if it is longer.
ArmSend(length) ==
  packet' = [e \in Endpoints |->
    IF e * BufferSize < length /\ packet[e] # "none" THEN "spilled" ELSE packet[e]]

\* getInterface() of every module, in the order of the list: bytes and interfaces.
Total(size) == FoldLeft(LAMBDA n, m : n + size[m], 0, nodes)
Described == Total(DescriptorSize)
Counted == Total(numInterfaces)

\* sendConfiguration(): the interfaces are measured, and sent unless only the header was asked
\* for.
GetConfiguration(wLength) ==
  /\ attached
  /\ ArmSend(IF wLength = ConfigSize THEN ConfigSize ELSE ConfigSize + Described)
  /\ UNCHANGED <<attached, plug, descriptorSize, hw>>

\* The serial number: the names of the modules in two bytes each, no longer than asked for.
GetSerialNumber(wLength) ==
  /\ attached /\ wLength >= 2
  /\ LET size == 2 + 2 * Total(ShortName) IN
       ArmSend(IF size < wLength THEN size ELSE wLength)
  /\ UNCHANGED <<attached, plug, descriptorSize, hw>>

\* HID_::getDescriptor(), for the interface of the HID only.
GetReportDescriptor(i) ==
  /\ attached /\ "hid" \in Plugged /\ i = pluggedInterface["hid"]
  /\ ArmSend(descriptorSize)
  /\ UNCHANGED <<attached, plug, descriptorSize, hw>>

\* initEndpoints(): up to the first type that is 0.
SetConfiguration ==
  /\ attached
  /\ hw' = [e \in Endpoints |->
       IF \A i \in 1..e : EndPoints[i] # "none" THEN EndPoints[e] ELSE hw[e]]
  /\ UNCHANGED <<attached, plug, descriptorSize, packet>>

\* send() of a module to an IN endpoint of its own; the communication endpoint of the serial
\* port is never used.  The host takes the packet.
Sends(e) ==
  /\ hw[e] \in {"bulk in", "interrupt in"} /\ e # pluggedEndpoint["cdc"]
  /\ packet[e] = "none" /\ packet' = [packet EXCEPT ![e] = "own"]
  /\ UNCHANGED <<attached, plug, descriptorSize, hw>>

HostTakes(e) ==
  /\ packet[e] # "none" /\ packet' = [packet EXCEPT ![e] = "none"]
  /\ UNCHANGED <<attached, plug, descriptorSize, hw>>

Next ==
  \/ \E m \in Modules : Plug(m)
  \/ AppendDescriptor \/ Attach
  \/ \E n \in {ConfigSize, 255} : GetConfiguration(n)
  \/ GetSerialNumber(255)
  \/ \E i \in 0..6 : GetReportDescriptor(i)
  \/ SetConfiguration
  \/ \E e \in Endpoints : Sends(e) \/ HostTakes(e)

Spec == Init /\ [][Next]_vars

-----------------------------------------------------------------------------
TypeOK ==
  /\ attached \in BOOLEAN /\ Plugged \subseteq Modules /\ Len(nodes) = Cardinality(Plugged)
  /\ lastIf \in Nat /\ lastEp \in 1..totalEP /\ descriptorSize \in 0..PackSize
  /\ DOMAIN EndPoints = 1..9 /\ DOMAIN hw = Endpoints
  /\ packet \in [Endpoints -> {"none", "own", "spilled"}]
  /\ ConfigSize + Described <= PackSize

\* The interfaces of a module, as its descriptor has them.
Interfaces(m) == pluggedInterface[m]..pluggedInterface[m] + numInterfaces[m] - 1

\* What the host is told of the device is what the device does: the interfaces are numbered from
\* 0 without a gap or an overlap, as many as the descriptor counts, so that a class request
\* reaches the one module whose interface it names, and after SET_CONFIGURATION each endpoint
\* has the type that the descriptor of its module gives it.
DescribedAsIs ==
  /\ \A m, n \in Plugged : m # n => Interfaces(m) \cap Interfaces(n) = {}
  /\ UNION {Interfaces(m) : m \in Plugged} = 0..Counted - 1
  /\ (\E e \in Endpoints : hw[e] # "none") =>
       \A m \in Plugged : \A k \in DOMAIN endpointType(m) :
         hw[pluggedEndpoint[m] + k - 1] = endpointType(m)[k]

\* No answer of the control endpoint rewrites a packet that waits for the host, if the serial
\* port was plugged first: the buffers after the one of endpoint 0 are then those of its
\* communication and OUT endpoints, which nobody sends from.
NothingSpilled == nodes # <<>> /\ nodes[1] = "cdc" => \A e \in Endpoints : packet[e] # "spilled"
=============================================================================
