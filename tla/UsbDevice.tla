------------------------------ MODULE UsbDevice ------------------------------
(***************************************************************************)
(* The USB device core of LUFA, as far as this firmware builds it: the     *)
(* interrupts that keep USB_DeviceState, the control requests handled in   *)
(* an interrupt (INTERRUPT_CONTROL_ENDPOINT), and the register through     *)
(* which interrupts and main loop alike select an endpoint.                *)
(*                                                                         *)
(* A control request is handled with interrupts enabled and waits for the  *)
(* host, so it is an action Setup and one or two more; isr is the stack of *)
(* requests being handled.  External: the bus and the host.                *)
(***************************************************************************)
EXTENDS Naturals, Sequences

CONSTANTS
    MaxNest,        \* bound on the depth of isr
    OrderlyHost     \* are requests made only when the USB standard has them?

ASSUME UsbAssumption == MaxNest \in Nat \ {0} /\ OrderlyHost \in BOOLEAN

VARIABLES
    USB_DeviceState,
    ConfigurationNumber,
    BaudRate,       \* 0, or 1 for any other rate
    addressed,      \* is the device address enabled?
    endpoints,      \* are the data endpoints configured ("on")?
    selected,       \* the selected endpoint
    isr,            \* the control requests being handled, innermost last
    armed,          \* which interrupt is enabled: "suspend" or "wake"
    bus             \* is there traffic on the bus: "active" or "idle"

usbVars == <<USB_DeviceState, ConfigurationNumber, BaudRate, addressed,
             endpoints, selected, isr, armed, bus>>

Requests == {"SetAddress", "SetConfiguration", "SetLineEncoding",
             "ClearFeature"}

(* A request being handled ("Configuring" is SetConfiguration once it has  *)
(* stored the number), the selection to be restored after it, and whether  *)
(* the bus has not been reset since it began.                              *)
Frames == [req : Requests \cup {"Configuring"},
           prev : {"CONTROL", "IN", "OUT"}, live : BOOLEAN]

UsbTypeOK ==
    /\ USB_DeviceState \in
           {"Unattached", "Powered", "Default", "Addressed", "Configured"}
    /\ ConfigurationNumber \in 0 .. 1 /\ BaudRate \in 0 .. 1
    /\ addressed \in BOOLEAN
    /\ endpoints \in {"on", "off"}
    /\ selected \in {"CONTROL", "IN", "OUT"}
    /\ isr \in Seq(Frames) /\ Len(isr) <= MaxNest
    /\ armed \in {"suspend", "wake"} /\ bus \in {"active", "idle"}

(* The state USB_Init leaves.                                              *)
UsbInit ==
    /\ USB_DeviceState = "Unattached"
    /\ ConfigurationNumber = 0 /\ BaudRate = 0
    /\ addressed = FALSE
    /\ endpoints = "off" /\ selected = "CONTROL"
    /\ isr = <<>>
    /\ armed = "suspend" /\ bus = "active"

-----------------------------------------------------------------------------
(* External: traffic on the bus stops and resumes.                         *)
BusChange ==
    /\ bus' = IF bus = "active" THEN "idle" ELSE "active"
    /\ UNCHANGED <<USB_DeviceState, ConfigurationNumber, BaudRate, addressed,
                   endpoints, selected, isr, armed>>

(* SUSPI: this controller cannot tell a suspended bus from an unplugged    *)
(* cable and takes it for the latter.                                      *)
Suspend ==
    /\ bus = "idle" /\ armed = "suspend"
    /\ USB_DeviceState' = "Unattached"
    /\ armed' = "wake"
    /\ UNCHANGED <<ConfigurationNumber, BaudRate, addressed, endpoints,
                   selected, isr, bus>>

(* The state chosen after a wake-up and by SetConfiguration.               *)
ReadyState(configuration) ==
    IF configuration = 1 \/ addressed THEN "Configured" ELSE "Powered"

(* WAKEUPI                                                                 *)
Wake ==
    /\ bus = "active" /\ armed = "wake"
    /\ USB_DeviceState' = ReadyState(ConfigurationNumber)
    /\ armed' = "suspend"
    /\ UNCHANGED <<ConfigurationNumber, BaudRate, addressed, endpoints,
                   selected, isr, bus>>

(* EORSTI, the end of a bus reset.  The controller has forgotten its       *)
(* address.  Configuring the control endpoint leaves it selected and turns *)
(* to the endpoints behind it only if they are still allocated.            *)
BusReset ==
    /\ bus = "active"
    /\ USB_DeviceState' = "Default"
    /\ ConfigurationNumber' = 0
    /\ addressed' = FALSE
    /\ endpoints' \in {"off", endpoints}
    /\ selected' = "CONTROL"
    /\ isr' = [n \in DOMAIN isr |-> [isr[n] EXCEPT !.live = FALSE]]
    /\ armed' = "wake"
    /\ UNCHANGED <<BaudRate, bus>>

(* The invocation of USB_COM_vect that is running.                         *)
Innermost == isr[Len(isr)]

(* External: an orderly host does not give a configured device another     *)
(* address, and uses only a configured one.                                *)
Expected(r) ==
    OrderlyHost => IF ConfigurationNumber = 1 THEN r # "SetAddress"
                   ELSE r \in {"SetAddress", "SetConfiguration"}

(* A control request enters USB_COM_vect, which disables the interrupt it  *)
(* came by: only a bus reset lets another one in before it is finished.    *)
(* (ClearFeature does as little as the requests that only return data,     *)
(* see SetLineEncoding, if there is no endpoint to reset.)                 *)
Setup(r) ==
    /\ bus = "active" /\ Expected(r)
    /\ r = "ClearFeature" => endpoints = "on"
    /\ Len(isr) < MaxNest
    /\ isr # <<>> => ~Innermost.live
    /\ isr' = Append(isr, [req |-> r, prev |-> selected, live |-> TRUE])
    /\ selected' = "CONTROL"
    /\ UNCHANGED <<USB_DeviceState, ConfigurationNumber, BaudRate, addressed,
                   endpoints, armed, bus>>

(* Seeded bug: the interrupt leaves the control endpoint selected.         *)
Leave_NoRestore == isr' = SubSeq(isr, 1, Len(isr) - 1) /\ selected' = "CONTROL"

(* USB_COM_vect returns.                                                   *)
Leave == isr' = SubSeq(isr, 1, Len(isr) - 1) /\ selected' = Innermost.prev

(* The host answers the innermost request.                                 *)
Answered == Innermost.live /\ bus = "active"

(* SetAddress waits for its status stage without an exit, and does not     *)
(* wait at all if a bus reset has emptied the endpoint.  The address 0     *)
(* takes the device back to its default state.                             *)
SetAddress ==
    /\ Innermost.req = "SetAddress"
    /\ Innermost.live => bus = "active"
    /\ addressed' = TRUE
    /\ USB_DeviceState' \in {"Addressed", "Default"}
    /\ Leave
    /\ UNCHANGED <<ConfigurationNumber, BaudRate, endpoints, armed, bus>>

(* SetConfiguration stores the number the host asks for, even if the bus   *)
(* was reset since the request came in.                                    *)
SetNumber ==
    /\ Innermost.req = "SetConfiguration"
    /\ ConfigurationNumber' \in 0 .. 1
    /\ isr' = [isr EXCEPT ![Len(isr)].req = "Configuring"]
    /\ UNCHANGED <<USB_DeviceState, BaudRate, addressed, endpoints, selected,
                   armed, bus>>

(* The rest of it: the state, and the event ConfigurationChanged, whose    *)
(* handler configures the data endpoints and clears the line encoding.  If *)
(* the bus was reset meanwhile, that was before the state was chosen, or   *)
(* between the choice and the store, or after both.                        *)
SetConfiguration ==
    /\ Innermost.req = "Configuring"
    /\ USB_DeviceState' \in
           IF Innermost.live THEN {ReadyState(ConfigurationNumber)}
           ELSE {ReadyState(ConfigurationNumber), "Configured",
                 USB_DeviceState}
    /\ endpoints' = "on" /\ BaudRate' = 0
    /\ Leave
    /\ UNCHANGED <<ConfigurationNumber, addressed, armed, bus>>

(* SetLineEncoding waits for its data, or for the device to be unplugged.  *)
(* The requests that only return data, or are refused, do as little as     *)
(* one that sets the old rate.                                             *)
SetLineEncoding ==
    /\ Innermost.req = "SetLineEncoding"
    /\ \/ Answered /\ BaudRate' \in 0 .. 1
       \/ USB_DeviceState = "Unattached" /\ UNCHANGED BaudRate
    /\ Leave
    /\ UNCHANGED <<USB_DeviceState, ConfigurationNumber, addressed, endpoints,
                   armed, bus>>

(* ClearFeature has reset a data endpoint when it began (the effect on the *)
(* bank is CdcSerial's) and finds the bank for its status stage free.      *)
ClearFeature ==
    /\ Innermost.req = "ClearFeature"
    /\ Leave
    /\ UNCHANGED <<USB_DeviceState, ConfigurationNumber, BaudRate, addressed,
                   endpoints, armed, bus>>
=============================================================================
