------------------------------ MODULE CdcSerial ------------------------------
(***************************************************************************)
(* The serial port: ReceiveByte, SendByte, USBTask and Flush of LUFA's CDC *)
(* class driver, in the order in which loop() calls them, interleaved with *)
(* the interrupts of UsbDevice.  Each data endpoint has one bank.  Bytes   *)
(* are numbered in the order in which they are sent.  External: the host.  *)
(*                                                                         *)
(* Every access to an endpoint is a step of its own and goes to the one    *)
(* that is selected at that moment.  One that finds the control endpoint   *)
(* there instead reads whatever that one holds, which is any value.        *)
(***************************************************************************)
EXTENDS UsbDevice, Integers

CONSTANTS
    BankSize,       \* bytes in a bank (16)
    MaxBytes        \* bound on the bytes sent, in both directions together

ASSUME SerialAssumption == {BankSize, MaxBytes} \subseteq Nat \ {0}

VARIABLES
    pc,             \* where the main loop is
    inb,            \* bytes in the bank of the IN endpoint,
    owner,          \* and who may access it: "cpu" or "host"
    out,            \* bytes in the bank of the OUT endpoint,
    received,       \* and whether it holds a packet of the host (RXOUTI)
    put, got,       \* last byte given to usb_putc, and received by the host
    given, read,    \* last byte sent by the host, and handed to the parser
    ret,            \* ReceivedByte: -1, a byte's number, or 0 for a value
                    \* that is no byte of the host's
    kept,           \* history: no bus reset in this call,
    calm            \* and nothing else that emptied a bank, either

bankVars == <<inb, owner, out, received>>
byteVars == <<put, got, given, read, ret>>
callVars == <<kept, calm>>
serialVars == <<usbVars, pc, bankVars, byteVars, callVars>>

InCall == {"recv_select", "recv_test", "recv_any", "recv_read", "recv_left",
           "recv_clear", "select_in", "send_select", "send_test", "send_clear",
           "send_wait", "send_write", "task_select", "task_test", "flush",
           "flush_select", "flush_test", "flush_full", "flush_clear",
           "full_clear", "full_wait", "full_again"}

SerialTypeOK ==
    /\ UsbTypeOK
    /\ pc \in InCall \cup {"recv", "send", "task"}
    /\ inb \in Seq(1 .. MaxBytes) /\ Len(inb) <= BankSize
    /\ owner \in {"cpu", "host"}
    /\ out \in Seq(1 .. MaxBytes) /\ Len(out) <= BankSize
    /\ received \in BOOLEAN
    /\ put \in 0 .. MaxBytes /\ given \in 0 .. MaxBytes
    /\ got \in 0 .. MaxBytes /\ read \in 0 .. MaxBytes
    /\ ret \in -1 .. MaxBytes
    /\ kept \in BOOLEAN /\ calm \in BOOLEAN

SerialInit ==
    /\ UsbInit
    /\ pc = "recv"
    /\ inb = <<>> /\ owner = "cpu" /\ out = <<>> /\ received = FALSE
    /\ put = 0 /\ got = 0 /\ given = 0 /\ read = 0 /\ ret = -1
    /\ kept = TRUE /\ calm = TRUE

-----------------------------------------------------------------------------
(* The main loop runs while no interrupt does.                             *)
Main(from) == isr = <<>> /\ pc = from

Goto(to) ==
    /\ pc' = to
    /\ kept' = (kept \/ to \notin InCall)
    /\ calm' = (calm \/ to \notin InCall)

(* The test at the head of every call.                                     *)
Usable == USB_DeviceState = "Configured" /\ BaudRate # 0

Check(from, to, otherwise) ==
    /\ Main(from)
    /\ Goto(IF Usable THEN to ELSE otherwise)
    /\ UNCHANGED <<usbVars, bankVars, byteVars>>

(* Endpoint_SelectEndpoint                                                 *)
Select(endpoint, from, to) ==
    /\ Main(from)
    /\ selected' = endpoint
    /\ Goto(to)
    /\ UNCHANGED <<USB_DeviceState, ConfigurationNumber, BaudRate, addressed,
                   endpoints, isr, armed, bus, bankVars, byteVars>>

(* A condition on the selected endpoint.                                   *)
Test(from, endpoint, condition, to, otherwise) ==
    /\ Main(from)
    /\ \E holds \in IF selected = endpoint THEN {condition} ELSE BOOLEAN :
           Goto(IF holds THEN to ELSE otherwise)
    /\ UNCHANGED <<usbVars, bankVars, byteVars>>

(* Endpoint_IsINReady and Endpoint_IsReadWriteAllowed on the IN endpoint.  *)
INReady == endpoints = "on" /\ owner = "cpu"

ReadWriteAllowed == INReady /\ Len(inb) < BankSize

(* Endpoint_ClearIN passes the bank to the host.                           *)
ClearIN(from, to) ==
    /\ Main(from)
    /\ owner' = IF selected = "IN" /\ endpoints = "on" THEN "host" ELSE owner
    /\ Goto(to)
    /\ UNCHANGED <<usbVars, inb, out, received, byteVars>>

(* Endpoint_WaitUntilReady: ready, unplugged, or 100 frames have passed.   *)
WaitUntilReady(from, to, failed) ==
    /\ Main(from)
    /\ \/ /\ IF selected = "IN" THEN INReady ELSE bus = "active"
          /\ Goto(to)
       \/ /\ USB_DeviceState = "Unattached" \/ bus = "active"
          /\ Goto(failed)
    /\ UNCHANGED <<usbVars, bankVars, byteVars>>

-----------------------------------------------------------------------------
(* Endpoint_Read_8: the next byte of the bank, or whatever a bank without  *)
(* one, or the control endpoint, returns.                                  *)
Read_8 ==
    /\ Main("recv_read")
    /\ IF selected = "OUT" /\ out # <<>>
       THEN ret' = Head(out) /\ out' = Tail(out)
       ELSE ret' = 0 /\ out' = out
    /\ Goto("recv_left")
    /\ UNCHANGED <<usbVars, inb, owner, received, put, got, given, read>>

(* Endpoint_ClearOUT gives the bank back, with what is left in it.         *)
ClearOUT ==
    /\ Main("recv_clear")
    /\ IF selected = "OUT" THEN out' = <<>> /\ received' = FALSE
                           ELSE UNCHANGED <<out, received>>
    /\ Goto("select_in")
    /\ UNCHANGED <<usbVars, inb, owner, byteVars>>

(* Seeded bug: the result of a call is still there in the next one.        *)
HandOn_Kept ==
    /\ Main("select_in")
    /\ selected' = "IN"
    /\ read' = IF ret > 0 THEN ret ELSE read
    /\ ret' = ret
    /\ Goto("send")
    /\ UNCHANGED <<USB_DeviceState, ConfigurationNumber, BaudRate, addressed,
                   endpoints, isr, armed, bus, bankVars, put, got, given>>

(* loop() selects the IN endpoint and gives the byte, if there is one, to  *)
(* handle_user_input.  The next call starts without one.                   *)
HandOn ==
    /\ Main("select_in")
    /\ selected' = "IN"
    /\ read' = IF ret > 0 THEN ret ELSE read
    /\ ret' = -1
    /\ Goto("send")
    /\ UNCHANGED <<USB_DeviceState, ConfigurationNumber, BaudRate, addressed,
                   endpoints, isr, armed, bus, bankVars, put, got, given>>

(* Seeded bug: the bank is given back after every byte.                    *)
ReceiveByte_ClearAlways ==
    \/ Check("recv", "recv_select", "select_in")
    \/ Select("OUT", "recv_select", "recv_test")
    \/ Test("recv_test", "OUT", received, "recv_any", "select_in")
    \/ Test("recv_any", "OUT", out # <<>>, "recv_read", "recv_left")
    \/ Read_8
    \/ Test("recv_left", "OUT", FALSE, "select_in", "recv_clear")
    \/ ClearOUT

(* Seeded bug: a packet without bytes is not given back.                   *)
ReceiveByte_KeepEmpty ==
    \/ Check("recv", "recv_select", "select_in")
    \/ Select("OUT", "recv_select", "recv_test")
    \/ Test("recv_test", "OUT", received, "recv_any", "select_in")
    \/ Test("recv_any", "OUT", out # <<>>, "recv_read", "select_in")
    \/ Read_8
    \/ Test("recv_left", "OUT", out # <<>>, "select_in", "recv_clear")
    \/ ClearOUT

(* CDC_Device_ReceiveByte                                                  *)
ReceiveByte ==
    \/ Check("recv", "recv_select", "select_in")
    \/ Select("OUT", "recv_select", "recv_test")
    \/ Test("recv_test", "OUT", received, "recv_any", "select_in")
    \/ Test("recv_any", "OUT", out # <<>>, "recv_read", "recv_left")
    \/ Read_8
    \/ Test("recv_left", "OUT", out # <<>>, "select_in", "recv_clear")
    \/ ClearOUT

(* usb_putc, any number of times: CDC_Device_SendByte, whose result is     *)
(* ignored.                                                                *)
SendCheck ==
    /\ Main("send")
    /\ put + given < MaxBytes
    /\ put' = put + 1
    /\ Goto(IF Usable THEN "send_select" ELSE "send")
    /\ UNCHANGED <<usbVars, bankVars, got, given, read, ret>>

(* Seeded bug: the byte is written again after it was written.             *)
SendWrite_Twice ==
    /\ Main("send_write")
    /\ inb' = IF selected = "IN" /\ ReadWriteAllowed
              THEN inb \o <<put, put>> ELSE inb
    /\ Goto("send")
    /\ UNCHANGED <<usbVars, owner, out, received, byteVars>>

SendWrite ==
    /\ Main("send_write")
    /\ inb' = IF selected = "IN" /\ ReadWriteAllowed THEN Append(inb, put)
                                                    ELSE inb
    /\ Goto("send")
    /\ UNCHANGED <<usbVars, owner, out, received, byteVars>>

(* Seeded bug: a byte is written to a full bank without waiting.            *)
SendByte_NoWait ==
    \/ SendCheck
    \/ Select("IN", "send_select", "send_test")
    \/ Test("send_test", "IN", ReadWriteAllowed, "send_write", "send_clear")
    \/ ClearIN("send_clear", "send_write")
    \/ SendWrite

SendByte ==
    \/ SendCheck
    \/ Select("IN", "send_select", "send_test")
    \/ Test("send_test", "IN", ReadWriteAllowed, "send_write", "send_clear")
    \/ ClearIN("send_clear", "send_wait")
    \/ WaitUntilReady("send_wait", "send_write", "send")
    \/ SendWrite

(* The end of the calls of usb_putc in this iteration.                     *)
NoMoreBytes ==
    /\ Main("send")
    /\ Goto("task")
    /\ UNCHANGED <<usbVars, bankVars, byteVars>>

(* CDC_Device_Flush                                                        *)
Flush ==
    \/ Check("flush", "flush_select", "recv")
    \/ Select("IN", "flush_select", "flush_test")
    \/ Test("flush_test", "IN", inb # <<>>, "flush_full", "recv")
    \/ Test("flush_full", "IN", ReadWriteAllowed, "flush_clear", "full_clear")
    \/ ClearIN("flush_clear", "recv")
    \/ ClearIN("full_clear", "full_wait")
    \/ WaitUntilReady("full_wait", "full_again", "recv")
    \/ ClearIN("full_again", "recv")

(* Seeded bug: only a full bank is sent off.                               *)
USBTask_NoFlush ==
    /\ Main("task")
    /\ Goto("recv")
    /\ UNCHANGED <<usbVars, bankVars, byteVars>>

(* CDC_Device_USBTask.  USB_USBTask, which comes last, finds no control    *)
(* request that the interrupt has not taken, and restores the selection.   *)
USBTask ==
    \/ Check("task", "task_select", "recv")
    \/ Select("IN", "task_select", "task_test")
    \/ Test("task_test", "IN", INReady, "flush", "recv")
    \/ Flush

MainNext == ReceiveByte \/ HandOn \/ SendByte \/ NoMoreBytes \/ USBTask

(* A bus reset and a SetConfiguration leave empty banks behind, and        *)
(* ClearFeature empties the bank of the endpoint whose halt it clears.     *)
(* (One that is halted is not fetched from; that is up to the host.)       *)
EmptyIN == inb' = <<>> /\ owner' = "cpu"
EmptyOUT == out' = <<>> /\ received' = FALSE

Disturb ==
    /\ \/ BusReset /\ EmptyIN /\ EmptyOUT /\ kept' = (pc \notin InCall)
       \/ isr # <<>> /\ SetConfiguration /\ EmptyIN /\ EmptyOUT /\ kept' = kept
       \/ Setup("ClearFeature") /\ EmptyIN /\ UNCHANGED <<out, received, kept>>
       \/ Setup("ClearFeature") /\ EmptyOUT /\ UNCHANGED <<inb, owner, kept>>
    /\ calm' = (pc \notin InCall)
    /\ UNCHANGED <<pc, byteVars>>

(* Every other interrupt leaves the main loop's data alone.                *)
Undisturbed == UNCHANGED <<pc, bankVars, byteVars, callVars>>

Answer ==
    /\ isr # <<>>
    /\ SetAddress \/ SetNumber \/ SetLineEncoding \/ ClearFeature
    /\ Undisturbed

(* External: a host that has configured the device fetches a packet, or    *)
(* sends one, of any number of bytes, if the bank is free.                 *)
Reachable == bus = "active" /\ ConfigurationNumber = 1 /\ endpoints = "on"

HostIn ==
    /\ Reachable /\ owner = "host"
    /\ got' = IF inb = <<>> THEN got ELSE inb[Len(inb)]
    /\ inb' = <<>> /\ owner' = "cpu"
    /\ UNCHANGED <<usbVars, pc, out, received, put, given, read, ret, callVars>>

HostOut ==
    /\ Reachable /\ ~received /\ put + given < MaxBytes
    /\ \E size \in 0 .. BankSize :
           /\ put + given + size <= MaxBytes
           /\ out' = [n \in 1 .. size |-> given + n]
           /\ given' = given + size
    /\ received' = TRUE
    /\ UNCHANGED <<usbVars, pc, inb, owner, put, got, read, ret, callVars>>

SerialNext ==
    \/ MainNext
    \/ Disturb
    \/ Answer
    \/ \E r \in Requests \ {"ClearFeature"} : Setup(r) /\ Undisturbed
    \/ (Suspend \/ Wake \/ BusChange) /\ Undisturbed
    \/ HostIn
    \/ HostOut

SerialSafety == SerialInit /\ [][SerialNext]_serialVars

(* The main loop goes on while no control request is being handled, and a  *)
(* host that has configured the device fetches its packets.                *)
SerialSpec ==
    /\ SerialSafety
    /\ WF_serialVars(isr = <<>> /\ MainNext)
    /\ WF_serialVars(HostIn)

(* Moreover, the controller raises its interrupts.                         *)
AttentiveSpec == SerialSpec /\ WF_serialVars((Suspend \/ Wake) /\ Undisturbed)

-----------------------------------------------------------------------------
(* A byte for which SendByte returns without error is not lost, doubled or *)
(* overtaken, unless the host resets the bus, configures the device anew   *)
(* or clears a halt in that call or before it fetches the byte: nothing    *)
(* else takes a byte from the bank or adds another one to it, and a call   *)
(* that succeeds has added its own.                                        *)
SuccessMeansSent ==
    [][~Disturb =>
          /\ \/ inb' \in {inb, Append(inb, put)}
             \/ inb # <<>> /\ got' = inb[Len(inb)]
          /\ pc = "send_write" /\ pc' # pc /\ calm => inb' = Append(inb, put)
      ]_serialVars

(* The endpoint a call has selected for the accesses at pc.                *)
Receiving == {"recv_test", "recv_any", "recv_read", "recv_left", "recv_clear"}
Accesses == Receiving \cup
            {"send_test", "send_clear", "send_wait", "send_write", "task_test",
             "flush_test", "flush_full", "flush_clear", "full_clear",
             "full_wait", "full_again"}
Wanted == IF pc \in Receiving THEN "OUT" ELSE "IN"

(* The main loop works on the control endpoint only in a call during which *)
(* the bus was reset: every other interrupt restores the selection.        *)
StrayOnlyAfterReset ==
    pc \in Accesses /\ kept /\ isr = <<>> => selected = Wanted

(* The bytes of a packet leave the bank one by one, each for the parser,   *)
(* and nothing else is taken for a byte, unless the bank was emptied in    *)
(* the same call: Endpoint_ClearOUT gives back an empty bank, and a packet *)
(* is not stored over one that is still being read.                        *)
CommandsTaken ==
    [][~Disturb /\ calm =>
          /\ \/ out' = out \/ out = <<>>
             \/ out' = Tail(out) /\ ret' = Head(out)
          /\ ret' # 0
      ]_serialVars

(* The places in SendByte at which a byte is on its way to the bank.       *)
Sending == {"send_select", "send_test", "send_clear", "send_wait",
            "send_write"}

(* The inductive invariant behind these: during control requests, however  *)
(* deeply nested, the outermost one keeps the main loop's selection.       *)
SelectionInv ==
    /\ SerialTypeOK
    /\ pc \in Sending => put > 0
    /\ calm \/ pc \notin InCall => kept
    /\ pc \in Accesses /\ kept =>
           Wanted = IF isr = <<>> THEN selected ELSE isr[1].prev

(* SendByte writes only when there is room: a wait that ends well has seen *)
(* the host empty the bank.                                                *)
BankReady ==
    calm => /\ pc = "send_wait" /\ endpoints = "on" =>
                   owner = "host" \/ inb = <<>>
            /\ pc = "send_write" => ReadWriteAllowed

(* ReceiveByte reads a byte only where there is one and gives the bank     *)
(* back only when there is none: the packet it has found stays the same.   *)
PacketHeld ==
    /\ ~received => out = <<>>
    /\ ret # -1 => pc \in {"recv_left", "recv_clear", "select_in"}
    /\ calm => /\ pc \in Receiving \ {"recv_test"} => received
               /\ pc = "recv_read" => out # <<>>
               /\ pc = "recv_clear" => out = <<>>
               /\ ret # 0

SerialInv == SelectionInv /\ BankReady /\ PacketHeld

(* Bytes do not stay in the bank while the port can be used, unless the    *)
(* host makes control requests without end: USBTask sends off what         *)
(* SendByte has left there, and what a wait that gave up has left.         *)
BankDrained ==
    []<>(inb = <<>> \/ ~Usable \/ ~Reachable \/ isr # <<>>)

(* A packet does not stay in the bank, either, whatever its length: else   *)
(* the host could never send another command.                              *)
CommandsDrained ==
    []<>(~received \/ ~Usable \/ ~Reachable \/ isr # <<>>)

(* Endpoint_WaitUntilReady comes back when the host has gone while it was  *)
(* waiting.                                                                *)
SendReturns ==
    pc = "send_wait" /\ bus = "idle" ~>
        pc # "send_wait" \/ bus = "active" \/ isr # <<>>

(* Both directions of the port implement a channel without duplicates.     *)
onTheWay == IF pc \in Sending THEN Append(inb, put) ELSE inb
unhandled == IF ret > 0 THEN <<ret>> \o out ELSE out

Replies == INSTANCE ByteChannel WITH queue <- onTheWay
Commands == INSTANCE ByteChannel WITH
                put <- given, queue <- unhandled, got <- read

RepliesInOrder == Replies!ChannelSpec
CommandsInOrder == Commands!ChannelSpec
=============================================================================
