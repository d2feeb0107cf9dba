-------------------------- MODULE CdcSerial_proofs --------------------------
(***************************************************************************)
(* Proofs about the serial port: what interrupts leave alone, and that     *)
(* both directions implement a channel that keeps its bytes in order.      *)
(***************************************************************************)
EXTENDS CdcSerial, SequenceTheorems, TLAPS

(* A step of the main loop: it runs outside interrupts, leaves the device  *)
(* alone, and keeps or ends a calm call.                                   *)
LEMMA MainStep ==
    ASSUME MainNext
    PROVE  /\ isr = <<>>
           /\ UNCHANGED <<USB_DeviceState, ConfigurationNumber, BaudRate,
                          addressed, endpoints, isr, armed, bus>>
           /\ UNCHANGED <<got, given>>
           /\ pc' \in InCall \cup {"recv", "send", "task"}
           /\ kept' = (kept \/ pc' \notin InCall)
           /\ calm' = (calm \/ pc' \notin InCall)
           /\ selected' \in {selected, "IN", "OUT"}
           /\ pc' \in Accesses /\ pc' \in InCall =>
                  \/ selected' = Wanted'
                  \/ pc \in Accesses /\ selected' = selected /\ Wanted' = Wanted
  <1> USE DEF Main, Goto, usbVars, bankVars, byteVars, InCall, Accesses, Wanted,
              Receiving
  <1>1. CASE ReceiveByte
    BY <1>1 DEF ReceiveByte, Check, Select, Test, Read_8, ClearOUT
  <1>5. CASE HandOn
    BY <1>5 DEF HandOn
  <1>2. CASE SendByte
    BY <1>2 DEF SendByte, SendCheck, Select, Test, ClearIN, WaitUntilReady,
                SendWrite
  <1>3. CASE NoMoreBytes
    BY <1>3, SMTT(30) DEF NoMoreBytes
  <1>4. CASE USBTask
    BY <1>4 DEF USBTask, Flush, Check, Select, Test, ClearIN, WaitUntilReady
  <1> QED BY <1>1, <1>2, <1>3, <1>4, <1>5 DEF MainNext

(* What the main loop does with the banks: all but five of its steps leave *)
(* all bytes alone.                                                        *)
LEMMA MainBytes ==
    ASSUME SerialTypeOK, MainNext
    PROVE  \/ Read_8 \/ ClearOUT \/ HandOn \/ SendCheck \/ SendWrite
           \/ /\ UNCHANGED <<inb, out, received, byteVars>>
              /\ owner' \in {owner, "host"}
              /\ onTheWay' \in {onTheWay, inb}
              /\ pc' \in Sending => pc \in Sending
  <1> USE DEF Main, Goto, usbVars, bankVars, byteVars, onTheWay,
              Sending
  <1>1. CASE ReceiveByte
    BY <1>1 DEF ReceiveByte, Check, Select, Test
  <1>2. CASE SendByte
    BY <1>2 DEF SendByte, Select, Test, ClearIN, WaitUntilReady
  <1>3. CASE NoMoreBytes
    BY <1>3, SMTT(30) DEF NoMoreBytes
  <1>4. CASE USBTask
    BY <1>4 DEF USBTask, Flush, Check, Select, Test, ClearIN, WaitUntilReady
  <1> QED BY <1>1, <1>2, <1>3, <1>4 DEF MainNext

(* Reading the next byte of a packet.                                      *)
LEMMA NextByte ==
    ASSUME SerialTypeOK, out # <<>>
    PROVE  /\ Head(out) \in 1 .. MaxBytes /\ Tail(out) \in Seq(1 .. MaxBytes)
           /\ Len(Tail(out)) <= BankSize
           /\ Head(out) \in 0 .. MaxBytes /\ Head(out) \in -1 .. MaxBytes
           /\ Head(out) > 0 /\ <<Head(out)>> \o Tail(out) = out
  <1>1. /\ Head(out) \in 1 .. MaxBytes /\ Tail(out) \in Seq(1 .. MaxBytes)
        /\ Len(Tail(out)) = Len(out) - 1 /\ Len(out) \in Nat
    BY HeadTailProperties, LenProperties, Zenon DEF SerialTypeOK
  <1>2. Len(Tail(out)) <= BankSize
    BY <1>1, SerialAssumption DEF SerialTypeOK
  <1>3. <<Head(out)>> \o Tail(out) = out
    BY HeadTailProperties DEF SerialTypeOK
  <1> QED BY <1>1, <1>2, <1>3, SerialAssumption

(* The main loop keeps the types of the banks.                             *)
LEMMA MainTypes ==
    ASSUME SelectionInv, MainNext
    PROVE  /\ inb' \in Seq(1 .. MaxBytes) /\ Len(inb') <= BankSize
           /\ owner' \in {"cpu", "host"}
           /\ out' \in Seq(1 .. MaxBytes) /\ Len(out') <= BankSize
           /\ received' \in BOOLEAN /\ ret' \in -1 .. MaxBytes
           /\ put' \in 0 .. MaxBytes /\ read' \in 0 .. MaxBytes
           /\ pc' \in Sending => put' > 0
  <1> USE DEF SelectionInv
  <1>0. received \in BOOLEAN
    BY DEF SerialTypeOK
  <1>1. CASE Read_8
    <2>1. UNCHANGED <<inb, owner, received, put, read>> /\ pc' \notin Sending
      BY <1>1 DEF Read_8, Goto, Sending
    <2>2. CASE selected = "OUT" /\ out # <<>>
      <3>1. ret' = Head(out) /\ out' = Tail(out)
        BY <1>1, <2>2 DEF Read_8
      <3> QED BY <1>0, <2>1, <2>2, <3>1, NextByte, Zenon DEF SerialTypeOK
    <2>3. CASE ~(selected = "OUT" /\ out # <<>>)
      <3>1. ret' = 0 /\ out' = out /\ 0 \in -1 .. MaxBytes
        BY <1>1, <2>3, SerialAssumption DEF Read_8
      <3> QED BY <1>0, <2>1, <3>1, Zenon DEF SerialTypeOK
    <2> QED BY <2>2, <2>3
  <1>5. CASE ClearOUT
    <2>1. /\ UNCHANGED <<inb, owner, put, read, ret>> /\ pc' \notin Sending
          /\ out' \in {out, <<>>}
      BY <1>5 DEF ClearOUT, Goto, Sending, byteVars
    <2>2. received' \in BOOLEAN
      BY <1>0, <1>5, Zenon DEF ClearOUT
    <2>3. <<>> \in Seq(1 .. MaxBytes) /\ Len(<<>>) <= BankSize
      BY EmptySeq, SerialAssumption
    <2> QED BY <2>1, <2>2, <2>3, Zenon DEF SerialTypeOK
  <1>6. CASE HandOn
    <2>1. UNCHANGED <<inb, owner, out, received, put>> /\ pc' \notin Sending
      BY <1>6 DEF HandOn, Goto, Sending, bankVars
    <2>2. read' \in 0 .. MaxBytes /\ ret' \in -1 .. MaxBytes
      BY <1>6, SerialAssumption DEF HandOn, SerialTypeOK
    <2> QED BY <1>0, <2>1, <2>2, Zenon DEF SerialTypeOK
  <1>2. CASE SendCheck
    <2>1. UNCHANGED <<inb, owner, out, received, read, ret>>
      BY <1>2 DEF SendCheck, bankVars
    <2>2. put' \in 0 .. MaxBytes /\ put' > 0
      BY <1>2, SerialAssumption DEF SendCheck, SerialTypeOK
    <2> QED BY <1>0, <2>1, <2>2, Zenon DEF SerialTypeOK
  <1>3. CASE SendWrite
    <2> USE DEF Goto, Sending
    <2>1. CASE selected = "IN" /\ ReadWriteAllowed
      <3>1. /\ Append(inb, put) \in Seq(1 .. MaxBytes)
            /\ Len(Append(inb, put)) = Len(inb) + 1 /\ Len(inb) \in Nat
        BY <1>3, <2>1, SerialAssumption, AppendProperties, LenProperties
        DEF SerialTypeOK, Sending, SendWrite, Main
      <3>2. inb' = Append(inb, put) /\ Len(inb') <= BankSize
        BY <1>3, <2>1, <3>1, SerialAssumption DEF SendWrite, ReadWriteAllowed
      <3>3. UNCHANGED <<owner, out, received, put, read, ret>>
            /\ pc' \notin Sending
        BY <1>3 DEF SendWrite, byteVars
      <3> QED BY <1>0, <3>1, <3>2, <3>3, Zenon DEF SerialTypeOK
    <2>2. CASE ~(selected = "IN" /\ ReadWriteAllowed)
      <3>1. UNCHANGED <<inb, owner, out, received, put, read, ret>>
            /\ pc' \notin Sending
        BY <1>3, <2>2 DEF SendWrite, byteVars
      <3> QED BY <1>0, <3>1, Zenon DEF SerialTypeOK
    <2> QED BY <2>1, <2>2
  <1>4. CASE /\ UNCHANGED <<inb, out, received, byteVars>>
             /\ owner' \in {owner, "host"}
             /\ pc' \in Sending => pc \in Sending
    <2>1. UNCHANGED <<inb, out, received, put, read, ret>>
      BY <1>4 DEF byteVars
    <2> QED BY <1>0, <1>4, <2>1, Zenon DEF SerialTypeOK
  <1> QED BY <1>1, <1>2, <1>3, <1>4, <1>5, <1>6, MainBytes, Zenon

(* What the interrupts do to the stack of control requests: it grows and   *)
(* shrinks at its end, and a bus reset changes neither what is handled nor *)
(* which selections will be restored.                                      *)
LEMMA LeaveStack ==
    ASSUME UsbTypeOK, isr # <<>>, Leave
    PROVE  /\ isr' \in Seq(Frames) /\ Len(isr') = Len(isr) - 1
           /\ \A n \in 1 .. Len(isr) - 1 : isr'[n] = isr[n]
           /\ Len(isr) \in Nat \ {0} /\ DOMAIN isr = 1 .. Len(isr)
           /\ selected' = isr[Len(isr)].prev
           /\ selected' \in {"CONTROL", "IN", "OUT"}
  <1>1. Len(isr) \in Nat \ {0} /\ DOMAIN isr = 1 .. Len(isr)
    BY EmptySeq, LenProperties DEF UsbTypeOK
  <1>2. isr' = SubSeq(isr, 1, Len(isr) - 1)
    BY DEF Leave
  <1>3. isr' \in Seq(Frames) /\ Len(isr') = Len(isr) - 1
    BY <1>1, <1>2, SubSeqProperties DEF UsbTypeOK
  <1>4. \A n \in 1 .. Len(isr) - 1 : isr'[n] = isr[n]
    BY <1>1, <1>2 DEF UsbTypeOK
  <1>5. isr[Len(isr)] \in Frames
    BY <1>1 DEF UsbTypeOK
  <1> QED BY <1>1, <1>3, <1>4, <1>5 DEF Leave, Innermost, Frames

(* A request is put on top of those under way, with the selection found.  *)
LEMMA SetupStack ==
    ASSUME UsbTypeOK, NEW r \in Requests, Setup(r)
    PROVE  /\ isr' \in Seq(Frames) /\ Len(isr') = Len(isr) + 1
           /\ Len(isr') <= MaxNest /\ Len(isr) \in Nat
           /\ \A n \in 1 .. Len(isr) : isr'[n] = isr[n]
           /\ isr'[Len(isr) + 1] = [req |-> r, prev |-> selected, live |-> TRUE]
  <1> DEFINE f == [req |-> r, prev |-> selected, live |-> TRUE]
  <1>1. f \in Frames
    BY DEF Frames, UsbTypeOK
  <1>2. isr' = Append(isr, f) /\ Len(isr) < MaxNest
    BY DEF Setup
  <1> HIDE DEF f
  <1>3. Len(isr) \in Nat
    BY LenProperties DEF UsbTypeOK
  <1>4. /\ isr' \in Seq(Frames) /\ Len(isr') = Len(isr) + 1
        /\ \A n \in 1 .. Len(isr) : isr'[n] = isr[n]
        /\ isr'[Len(isr) + 1] = f
    BY <1>1, <1>2, AppendProperties DEF UsbTypeOK
  <1>5. Len(isr') <= MaxNest
    BY <1>2, <1>3, <1>4, UsbAssumption
  <1> QED BY <1>3, <1>4, <1>5 DEF f

(* A bus reset leaves the requests under way where they are.               *)
LEMMA ResetStack ==
    ASSUME UsbTypeOK, BusReset
    PROVE  /\ isr' \in Seq(Frames) /\ Len(isr') = Len(isr)
           /\ DOMAIN isr' = DOMAIN isr
           /\ \A n \in DOMAIN isr :
                  isr'[n].req = isr[n].req /\ isr'[n].prev = isr[n].prev
  <1>1. Len(isr) \in Nat /\ DOMAIN isr = 1 .. Len(isr)
    BY LenProperties DEF UsbTypeOK
  <1>2. isr' = [n \in 1 .. Len(isr) |-> [isr[n] EXCEPT !.live = FALSE]]
    BY <1>1 DEF BusReset
  <1>3. \A n \in 1 .. Len(isr) :
            /\ isr[n] \in Frames
            /\ [isr[n] EXCEPT !.live = FALSE] \in Frames
            /\ [isr[n] EXCEPT !.live = FALSE].req = isr[n].req
            /\ [isr[n] EXCEPT !.live = FALSE].prev = isr[n].prev
    <2>1. \A f \in Frames :
              /\ [f EXCEPT !.live = FALSE] \in Frames
              /\ [f EXCEPT !.live = FALSE].req = f.req
              /\ [f EXCEPT !.live = FALSE].prev = f.prev
      BY Zenon DEF Frames
    <2>2. \A n \in 1 .. Len(isr) : isr[n] \in Frames
      BY ElementOfSeq DEF UsbTypeOK
    <2> QED BY <2>1, <2>2
  <1>4. isr' \in Seq(Frames) /\ Len(isr') = Len(isr)
    <2> DEFINE n == Len(isr)
    <2>1. isr' \in [1 .. n -> Frames]
      BY <1>2, <1>3
    <2>2. isr' \in Seq(Frames)
      BY <2>1, <1>1, SeqDef
    <2>3. DOMAIN isr' = 1 .. n /\ DOMAIN isr' = 1 .. Len(isr')
      BY <2>1, <2>2, LenProperties
    <2> QED BY <2>2, <2>3, <1>1, LenProperties
  <1> QED BY <1>1, <1>2, <1>3, <1>4, Zenon

(* So does the step in which SetConfiguration stores the number.           *)
LEMMA NumberStack ==
    ASSUME UsbTypeOK, isr # <<>>, SetNumber
    PROVE  /\ isr' \in Seq(Frames) /\ Len(isr') = Len(isr)
           /\ isr' # <<>> /\ isr'[1].prev = isr[1].prev
  <1>1. Len(isr) \in Nat \ {0} /\ DOMAIN isr = 1 .. Len(isr)
    BY EmptySeq, LenProperties DEF UsbTypeOK
  <1> DEFINE g(f) == [f EXCEPT !.req = "Configuring"]
  <1>2. \A f \in Frames : g(f) \in Frames /\ g(f).prev = f.prev
    BY DEF Frames
  <1>3. \A n \in 1 .. Len(isr) : isr[n] \in Frames
    BY ElementOfSeq DEF UsbTypeOK
  <1>4. isr' = [isr EXCEPT ![Len(isr)] = g(isr[Len(isr)])]
    BY DEF SetNumber
  <1> HIDE DEF g
  <1>5. isr' \in [1 .. Len(isr) -> Frames]
    BY <1>1, <1>2, <1>3, <1>4, Zenon
  <1>6. isr' \in Seq(Frames) /\ DOMAIN isr' = 1 .. Len(isr)
    BY <1>1, <1>5, SeqDef
  <1>7. Len(isr') = Len(isr)
    BY <1>1, <1>6, LenProperties
  <1>8. isr'[1].prev = isr[1].prev
    BY <1>1, <1>2, <1>3, <1>4
  <1> QED BY <1>1, <1>6, <1>7, <1>8, EmptySeq

(* Every interrupt keeps the types of the device.                          *)
LEMMA UsbTypes ==
    ASSUME UsbTypeOK,
           \/ BusReset
           \/ isr # <<>> /\ \/ SetAddress \/ SetNumber \/ SetConfiguration
                            \/ SetLineEncoding \/ ClearFeature
           \/ Suspend \/ Wake \/ BusChange
           \/ \E r \in Requests : Setup(r)
    PROVE  UsbTypeOK'
  <1>1. CASE BusReset
    <2>1. isr' \in Seq(Frames) /\ Len(isr') <= MaxNest
      BY <1>1, ResetStack DEF UsbTypeOK
    <2>2. addressed' \in BOOLEAN
      BY <1>1, Zenon DEF BusReset
    <2> QED BY <1>1, <2>1, <2>2 DEF BusReset, UsbTypeOK
  <1>5. CASE isr # <<>> /\ SetNumber
    <2>1. isr' \in Seq(Frames) /\ Len(isr') <= MaxNest
      BY <1>5, NumberStack DEF UsbTypeOK
    <2> QED BY <1>5, <2>1 DEF SetNumber, UsbTypeOK
  <1>2. CASE isr # <<>> /\ \/ SetAddress \/ SetConfiguration
                           \/ SetLineEncoding \/ ClearFeature
    <2>1. Leave
      BY <1>2 DEF SetAddress, SetConfiguration, SetLineEncoding, ClearFeature
    <2>2. /\ isr' \in Seq(Frames) /\ Len(isr') <= MaxNest
          /\ selected' \in {"CONTROL", "IN", "OUT"}
      BY <1>2, <2>1, LeaveStack, UsbAssumption DEF UsbTypeOK
    <2>3. CASE SetAddress
      BY <2>2, <2>3 DEF SetAddress, UsbTypeOK
    <2>4. CASE SetConfiguration
      BY <2>2, <2>4 DEF SetConfiguration, ReadyState, UsbTypeOK
    <2>5. CASE SetLineEncoding
      BY <2>2, <2>5 DEF SetLineEncoding, UsbTypeOK
    <2>6. CASE ClearFeature
      BY <2>2, <2>6 DEF ClearFeature, UsbTypeOK
    <2> QED BY <1>2, <2>3, <2>4, <2>5, <2>6
  <1>3. CASE Suspend \/ Wake \/ BusChange
    BY <1>3 DEF Suspend, Wake, BusChange, ReadyState, UsbTypeOK
  <1>4. ASSUME NEW r \in Requests, Setup(r) PROVE UsbTypeOK'
    <2>1. isr' \in Seq(Frames) /\ Len(isr') <= MaxNest
      BY <1>4, SetupStack, Zenon
    <2>2. /\ UNCHANGED <<USB_DeviceState, ConfigurationNumber, BaudRate,
                         addressed, endpoints, armed, bus>>
          /\ selected' = "CONTROL"
      BY <1>4 DEF Setup
    <2> QED BY <2>1, <2>2 DEF UsbTypeOK
  <1> QED BY <1>1, <1>2, <1>3, <1>4, <1>5

(* The invariant holds initially.                                          *)
LEMMA SelectionInitInv == SerialInit => SelectionInv
  <1> SUFFICES ASSUME SerialInit PROVE SelectionInv
    OBVIOUS
  <1>1. {addressed, received, kept, calm} \subseteq BOOLEAN
    BY Zenon DEF SerialInit, UsbInit
  <1>2. UsbTypeOK
    BY <1>1, UsbAssumption, EmptySeq DEF SerialInit, UsbInit, UsbTypeOK
  <1>3. SerialTypeOK
    BY <1>1, <1>2, SerialAssumption, EmptySeq DEF SerialInit, SerialTypeOK
  <1> QED
    BY <1>3 DEF SerialInit, UsbInit, SelectionInv, Sending, Accesses,
                Receiving

(* The main loop preserves it.                                             *)
LEMMA MainInv == SelectionInv /\ MainNext => SelectionInv'
  <1> SUFFICES ASSUME SelectionInv, MainNext PROVE SelectionInv'
    OBVIOUS
  <1>1. SerialTypeOK'
    <2>1. UsbTypeOK'
      BY MainStep DEF SelectionInv, SerialTypeOK, UsbTypeOK
    <2>2. kept' \in BOOLEAN /\ calm' \in BOOLEAN
      BY MainStep, Zenon
    <2>3. /\ UNCHANGED <<got, given>>
          /\ pc' \in InCall \cup {"recv", "send", "task"}
      BY MainStep
    <2>4. got' \in 0 .. MaxBytes /\ given' \in 0 .. MaxBytes
      BY <2>3 DEF SelectionInv, SerialTypeOK
    <2> QED BY <2>1, <2>2, <2>3, <2>4, MainTypes, Zenon DEF SerialTypeOK
  <1>2. pc' \in Sending => put' > 0
    BY MainTypes
  <1>3. pc' \in Accesses /\ kept' => Wanted' = selected'
    BY MainStep, Zenon DEF SelectionInv, Accesses, Receiving, InCall
  <1>4. calm' \/ pc' \notin InCall => kept'
    BY MainStep, Zenon DEF SelectionInv
  <1> QED BY <1>1, <1>2, <1>3, <1>4, MainStep DEF SelectionInv

(* A control request keeps the selection of the main loop while it is      *)
(* handled and gives it back when it ends.                                 *)
LEMMA LeaveSelection ==
    ASSUME UsbTypeOK, isr # <<>>, Leave
    PROVE  isr[1].prev = IF isr' = <<>> THEN selected' ELSE isr'[1].prev
  BY LeaveStack, EmptySeq

(* An interrupt preserves the invariant: the outermost request keeps the   *)
(* selection of the main loop.                                             *)
LEMMA SetupInv ==
    ASSUME SelectionInv, NEW r \in Requests, Setup(r), SerialTypeOK',
           UNCHANGED <<pc, kept, put>>, calm' => kept
    PROVE  SelectionInv'
  <1>0. UsbTypeOK /\ Len(isr) \in Nat /\ DOMAIN isr = 1 .. Len(isr)
    BY LenProperties DEF SelectionInv, SerialTypeOK, UsbTypeOK
  <1>1. /\ isr' \in Seq(Frames) /\ Len(isr') = Len(isr) + 1
        /\ \A n \in 1 .. Len(isr) : isr'[n] = isr[n]
        /\ isr'[Len(isr) + 1] = [req |-> r, prev |-> selected, live |-> TRUE]
    BY <1>0, SetupStack
  <1>2. isr' # <<>> /\ DOMAIN isr' = 1 .. Len(isr) + 1
    BY <1>0, <1>1, EmptySeq, LenProperties
  <1>3. isr'[1].prev = IF isr = <<>> THEN selected ELSE isr[1].prev
    <2>1. CASE isr = <<>>
      BY <1>1, <2>1, EmptySeq
    <2>2. CASE isr # <<>>
      BY <1>0, <1>1, <2>2, EmptySeq DEF UsbTypeOK
    <2> QED BY <2>1, <2>2
  <1> QED BY <1>2, <1>3 DEF SelectionInv, Wanted

(* A bus reset, or a request that empties the banks, preserves it.         *)
LEMMA DisturbInv ==
    ASSUME SelectionInv, Disturb
    PROVE  SelectionInv'
  <1>1. UsbTypeOK' /\ UsbTypeOK
    BY UsbTypes DEF Disturb, Requests, SelectionInv, SerialTypeOK
  <1>2. {received', kept', calm'} \subseteq BOOLEAN
    <2>1. kept \in BOOLEAN /\ received \in BOOLEAN
      BY DEF SelectionInv, SerialTypeOK
    <2> QED BY <2>1, Zenon DEF Disturb, EmptyOUT
  <1>3. /\ inb' \in {inb, <<>>} /\ owner' \in {owner, "cpu"}
        /\ out' \in {out, <<>>} /\ UNCHANGED <<pc, put, got, given, read, ret>>
    BY DEF Disturb, EmptyIN, EmptyOUT, byteVars
  <1>4. SerialTypeOK'
    <2>1. /\ <<>> \in Seq(1 .. MaxBytes) /\ Len(<<>>) <= BankSize
      BY EmptySeq, SerialAssumption
    <2> QED BY <1>1, <1>2, <1>3, <2>1, Zenon DEF SelectionInv, SerialTypeOK
  <1>5. calm' = (pc \notin InCall)
    BY DEF Disturb
  <1>6. CASE BusReset /\ kept' = (pc \notin InCall)
    <2>1. ~(pc' \in Accesses /\ kept')
      BY <1>3, <1>6, Zenon DEF Accesses, Receiving, InCall
    <2> QED BY <1>3, <1>4, <1>5, <1>6, <2>1, Zenon DEF SelectionInv
  <1>7. CASE isr # <<>> /\ SetConfiguration /\ kept' = kept
    <2>1. isr[1].prev = IF isr' = <<>> THEN selected' ELSE isr'[1].prev
      BY <1>1, <1>7, LeaveSelection DEF SetConfiguration
    <2> QED BY <1>3, <1>4, <1>5, <1>7, <2>1, Zenon DEF SelectionInv, Wanted
  <1>8. CASE Setup("ClearFeature") /\ kept' = kept
    <2>1. "ClearFeature" \in Requests
      BY DEF Requests
    <2>2. calm' => kept
      BY <1>5, Zenon DEF SelectionInv
    <2> QED BY <1>3, <1>4, <1>8, <2>1, <2>2, SetupInv
  <1> QED BY <1>6, <1>7, <1>8 DEF Disturb

(* So does a request that comes to its end and restores the selection.     *)
LEMMA AnswerInv ==
    ASSUME SelectionInv, Answer
    PROVE  SelectionInv'
  <1>1. isr # <<>> /\ UsbTypeOK /\ Undisturbed
    BY DEF Answer, SelectionInv, SerialTypeOK
  <1>2. UNCHANGED <<pc, kept, calm, put>>
    BY <1>1 DEF Undisturbed, byteVars, callVars
  <1>3. SerialTypeOK'
    BY <1>1, <1>2, UsbTypes
    DEF Answer, Undisturbed, bankVars, byteVars, SelectionInv, SerialTypeOK
  <1>4. isr[1].prev = IF isr' = <<>> THEN selected' ELSE isr'[1].prev
    <2>1. CASE SetNumber
      BY <1>1, <2>1, NumberStack
    <2>2. CASE SetAddress \/ SetLineEncoding \/ ClearFeature
      BY <1>1, <2>2, LeaveSelection
         DEF SetAddress, SetLineEncoding, ClearFeature
    <2> QED BY <2>1, <2>2 DEF Answer
  <1> QED BY <1>1, <1>2, <1>3, <1>4 DEF SelectionInv, Wanted

(* So do the other interrupts and the host.                                *)
LEMMA BusInv ==
    ASSUME SelectionInv, Suspend \/ Wake \/ BusChange, Undisturbed
    PROVE  SelectionInv'
  <1>1. SerialTypeOK'
    BY UsbTypes
    DEF Undisturbed, bankVars, byteVars, callVars, SelectionInv, SerialTypeOK
  <1>2. UNCHANGED <<pc, kept, calm, put, isr, selected, ConfigurationNumber,
                    endpoints>>
    BY DEF Undisturbed, byteVars, callVars, Suspend, Wake, BusChange
  <1> QED BY <1>1, <1>2 DEF SelectionInv, Wanted

(* So does a transfer of data by the host.                                 *)
LEMMA HostInv ==
    ASSUME SelectionInv, HostIn \/ HostOut
    PROVE  SelectionInv'
  <1>1. UNCHANGED <<usbVars, pc, kept, calm, put>>
    BY DEF HostIn, HostOut, callVars
  <1>2. UsbTypeOK'
    BY <1>1 DEF SelectionInv, SerialTypeOK, UsbTypeOK, usbVars
  <1>3. CASE HostIn
    <2>1. got' \in 0 .. MaxBytes
      <3>1. CASE inb = <<>>
        BY <1>3, <3>1 DEF HostIn, SelectionInv, SerialTypeOK
      <3>2. CASE inb # <<>>
        <4>1. Len(inb) \in 1 .. Len(inb) /\ Len(inb) \in Nat
          BY <3>2, EmptySeq, LenProperties DEF SelectionInv, SerialTypeOK
        <4>2. inb[Len(inb)] \in 1 .. MaxBytes
          BY <4>1, ElementOfSeq, Zenon DEF SelectionInv, SerialTypeOK
        <4>3. got' = inb[Len(inb)]
          BY <1>3, <3>2 DEF HostIn
        <4> QED BY <4>2, <4>3, SerialAssumption
      <3> QED BY <3>1, <3>2
    <2>2. SerialTypeOK'
      BY <1>1, <1>2, <1>3, <2>1, EmptySeq, SerialAssumption, SMTT(30)
      DEF HostIn, SelectionInv, SerialTypeOK
    <2> QED BY <2>2, <1>1 DEF SelectionInv, Wanted, usbVars
  <1>4. CASE HostOut
    <2>1. /\ out' \in Seq(1 .. MaxBytes) /\ Len(out') <= BankSize
          /\ given' \in 0 .. MaxBytes
      <3>1. PICK size \in 0 .. BankSize :
                /\ put + given + size <= MaxBytes
                /\ out' = [n \in 1 .. size |-> given + n]
                /\ given' = given + size
        BY <1>4 DEF HostOut
      <3>2. /\ size \in Nat /\ given + size \in 0 .. MaxBytes
            /\ \A n \in 1 .. size : given + n \in 1 .. MaxBytes
        BY <3>1, SerialAssumption, SMTT(30) DEF SelectionInv, SerialTypeOK
      <3>3. out' \in [1 .. size -> 1 .. MaxBytes]
        BY <3>1, <3>2
      <3>4. out' \in Seq(1 .. MaxBytes) /\ DOMAIN out' = 1 .. size
        BY <3>2, <3>3, SeqDef, Zenon
      <3>5. Len(out') = size
        BY <3>2, <3>4, LenProperties
      <3> QED BY <3>1, <3>2, <3>4, <3>5, SerialAssumption
    <2>3. received' \in BOOLEAN
      BY <1>4, Zenon DEF HostOut
    <2>2. SerialTypeOK'
      BY <1>1, <1>2, <1>4, <2>1, <2>3 DEF HostOut, SelectionInv, SerialTypeOK
    <2> QED BY <2>2, <1>1 DEF SelectionInv, Wanted, usbVars
  <1> QED BY <1>3, <1>4

(* The invariant is preserved by every step.                               *)
LEMMA SelectionNextInv ==
    SelectionInv /\ [SerialNext]_serialVars => SelectionInv'
  <1> SUFFICES ASSUME SelectionInv, [SerialNext]_serialVars PROVE SelectionInv'
    OBVIOUS
  <1>1. CASE MainNext
    BY <1>1, MainInv
  <1>2. CASE Disturb
    BY <1>2, DisturbInv
  <1>3. CASE Answer
    BY <1>3, AnswerInv
  <1>4. ASSUME NEW r \in Requests, Setup(r) /\ Undisturbed PROVE SelectionInv'
    <2>1. UNCHANGED <<pc, kept, calm, put>>
      BY <1>4 DEF Undisturbed, byteVars, callVars
    <2>2. SerialTypeOK'
      BY <1>4, <2>1, UsbTypes
      DEF Undisturbed, bankVars, byteVars, SelectionInv, SerialTypeOK
    <2>3. calm' => kept
      BY <2>1 DEF SelectionInv
    <2> QED BY <1>4, <2>1, <2>2, <2>3, SetupInv
  <1>5. CASE (Suspend \/ Wake \/ BusChange) /\ Undisturbed
    BY <1>5, BusInv
  <1>6. CASE HostIn \/ HostOut
    BY <1>6, HostInv, SMTT(30)
  <1>7. CASE UNCHANGED serialVars
    BY <1>7 DEF serialVars, usbVars, bankVars, byteVars, callVars,
                SelectionInv, SerialTypeOK, UsbTypeOK, Wanted
  <1> QED BY <1>1, <1>2, <1>3, <1>4, <1>5, <1>6, <1>7 DEF SerialNext

(* For every bank size, however deeply control requests are nested and     *)
(* whatever bytes are sent: the main loop accesses the endpoint it has     *)
(* selected, unless the bus was reset in that call.                        *)
THEOREM SerialSelects == SerialSafety => []StrayOnlyAfterReset
  <1>1. SelectionInv => StrayOnlyAfterReset
    BY DEF SelectionInv, StrayOnlyAfterReset
  <1> QED
    BY <1>1, SelectionInitInv, SelectionNextInv, PTL DEF SerialSafety

(* The main loop reaches send_write only with room in the bank.            *)
LEMMA MainBankReady ==
    ASSUME SelectionInv, BankReady, MainNext
    PROVE  BankReady'
  <1> USE DEF Main, Goto, usbVars, bankVars, byteVars, InCall
  <1>1. pc = "send_clear" /\ calm => selected = "IN"
    BY MainStep DEF SelectionInv, Accesses, Receiving, Wanted
  <1>2. pc \in {"send_test", "send_wait"} /\ calm => selected = "IN"
    BY MainStep DEF SelectionInv, Accesses, Receiving, Wanted
  <1>3. CASE ReceiveByte \/ HandOn
    BY <1>3, Zenon DEF ReceiveByte, Check, Select, Test, Read_8, ClearOUT,
                HandOn, BankReady
  <1>4. CASE SendByte
    <2>1. CASE SendCheck \/ Select("IN", "send_select", "send_test")
               \/ SendWrite
      BY <2>1, Zenon DEF SendCheck, Select, SendWrite, BankReady
    <2>2. CASE Test("send_test", "IN", ReadWriteAllowed, "send_write",
                    "send_clear")
      BY <2>2, <1>2, Zenon DEF Test, BankReady, ReadWriteAllowed, INReady
    <2>3. CASE ClearIN("send_clear", "send_wait")
      BY <2>3, <1>1, Zenon DEF ClearIN, BankReady
    <2>4. CASE WaitUntilReady("send_wait", "send_write", "send")
      <3>1. inb = <<>> => Len(inb) < BankSize
        BY SerialAssumption, EmptySeq
      <3> QED BY <2>4, <3>1, <1>2, Zenon
              DEF WaitUntilReady, BankReady, ReadWriteAllowed, INReady
    <2> QED BY <1>4, <2>1, <2>2, <2>3, <2>4 DEF SendByte
  <1>5. CASE NoMoreBytes
    BY <1>5 DEF NoMoreBytes, BankReady
  <1>6. CASE USBTask
    BY <1>6, Zenon DEF USBTask, Flush, Check, Select, Test, ClearIN,
                          WaitUntilReady, BankReady
  <1> QED BY <1>3, <1>4, <1>5, <1>6, SMTT(30) DEF MainNext

(* ReceiveByte holds on to the packet it has found.                        *)
LEMMA MainPacketHeld ==
    ASSUME SelectionInv, PacketHeld, MainNext
    PROVE  PacketHeld'
  <1> USE DEF Main, Goto, usbVars, bankVars, byteVars, InCall, Receiving
  <1>0. pc \in Receiving /\ calm => selected = "OUT"
    BY MainStep DEF SelectionInv, Accesses, Wanted
  <1>9. -1 # 0
    OBVIOUS
  <1>1. CASE ReceiveByte
    <2>1. CASE \/ Check("recv", "recv_select", "select_in")
               \/ Select("OUT", "recv_select", "recv_test")
      BY <2>1, <1>9, Zenon DEF Check, Select, PacketHeld
    <2>2. CASE Test("recv_test", "OUT", received, "recv_any", "select_in")
      <3>1. UNCHANGED <<out, received, ret>> /\ pc = "recv_test"
        BY <2>2 DEF Test
      <3>2. calm' => calm \/ pc' \notin InCall
        BY <2>2, Zenon DEF Test
      <3>3. (pc' = "recv_any" /\ (calm => received)) \/ pc' = "select_in"
        <4>1. PICK holds \in IF selected = "OUT" THEN {received} ELSE BOOLEAN :
                  pc' = IF holds THEN "recv_any" ELSE "select_in"
          BY <2>2 DEF Test
        <4>2. calm /\ holds => received
          BY <1>0, <3>1, <4>1, Zenon
        <4> QED BY <4>1, <4>2, Zenon
      <3> QED BY <3>1, <3>2, <3>3, <1>9, Zenon DEF PacketHeld
    <2>3. CASE Test("recv_any", "OUT", out # <<>>, "recv_read", "recv_left")
      BY <2>3, <1>0, <1>9, Zenon DEF Test, PacketHeld
    <2>4. CASE Read_8
      <3>1. out # <<>> => Head(out) # 0
        BY NextByte DEF SelectionInv
      <3> QED BY <2>4, <3>1, <1>0, <1>9, Zenon DEF Read_8, PacketHeld
    <2>5. CASE Test("recv_left", "OUT", out # <<>>, "select_in", "recv_clear")
      BY <2>5, <1>0, <1>9, Zenon DEF Test, PacketHeld
    <2>6. CASE ClearOUT
      BY <2>6, <1>0, <1>9, Zenon DEF ClearOUT, PacketHeld
    <2> QED BY <1>1, <2>1, <2>2, <2>3, <2>4, <2>5, <2>6 DEF ReceiveByte
  <1>2. CASE HandOn
    BY <1>2 DEF HandOn, PacketHeld
  <1>3. CASE SendByte
    BY <1>3, <1>9, Zenon DEF SendByte, SendCheck, Select, Test, ClearIN,
                       WaitUntilReady, SendWrite, PacketHeld
  <1>4. CASE NoMoreBytes
    BY <1>4, <1>9, Zenon DEF NoMoreBytes, PacketHeld
  <1>5. CASE USBTask
    BY <1>5, <1>9, Zenon DEF USBTask, Flush, Check, Select, Test, ClearIN,
                       WaitUntilReady, PacketHeld
  <1> QED BY <1>1, <1>2, <1>3, <1>4, <1>5 DEF MainNext

(* Nobody else disturbs it without ending the calm.                        *)
LEMMA PacketHeldNext ==
    ASSUME SelectionInv, PacketHeld, [SerialNext]_serialVars
    PROVE  PacketHeld'
  <1>1. CASE MainNext
    BY <1>1, MainPacketHeld
  <1>2. CASE Disturb
    <2>1. UNCHANGED <<pc, ret>> /\ calm' = (pc \notin InCall)
      BY <1>2 DEF Disturb, byteVars
    <2>2. UNCHANGED <<out, received>> \/ EmptyOUT
      BY <1>2, Zenon DEF Disturb
    <2>3. -1 # 0
      OBVIOUS
    <2> QED BY <2>1, <2>2, <2>3, Zenon
            DEF EmptyOUT, PacketHeld, InCall, Receiving
  <1>3. CASE HostOut
    <2>1. UNCHANGED <<pc, ret, calm>> /\ received' /\ ~received
      BY <1>3, Zenon DEF HostOut, callVars
    <2> QED BY <2>1, Zenon DEF PacketHeld, Receiving
  <1>4. CASE UNCHANGED <<pc, ret, calm, out, received>>
    BY <1>4 DEF PacketHeld
  <1>5. Undisturbed => UNCHANGED <<pc, ret, calm, out, received>>
    BY DEF Undisturbed, bankVars, byteVars, callVars
  <1>6. HostIn \/ UNCHANGED serialVars =>
            UNCHANGED <<pc, ret, calm, out, received>>
    BY DEF HostIn, serialVars, bankVars, byteVars, callVars
  <1> QED BY <1>1, <1>2, <1>3, <1>4, <1>5, <1>6, Zenon DEF SerialNext, Answer

(* The inductive invariant of the serial port.                             *)
LEMMA SerialNextInv == SerialInv /\ [SerialNext]_serialVars => SerialInv'
  <1> SUFFICES ASSUME SelectionInv, BankReady, [SerialNext]_serialVars
               PROVE  BankReady'
    BY SelectionNextInv, PacketHeldNext DEF SerialInv
  <1> USE DEF BankReady, ReadWriteAllowed, INReady
  <1>1. CASE MainNext
    BY <1>1, MainBankReady
  <1>2. CASE Disturb
    BY <1>2, Zenon DEF Disturb, InCall
  <1>3. CASE Answer
    BY <1>3 DEF Answer, Undisturbed, bankVars, callVars, SetAddress,
                SetNumber, SetLineEncoding, ClearFeature
  <1>4. ASSUME NEW r \in Requests, Setup(r) /\ Undisturbed PROVE BankReady'
    BY <1>4 DEF Setup, Undisturbed, bankVars, callVars
  <1>5. CASE (Suspend \/ Wake \/ BusChange) /\ Undisturbed
    BY <1>5 DEF Suspend, Wake, BusChange, Undisturbed, bankVars, callVars
  <1>6. CASE HostIn
    BY <1>6 DEF HostIn, usbVars, callVars
  <1>7. CASE HostOut
    BY <1>7 DEF HostOut, usbVars, callVars
  <1>8. CASE UNCHANGED serialVars
    BY <1>8 DEF serialVars, usbVars, bankVars, byteVars, callVars
  <1> QED BY <1>1, <1>2, <1>3, <1>4, <1>5, <1>6, <1>7, <1>8 DEF SerialNext

(* Nothing but the host takes a byte from the bank, and a call that        *)
(* succeeds has added its own.                                             *)
LEMMA SentStep ==
    ASSUME SerialInv, [SerialNext]_serialVars, ~Disturb
    PROVE  /\ \/ inb' \in {inb, Append(inb, put)}
              \/ inb # <<>> /\ got' = inb[Len(inb)]
           /\ pc = "send_write" /\ pc' # pc /\ calm => inb' = Append(inb, put)
  <1>0. SelectionInv /\ SerialTypeOK
    BY DEF SerialInv, SelectionInv
  <1>1. CASE MainNext
    <2>1. CASE SendWrite
      <3>1. calm => inb' = Append(inb, put)
        BY <2>1 DEF SendWrite, SerialInv, BankReady, SelectionInv, Accesses,
                    Receiving, Wanted, Main
      <3>2. inb' \in {inb, Append(inb, put)}
        BY <2>1 DEF SendWrite
      <3> QED BY <3>1, <3>2
    <2>2. CASE Read_8 \/ ClearOUT \/ HandOn \/ SendCheck
      BY <2>2 DEF Read_8, ClearOUT, HandOn, SendCheck, Main, bankVars
    <2>3. CASE inb' = inb /\ ~SendWrite
      <3>1. pc # "send_write"
        BY <1>1, <2>3 DEF MainNext, ReceiveByte, SendByte, NoMoreBytes,
           USBTask, Flush, Check, Select, Test, ClearIN, WaitUntilReady,
           Read_8, ClearOUT, HandOn, SendCheck, Main
      <3>2. inb' = inb
        BY <2>3
      <3> QED BY <3>1, <3>2, SMTT(30)
    <2>4. \/ Read_8 \/ ClearOUT \/ HandOn \/ SendCheck \/ SendWrite
          \/ inb' = inb
      BY <1>0, <1>1, MainBytes, Zenon
    <2> QED BY <2>1, <2>2, <2>3, <2>4, Zenon
  <1>2. CASE Answer
    BY <1>2 DEF Answer, Undisturbed, bankVars
  <1>3. ASSUME NEW r \in Requests, Setup(r) /\ Undisturbed
        PROVE  inb' = inb /\ pc' = pc
    BY <1>3 DEF Undisturbed, bankVars
  <1>4. CASE (Suspend \/ Wake \/ BusChange) /\ Undisturbed
    BY <1>4 DEF Undisturbed, bankVars
  <1>5. CASE HostIn
    BY <1>5 DEF HostIn
  <1>6. CASE HostOut \/ UNCHANGED serialVars
    BY <1>6 DEF HostOut, serialVars, bankVars
  <1> QED BY <1>1, <1>2, <1>3, <1>4, <1>5, <1>6 DEF SerialNext

(* The calls of the serial port are always at a place where the endpoint   *)
(* selected, the bank and the interrupts under way allow them to be.       *)
THEOREM SerialInvariant == SerialSafety => []SerialInv
  <1>1. SerialInit => SerialInv
    BY SelectionInitInv DEF SerialInit, SerialInv, BankReady, PacketHeld,
                            Receiving
  <1> QED BY <1>1, SerialNextInv, PTL DEF SerialSafety

(* A byte SendByte has accepted is in the bank until the host fetches it,  *)
(* the bus is reset, the device is configured anew or a halt is cleared.   *)
THEOREM AcceptedIsSent == SerialSafety => SuccessMeansSent
  <1>1. SerialInv /\ [SerialNext]_serialVars =>
            [~Disturb =>
                /\ \/ inb' \in {inb, Append(inb, put)}
                   \/ inb # <<>> /\ got' = inb[Len(inb)]
                /\ pc = "send_write" /\ pc' # pc /\ calm =>
                       inb' = Append(inb, put)]_serialVars
    BY SentStep
  <1> QED
    BY <1>1, SerialInvariant, PTL DEF SerialSafety, SuccessMeansSent

(* A calm call takes the bytes of a packet one by one.                     *)
LEMMA TakenStep ==
    ASSUME SerialInv, [SerialNext]_serialVars, ~Disturb, calm
    PROVE  /\ \/ out' = out \/ out = <<>>
              \/ out' = Tail(out) /\ ret' = Head(out)
           /\ ret' # 0
  <1>0. SelectionInv /\ SerialTypeOK /\ PacketHeld /\ ret # 0
    BY DEF SerialInv, SelectionInv, PacketHeld
  <1>1. CASE Read_8
    <2>1. selected = "OUT" /\ out # <<>>
      BY <1>0, <1>1 DEF Read_8, Main, SelectionInv, PacketHeld, Accesses,
                        Receiving, Wanted
    <2>2. ret' = Head(out) /\ out' = Tail(out)
      BY <1>1, <2>1 DEF Read_8
    <2>3. Head(out) # 0
      BY <1>0, <2>1, NextByte
    <2> QED BY <2>2, <2>3
  <1>2. CASE ClearOUT
    BY <1>0, <1>2 DEF ClearOUT, Main, PacketHeld, byteVars
  <1>3. CASE HandOn
    BY <1>3 DEF HandOn, bankVars
  <1>4. CASE HostOut
    BY <1>0, <1>4 DEF HostOut, PacketHeld
  <1>5. CASE UNCHANGED <<out, ret>>
    BY <1>0, <1>5
  <1>6. SendCheck \/ SendWrite \/ Undisturbed \/ HostIn \/ UNCHANGED serialVars
            => UNCHANGED <<out, ret>>
    BY DEF SendCheck, SendWrite, Undisturbed, HostIn, serialVars, bankVars,
           byteVars
  <1>7. MainNext => \/ Read_8 \/ ClearOUT \/ HandOn \/ SendCheck \/ SendWrite
                    \/ UNCHANGED <<out, ret>>
    BY <1>0, MainBytes DEF byteVars
  <1> QED BY <1>1, <1>2, <1>3, <1>4, <1>5, <1>6, <1>7, Zenon
          DEF SerialNext, Answer

(* No byte of a packet is dropped and nothing else is taken for one in a   *)
(* call in which the banks are left alone, for packets of every length.    *)
THEOREM CommandsAreTaken == SerialSafety => CommandsTaken
  <1>1. SerialInv /\ [SerialNext]_serialVars =>
            [~Disturb /\ calm =>
                /\ \/ out' = out \/ out = <<>>
                   \/ out' = Tail(out) /\ ret' = Head(out)
                /\ ret' # 0]_serialVars
    BY TakenStep
  <1> QED BY <1>1, SerialInvariant, PTL DEF SerialSafety, CommandsTaken

(* Facts about sequences: what is left after one of the losses and         *)
(* deliveries below is a part of the sequence before.                      *)
LEMMA Parts ==
    ASSUME NEW q \in Seq(Nat), NEW e \in Nat
    PROVE  /\ Append(q, e) \in Seq(Nat) /\ Len(Append(q, e)) = Len(q) + 1
           /\ Len(q) \in Nat
           /\ q = SubSeq(Append(q, e), 1, Len(q))
           /\ <<e>> = SubSeq(Append(q, e), Len(q) + 1, Len(q) + 1)
           /\ <<>> = SubSeq(q, 1, 0)
           /\ <<>> = SubSeq(q, Len(q) + 1, Len(q))
           /\ q # <<>> => Append(q, e)[Len(q)] = q[Len(q)]
  <1>1. Append(q, e) \in Seq(Nat) /\ Len(Append(q, e)) = Len(q) + 1
        /\ Append(q, e)[Len(q) + 1] = e
        /\ \A n \in 1 .. Len(q) : Append(q, e)[n] = q[n]
    BY AppendProperties
  <1>2. Len(q) \in Nat /\ (q # <<>> => Len(q) \in 1 .. Len(q))
    BY LenProperties, EmptySeq
  <1> DEFINE a == Append(q, e)
  <1> HIDE DEF a
  <1>3. q = SubSeq(a, 1, Len(q))
    <2>1. /\ SubSeq(a, 1, Len(q)) \in Seq(Nat)
          /\ Len(SubSeq(a, 1, Len(q))) = Len(q)
          /\ \A n \in 1 .. Len(q) : SubSeq(a, 1, Len(q))[n] = a[n]
      BY <1>1, <1>2, SubSeqProperties, ElementOfSeq DEF a
    <2> QED BY <2>1, <1>1, SeqEqual DEF a
  <1>4. <<e>> = SubSeq(a, Len(q) + 1, Len(q) + 1)
    <2> DEFINE t == SubSeq(a, Len(q) + 1, Len(q) + 1)
    <2>1. t \in Seq(Nat) /\ Len(t) = 1 /\ t[1] = e
      BY <1>1, <1>2, SubSeqProperties DEF a
    <2>2. <<e>> \in Seq(Nat) /\ Len(<<e>>) = 1 /\ <<e>>[1] = e
      OBVIOUS
    <2> HIDE DEF t
    <2>3. <<e>> = t
      BY <2>1, <2>2, SeqEqual
    <2> QED BY <2>3 DEF t
  <1>5. <<>> = SubSeq(q, 1, 0) /\ <<>> = SubSeq(q, Len(q) + 1, Len(q))
    BY <1>2, SubSeqEmpty
  <1>6. q # <<>> => Append(q, e)[Len(q)] = q[Len(q)]
    BY <1>1, <1>2
  <1>7. Append(q, e) = a
    BY DEF a
  <1> QED BY <1>1, <1>2, <1>3, <1>4, <1>5, <1>6, <1>7, SMTT(30)

(* The same for a byte in front of a sequence.                             *)
LEMMA InFront ==
    ASSUME NEW q \in Seq(Nat), NEW e \in Nat
    PROVE  LET p == <<e>> \o q
           IN  /\ p \in Seq(Nat) /\ Len(p) = Len(q) + 1 /\ Len(q) \in Nat
               /\ p[1] = e
               /\ q = SubSeq(p, 2, Len(p))
               /\ <<e>> = SubSeq(p, 1, 1)
               /\ <<e>> \o <<>> = <<e>>
  <1> DEFINE p == <<e>> \o q
  <1>1. <<e>> \in Seq(Nat) /\ Len(<<e>>) = 1 /\ <<e>>[1] = e /\ Len(q) \in Nat
    BY LenProperties
  <1>2. /\ p \in Seq(Nat) /\ Len(p) = Len(q) + 1
        /\ \A n \in 1 .. Len(q) + 1 :
               p[n] = IF n <= 1 THEN <<e>>[n] ELSE q[n - 1]
    BY <1>1, ConcatProperties
  <1> HIDE DEF p
  <1>3. p[1] = e /\ \A n \in 1 .. Len(q) : p[n + 1] = q[n]
    BY <1>1, <1>2
  <1>4. q = SubSeq(p, 2, Len(p))
    <2> DEFINE t == SubSeq(p, 2, Len(p))
    <2>1. /\ t \in Seq(Nat) /\ Len(t) = Len(q)
          /\ \A n \in 1 .. Len(q) : t[n] = p[n + 1]
      BY <1>1, <1>2, SubSeqProperties, ElementOfSeq
    <2> HIDE DEF t
    <2>2. q = t
      BY <1>3, <2>1, SeqEqual
    <2> QED BY <2>2 DEF t
  <1>5. <<e>> = SubSeq(p, 1, 1)
    <2> DEFINE t == SubSeq(p, 1, 1)
    <2>1. t \in Seq(Nat) /\ Len(t) = 1 /\ t[1] = e
      BY <1>1, <1>2, <1>3, SubSeqProperties
    <2> HIDE DEF t
    <2>2. <<e>> = t
      BY <1>1, <2>1, SeqEqual
    <2> QED BY <2>2 DEF t
  <1>6. <<e>> \o <<>> = <<e>>
    BY <1>1, ConcatEmptySeq
  <1> QED BY <1>1, <1>2, <1>3, <1>4, <1>5, <1>6 DEF p

(* The two queues are sequences of numbers.                                *)
LEMMA Numbers ==
    ASSUME SerialTypeOK
    PROVE  /\ inb \in Seq(Nat) /\ out \in Seq(Nat)
           /\ {put, got, given, read} \subseteq Nat
           /\ onTheWay \in Seq(Nat) /\ Len(onTheWay) \in Nat
           /\ ret > 0 => ret \in Nat
  <1>1. inb \in Seq(Nat) /\ out \in Seq(Nat)
    <2>1. 1 .. MaxBytes \subseteq Nat
      BY SerialAssumption
    <2>2. inb \in Seq(1 .. MaxBytes) /\ out \in Seq(1 .. MaxBytes)
      BY DEF SerialTypeOK
    <2> QED BY <2>1, <2>2, SeqMonotonic, Zenon
  <1>2. {put, got, given, read} \subseteq Nat
    BY SerialAssumption DEF SerialTypeOK
  <1>3. onTheWay \in Seq(Nat)
    BY <1>1, <1>2, AppendProperties DEF onTheWay
  <1>4. ret > 0 => ret \in Nat
    BY SerialAssumption DEF SerialTypeOK
  <1> QED BY <1>1, <1>2, <1>3, <1>4, LenProperties

(* A step of the main loop is one of the channel of replies: a call of     *)
(* SendByte puts a byte in, and one that fails loses it.                   *)
LEMMA RepliesMain ==
    ASSUME SerialInv, MainNext
    PROVE  [Replies!ChannelNext]_(Replies!channelVars)
  <1> USE DEF Replies!ChannelNext, Replies!channelVars
  <1>0. SelectionInv /\ SerialTypeOK
    BY DEF SerialInv, SelectionInv
  <1>1. CASE SendCheck
    <2>1. pc \notin Sending /\ put' = put + 1 /\ inb' = inb /\ got' = got
      BY <1>1 DEF SendCheck, Main, Sending, bankVars
    <2>2. put' \in Nat /\ put' > put /\ put' - put = 1
      BY <1>0, <2>1, Numbers
    <2>3. Append(inb, put + 1) = inb \o [n \in 1 .. put' - put |-> put + n]
      <3> DEFINE t == [n \in 1 .. 1 |-> put + n]
      <3>1. put + 1 \in Nat /\ inb \in Seq(Nat)
        BY <1>0, Numbers
      <3>2. t \in Seq(Nat) /\ Len(t) = 1 /\ t[1] = put + 1
        BY <3>1
      <3>3. <<put + 1>> \in Seq(Nat) /\ Len(<<put + 1>>) = 1
        BY <3>1
      <3> HIDE DEF t
      <3>4. t = <<put + 1>>
        BY <3>1, <3>2, <3>3, SeqEqual
      <3>5. Append(inb, put + 1) = inb \o <<put + 1>>
        BY <3>1, AppendIsConcat
      <3> QED BY <2>2, <3>4, <3>5 DEF t
    <2>4. onTheWay = inb /\ onTheWay' \in {inb, Append(inb, put + 1)}
      BY <2>1 DEF onTheWay
    <2>5. Replies!Put
      BY <2>1, <2>2, <2>3, <2>4, Zenon DEF Replies!Put
    <2> QED BY <2>5
  <1>2. CASE SendWrite
    <2>1. /\ pc \in Sending /\ pc' \notin Sending /\ UNCHANGED <<put, got>>
          /\ inb' \in {inb, Append(inb, put)}
      BY <1>2 DEF SendWrite, Main, Goto, Sending, byteVars
    <2>2. CASE inb' = Append(inb, put)
      BY <2>1, <2>2 DEF onTheWay
    <2>3. CASE inb' = inb
      <3>1. /\ onTheWay = Append(inb, put) /\ onTheWay' = inb
            /\ inb = SubSeq(onTheWay, 1, Len(inb))
            /\ Len(inb) \in 0 .. Len(onTheWay) /\ 1 \in 1 .. Len(onTheWay) + 1
        BY <1>0, <2>1, <2>3, Numbers, Parts DEF onTheWay
      <3>2. onTheWay' = SubSeq(onTheWay, 1, Len(inb))
        BY <3>1
      <3>3. Replies!Lose
        BY <2>1, <3>1, <3>2, SMTT(30) DEF Replies!Lose
      <3> QED BY <3>3
    <2> QED BY <2>1, <2>2, <2>3
  <1>3. CASE Read_8 \/ ClearOUT \/ HandOn
    BY <1>3 DEF Read_8, ClearOUT, HandOn, Main, Goto, onTheWay, Sending,
                bankVars, byteVars
  <1>4. CASE UNCHANGED <<inb, put, got>> /\ onTheWay' \in {onTheWay, inb}
    <2>1. CASE onTheWay' = onTheWay
      BY <1>4, <2>1
    <2>2. CASE onTheWay' = inb /\ pc \in Sending
      <3>1. /\ inb = SubSeq(onTheWay, 1, Len(inb))
            /\ Len(inb) \in 0 .. Len(onTheWay) /\ 1 \in 1 .. Len(onTheWay) + 1
        BY <1>0, <2>2, Numbers, Parts, SMTT(30) DEF onTheWay
      <3> QED BY <1>4, <2>2, <3>1 DEF Replies!Lose
    <2> QED BY <1>4, <2>1, <2>2 DEF onTheWay
  <1>5. \/ Read_8 \/ ClearOUT \/ HandOn \/ SendCheck \/ SendWrite
        \/ UNCHANGED <<inb, put, got>> /\ onTheWay' \in {onTheWay, inb}
    BY <1>0, MainBytes DEF byteVars
  <1> QED BY <1>1, <1>2, <1>3, <1>4, <1>5

(* What empties the bank loses its bytes, but not the one on its way.      *)
LEMMA RepliesDisturb ==
    ASSUME SerialTypeOK, Disturb, inb' = <<>>
    PROVE  Replies!Lose
  <1>1. UNCHANGED <<pc, put, got>> /\ inb' = <<>>
    BY DEF Disturb, byteVars
  <1>2. CASE pc \in Sending
    <2>1. onTheWay = Append(inb, put) /\ onTheWay' = Append(<<>>, put)
      BY <1>1, <1>2 DEF onTheWay
    <2>2. Append(<<>>, put) = <<put>>
      BY Numbers
    <2>3. /\ onTheWay' = SubSeq(onTheWay, Len(inb) + 1, Len(inb) + 1)
          /\ Len(inb) + 1 \in 1 .. Len(onTheWay) + 1
          /\ Len(inb) + 1 \in 0 .. Len(onTheWay)
      BY <2>1, <2>2, Numbers, Parts
    <2> QED BY <1>1, <2>3 DEF Replies!Lose
  <1>3. CASE pc \notin Sending
    <2>1. /\ onTheWay' = SubSeq(onTheWay, 1, 0)
          /\ 1 \in 1 .. Len(onTheWay) + 1 /\ 0 \in 0 .. Len(onTheWay)
      BY <1>1, <1>3, Numbers, Parts DEF onTheWay
    <2> QED BY <1>1, <2>1 DEF Replies!Lose
  <1> QED BY <1>2, <1>3

(* The host takes all bytes of the bank, but not the one on its way there. *)
LEMMA RepliesHostIn ==
    ASSUME SerialTypeOK, HostIn, inb # <<>>
    PROVE  Replies!Deliver
  <1>1. UNCHANGED <<pc, put>> /\ inb' = <<>> /\ got' = inb[Len(inb)]
    BY DEF HostIn
  <1>2. Len(inb) \in Nat \ {0}
    BY EmptySeq DEF SerialTypeOK
  <1>3. CASE pc \in Sending
    <2>1. onTheWay = Append(inb, put) /\ onTheWay' = Append(<<>>, put)
      BY <1>1, <1>3 DEF onTheWay
    <2>2. Append(<<>>, put) = <<put>>
      BY Numbers
    <2>3. /\ onTheWay' = SubSeq(onTheWay, Len(inb) + 1, Len(onTheWay))
          /\ Len(inb) \in 1 .. Len(onTheWay)
          /\ got' = onTheWay[Len(inb)]
      BY <1>1, <1>2, <2>1, <2>2, Numbers, Parts, SMTT(30)
    <2> QED BY <1>1, <2>3 DEF Replies!Deliver
  <1>4. CASE pc \notin Sending
    <2>1. /\ onTheWay' = SubSeq(onTheWay, Len(inb) + 1, Len(onTheWay))
          /\ Len(inb) \in 1 .. Len(onTheWay)
          /\ got' = onTheWay[Len(inb)]
      BY <1>1, <1>2, <1>4, Numbers, Parts DEF onTheWay
    <2> QED BY <1>1, <2>1 DEF Replies!Deliver
  <1> QED BY <1>3, <1>4

(* Every step of the serial port is one of the channel of replies.         *)
LEMMA RepliesStep ==
    SerialInv /\ [SerialNext]_serialVars =>
        [Replies!ChannelNext]_(Replies!channelVars)
  <1> SUFFICES ASSUME SerialInv, [SerialNext]_serialVars
               PROVE  [Replies!ChannelNext]_(Replies!channelVars)
    OBVIOUS
  <1> USE DEF Replies!ChannelNext
  <1>0. SerialTypeOK
    BY DEF SerialInv, SelectionInv
  <1>1. CASE MainNext
    BY <1>1, RepliesMain
  <1>2. CASE Disturb /\ inb' = <<>>
    BY <1>0, <1>2, RepliesDisturb
  <1>3. CASE UNCHANGED <<inb, pc, put, got>>
    BY <1>3 DEF Replies!channelVars, onTheWay
  <1>4. Disturb /\ inb' # <<>> => UNCHANGED <<inb, pc, put, got>>
    BY DEF Disturb, EmptyIN, byteVars
  <1>5. Answer \/ HostOut \/ UNCHANGED serialVars => UNCHANGED <<inb, pc, put, got>>
    BY DEF Answer, HostOut, Undisturbed, bankVars, byteVars, serialVars
  <1>6. Undisturbed => UNCHANGED <<inb, pc, put, got>>
    BY DEF Undisturbed, bankVars, byteVars
  <1>7. CASE HostIn /\ inb # <<>>
    BY <1>0, <1>7, RepliesHostIn
  <1>8. HostIn /\ inb = <<>> => UNCHANGED <<inb, pc, put, got>>
    BY DEF HostIn
  <1> QED BY <1>1, <1>2, <1>3, <1>4, <1>5, <1>6, <1>7, <1>8 DEF SerialNext

(* For all constants and any interrupts: replies may be lost, but arrive   *)
(* in the order of the calls of usb_putc and never twice.                  *)
THEOREM RepliesKeepOrder == SerialSafety => RepliesInOrder
  <1>1. SerialInit => Replies!ChannelInit
    BY DEF SerialInit, Replies!ChannelInit, onTheWay, Sending
  <1> QED
    BY <1>1, SerialInvariant, RepliesStep, PTL
    DEF SerialSafety, RepliesInOrder, Replies!ChannelSpec

(* What empties the bank loses its bytes, but not the one read before.     *)
LEMMA CommandsLost ==
    ASSUME SerialTypeOK, out' = <<>>, UNCHANGED <<given, read, ret>>
    PROVE  Commands!Lose
  <1>1. CASE ret > 0
    <2>1. /\ unhandled = <<ret>> \o out /\ unhandled' = <<ret>> \o <<>>
          /\ ret \in Nat /\ out \in Seq(Nat)
      BY <1>1, Numbers DEF unhandled
    <2>2. /\ unhandled' = SubSeq(unhandled, 1, 1)
          /\ 1 \in 1 .. Len(unhandled) + 1 /\ 1 \in 0 .. Len(unhandled)
      BY <2>1, InFront
    <2> QED BY <2>2 DEF Commands!Lose
  <1>2. CASE ~(ret > 0)
    <2>1. unhandled = out /\ unhandled' = <<>>
      BY <1>2 DEF unhandled
    <2>2. /\ <<>> = SubSeq(out, 1, 0) /\ 1 \in 1 .. Len(out) + 1
          /\ 0 \in 0 .. Len(out)
      BY Numbers, Parts
    <2> QED BY <2>1, <2>2 DEF Commands!Lose
  <1> QED BY <1>1, <1>2

(* A packet of the host follows whatever has not been handled yet.         *)
LEMMA CommandsHostOut ==
    ASSUME SerialInv, HostOut
    PROVE  Commands!Put \/ UNCHANGED Commands!channelVars
  <1>0. SerialTypeOK /\ out = <<>> /\ UNCHANGED <<read, ret>>
    BY DEF SerialInv, SelectionInv, PacketHeld, HostOut
  <1>1. PICK size \in 0 .. BankSize :
            /\ out' = [n \in 1 .. size |-> given + n]
            /\ given' = given + size
    BY DEF HostOut
  <1>2. given \in Nat /\ size \in Nat /\ (ret > 0 => ret \in Nat)
    BY <1>0, <1>1, Numbers, SerialAssumption
  <1>3. CASE size = 0
    <2>1. out' = <<>> /\ given' = given
      BY <1>1, <1>2, <1>3
    <2> QED BY <1>0, <2>1 DEF Commands!channelVars, unhandled
  <1>4. CASE size # 0
    <2>1. given' \in Nat /\ given' > given /\ given' - given = size
      BY <1>1, <1>2, <1>4
    <2>2. out' = [n \in 1 .. given' - given |-> given + n]
      BY <1>1, <2>1
    <2>3. out' \in Seq(Nat)
      <3>1. out' \in [1 .. size -> Nat]
        BY <1>1, <1>2
      <3> QED BY <1>2, <3>1, SeqDef
    <2>4. unhandled' = unhandled \o out'
      <3>1. CASE ret > 0
        <4>1. unhandled = <<ret>> /\ unhandled' = <<ret>> \o out'
          BY <1>0, <1>2, <3>1, InFront, EmptySeq DEF unhandled
        <4> QED BY <4>1
      <3>2. CASE ~(ret > 0)
        <4>1. unhandled = <<>> /\ unhandled' = out'
          BY <1>0, <3>2 DEF unhandled
        <4> QED BY <2>3, <4>1, ConcatEmptySeq
      <3> QED BY <3>1, <3>2
    <2> QED BY <1>0, <2>1, <2>2, <2>4, Zenon DEF Commands!Put
  <1> QED BY <1>3, <1>4

(* Every step is one of the channel of commands, too: HostOut puts bytes   *)
(* in, loop() takes one out.                                               *)
LEMMA CommandsStep ==
    SerialInv /\ [SerialNext]_serialVars =>
        [Commands!ChannelNext]_(Commands!channelVars)
  <1> SUFFICES ASSUME SerialInv, [SerialNext]_serialVars
               PROVE  [Commands!ChannelNext]_(Commands!channelVars)
    OBVIOUS
  <1> USE DEF Commands!ChannelNext
  <1>0. SerialTypeOK /\ PacketHeld
    BY DEF SerialInv, SelectionInv
  <1>1. CASE Read_8
    <2>1. ret = -1 /\ UNCHANGED <<given, read>>
      BY <1>0, <1>1 DEF Read_8, Main, PacketHeld
    <2>2. unhandled = out
      BY <2>1 DEF unhandled
    <2>3. CASE selected = "OUT" /\ out # <<>>
      <3>1. ret' = Head(out) /\ out' = Tail(out)
        BY <1>1, <2>3 DEF Read_8
      <3>2. unhandled' = out
        BY <1>0, <2>3, <3>1, NextByte DEF unhandled
      <3> QED BY <2>1, <2>2, <3>2 DEF Commands!channelVars
    <2>4. CASE ~(selected = "OUT" /\ out # <<>>)
      BY <1>1, <2>1, <2>2, <2>4 DEF Read_8, unhandled, Commands!channelVars
    <2> QED BY <2>3, <2>4
  <1>2. CASE ClearOUT \/ Disturb
    <2>1. UNCHANGED <<given, read, ret>> /\ out' \in {out, <<>>}
      BY <1>2 DEF ClearOUT, Disturb, EmptyOUT, byteVars
    <2>2. CASE out' = <<>>
      BY <1>0, <2>1, <2>2, CommandsLost
    <2>3. CASE out' = out
      BY <2>1, <2>3 DEF unhandled, Commands!channelVars
    <2> QED BY <2>1, <2>2, <2>3
  <1>3. CASE HandOn
    <2>1. /\ UNCHANGED <<given, out>> /\ unhandled' = out
          /\ read' = IF ret > 0 THEN ret ELSE read
      BY <1>3 DEF HandOn, unhandled, bankVars
    <2>2. CASE ret > 0
      <3>1. /\ unhandled = <<ret>> \o out /\ ret \in Nat /\ out \in Seq(Nat)
        BY <1>0, <2>2, Numbers DEF unhandled
      <3>2. /\ 1 \in 1 .. Len(unhandled) /\ read' = unhandled[1]
            /\ unhandled' = SubSeq(unhandled, 1 + 1, Len(unhandled))
        BY <2>1, <2>2, <3>1, InFront
      <3>3. Commands!Deliver
        BY <2>1, <3>2 DEF Commands!Deliver
      <3> QED BY <3>3
    <2>3. CASE ~(ret > 0)
      BY <2>1, <2>3 DEF unhandled, Commands!channelVars
    <2> QED BY <2>2, <2>3
  <1>4. CASE HostOut
    BY <1>4, CommandsHostOut
  <1>5. CASE UNCHANGED <<out, given, read, ret>>
    BY <1>5 DEF unhandled, Commands!channelVars
  <1>6. SendCheck \/ SendWrite \/ Undisturbed \/ HostIn \/ UNCHANGED serialVars
            => UNCHANGED <<out, given, read, ret>>
    BY DEF SendCheck, SendWrite, Undisturbed, HostIn, serialVars, bankVars,
           byteVars
  <1>7. MainNext => \/ Read_8 \/ ClearOUT \/ HandOn \/ SendCheck \/ SendWrite
                    \/ UNCHANGED <<out, given, read, ret>>
    BY <1>0, MainBytes DEF byteVars
  <1> QED BY <1>1, <1>2, <1>3, <1>4, <1>5, <1>6, <1>7, Zenon
          DEF SerialNext, Answer

(* A command byte may be lost, but is handled in its turn and only once.   *)
THEOREM CommandsKeepOrder == SerialSafety => CommandsInOrder
  <1>1. SerialInit => Commands!ChannelInit
    BY DEF SerialInit, Commands!ChannelInit, unhandled
  <1> QED
    BY <1>1, SerialInvariant, CommandsStep, PTL
    DEF SerialSafety, CommandsInOrder, Commands!ChannelSpec

-----------------------------------------------------------------------------
(* What ByteChannel_proofs shows of a channel, for both directions.        *)
RepliesChannel == INSTANCE ByteChannel_proofs WITH queue <- onTheWay
CommandsChannel ==
    INSTANCE ByteChannel_proofs WITH
        put <- given, queue <- unhandled, got <- read

(* What the host receives is numbered upwards: whatever is lost, whatever  *)
(* interrupts come when, no reply is received twice or after a later one.  *)
THEOREM RepliesNeverTwice == SerialSafety => Replies!NeverTwice
  <1>1. Replies!ChannelInit => RepliesChannel!ChannelInit
    BY DEF Replies!ChannelInit, RepliesChannel!ChannelInit
  <1>2. [Replies!ChannelNext]_(Replies!channelVars) =>
            [RepliesChannel!ChannelNext]_(RepliesChannel!channelVars)
    BY ZenonT(30)
    DEF Replies!ChannelNext, Replies!Put, Replies!Lose, Replies!Deliver,
       Replies!channelVars, RepliesChannel!ChannelNext, RepliesChannel!Put,
       RepliesChannel!Lose, RepliesChannel!Deliver, RepliesChannel!channelVars
  <1>3. [got' # got => got' > got]_(RepliesChannel!channelVars) =>
            [got' # got => got' > got]_(Replies!channelVars)
    BY DEF Replies!channelVars, RepliesChannel!channelVars
  <1>4. RepliesChannel!ChannelSpec => RepliesChannel!NeverTwice
    BY RepliesChannel!ChannelKeepsOrder, PTL
  <1> QED
    BY <1>1, <1>2, <1>3, <1>4, RepliesKeepOrder, PTL
    DEF RepliesInOrder, Replies!ChannelSpec, RepliesChannel!ChannelSpec,
        Replies!NeverTwice, RepliesChannel!NeverTwice

(* No byte of the host is handled twice or after a later one.              *)
THEOREM CommandsNeverTwice == SerialSafety => Commands!NeverTwice
  <1>1. Commands!ChannelInit => CommandsChannel!ChannelInit
    BY DEF Commands!ChannelInit, CommandsChannel!ChannelInit
  <1>2. [Commands!ChannelNext]_(Commands!channelVars) =>
            [CommandsChannel!ChannelNext]_(CommandsChannel!channelVars)
    BY ZenonT(30)
    DEF Commands!ChannelNext, Commands!Put, Commands!Lose, Commands!Deliver,
       Commands!channelVars, CommandsChannel!ChannelNext, CommandsChannel!Put,
       CommandsChannel!Lose, CommandsChannel!Deliver, CommandsChannel!channelVars
  <1>3. [read' # read => read' > read]_(CommandsChannel!channelVars) =>
            [read' # read => read' > read]_(Commands!channelVars)
    BY DEF Commands!channelVars, CommandsChannel!channelVars
  <1>4. CommandsChannel!ChannelSpec => CommandsChannel!NeverTwice
    BY CommandsChannel!ChannelKeepsOrder, PTL
  <1> QED
    BY <1>1, <1>2, <1>3, <1>4, CommandsKeepOrder, PTL
    DEF CommandsInOrder, Commands!ChannelSpec, CommandsChannel!ChannelSpec,
        Commands!NeverTwice, CommandsChannel!NeverTwice
=============================================================================
