------------------------------ MODULE DialPhone ------------------------------
(***************************************************************************)
(* dial_scan connected to a telephone.  External: the telephone, as the    *)
(* contacts dial.c was written for.  The dialing contact is closed while   *)
(* the dial is away from rest; meanwhile every pulse opens the impulse     *)
(* contact once.  A contact that opens may chatter for Bounce scans.       *)
(***************************************************************************)
EXTENDS Dial

CONSTANTS
    Bounce,         \* scans for which a contact that opens may chatter
    HookMin,        \* scans for which the hangup contact keeps its position
    MaxPulses       \* pulses of the largest digit

ASSUME PhoneAssumption ==
    Bounce \in Nat /\ HookMin \in Nat /\ MaxPulses \in Nat

VARIABLES
    impulse, dialing, hook,     \* positions of the contacts
    ageI, ageD,                 \* scans since impulse and dialing opened
    ageH,                       \* scans since hook changed
    pulses,                     \* pulses since the dial was wound up
    blurred,                    \* history: was part of the rotation missed?
    due,                        \* history: is a digit due for the host?
    lastHook                    \* history: position reported last

contactVars == <<impulse, dialing, hook, ageI, ageD, ageH>>
phoneVars == <<dialVars, contactVars, pulses, blurred, due, lastHook>>

(* A full hold time, and the chatter, fit between two openings.            *)
ImpulseGap == IMPULSE_HOLD + Bounce + 1
DialGap == DIAL_HOLD + Bounce + 1
HookSettled == 2 * HANGUP_HOLD

(* The firmware starts with the dial at rest and takes that for the end of *)
(* a rotation without pulses.                                              *)
PhoneInit ==
    /\ DialInit
    /\ impulse = 0 /\ dialing = 1 /\ hook \in 0 .. 1
    /\ ageI = ImpulseGap /\ ageD = 0 /\ ageH = 0
    /\ pulses = 0
    /\ blurred = FALSE
    /\ due = "yes"
    /\ lastHook = 0

-----------------------------------------------------------------------------
Older(age, limit) == IF age < limit THEN age + 1 ELSE age

(* How the contacts may move between two scans.                            *)
MayMove(i, d, h) ==
    /\ i > impulse => /\ dialing = 0 /\ d = 0
                       /\ ageI >= ImpulseGap /\ pulses < MaxPulses
    /\ i < impulse => ageI >= Bounce
    /\ d > dialing => i = 0 /\ impulse = 0 /\ ageD >= DialGap
    /\ d < dialing => ageD >= Bounce
    /\ h # hook => ageH >= HookMin

(* What a scan may read from a contact that opened age scans ago.          *)
Reads(level, age) == IF level = 1 /\ age < Bounce THEN 0 .. 1 ELSE {level}

Move(i, d, h) ==
    /\ MayMove(i, d, h)
    /\ impulse' = i /\ dialing' = d /\ hook' = h
    /\ ageI' = IF i > impulse THEN 0 ELSE Older(ageI, ImpulseGap)
    /\ ageD' = IF d > dialing THEN 0 ELSE Older(ageD, DialGap)
    /\ ageH' = IF h # hook THEN 0 ELSE Older(ageH, HookSettled)
    /\ pulses' = IF d < dialing THEN 0
                 ELSE IF i > impulse THEN pulses + 1 ELSE pulses

(* A hangup event may have displaced the digit that was due.               *)
DueAfter(expected, kind) ==
    CASE kind = "digit" -> IF expected = "no" THEN "unexpected" ELSE "no"
      [] kind \in {"H", "h"} /\ expected = "yes" -> "displaced"
      [] OTHER -> expected

(* The contacts move, then the main loop scans them.                       *)
Scan ==
    \E i, d, h \in 0 .. 1 :
        /\ Move(i, d, h)
        /\ \E ri \in Reads(i, ageI'), rd \in Reads(d, ageD') :
               dial_scan(ri, rd, h)
        /\ blurred' = (blurred /\ d >= dialing)
        /\ due' = DueAfter(IF d > dialing THEN "yes" ELSE due, rv'.kind)
        /\ lastHook' = CASE rv' = OffHook -> 1
                         [] rv' = OnHook -> 0
                         [] OTHER -> lastHook

(* While open_locc sends its telegram nothing is scanned.  Every contact   *)
(* may change its position once meanwhile, and any number of pulses pass.  *)
(* A dial that is wound up meanwhile gives its first pulse only after the  *)
(* telegram, so this is the same as winding it up before the next scan.    *)
(* A usb_putc that waits for the host, or a control request, stops the     *)
(* scans as well; a stop so long that the dial is wound up and runs back   *)
(* while it lasts is not modelled.                                         *)
Blind ==
    \E i, h \in 0 .. 1, d \in dialing .. 1 :
        /\ MayMove(i, d, h)
        /\ impulse' = i /\ dialing' = d /\ hook' = h
        /\ ageI' = IF i > impulse THEN 0 ELSE ageI
        /\ ageD' = IF d > dialing THEN 0 ELSE ageD
        /\ ageH' = IF h # hook THEN 0 ELSE ageH
        /\ pulses' \in CASE dialing = 1 -> {pulses}
                         [] i > impulse -> pulses + 1 .. MaxPulses
                         [] OTHER -> pulses .. MaxPulses
        /\ blurred' = (blurred \/ dialing = 0)
        /\ due' = IF d > dialing THEN "yes" ELSE due
        /\ UNCHANGED <<dialVars, lastHook>>

PhoneNext == Scan \/ Blind

PhoneSpec == PhoneInit /\ [][PhoneNext]_phoneVars

-----------------------------------------------------------------------------
PhoneTypeOK ==
    /\ DialTypeOK
    /\ impulse \in 0 .. 1 /\ dialing \in 0 .. 1 /\ hook \in 0 .. 1
    /\ ageI \in 0 .. ImpulseGap /\ ageD \in 0 .. DialGap
    /\ ageH \in 0 .. HookSettled
    /\ pulses \in 0 .. MaxPulses
    /\ blurred \in BOOLEAN
    /\ due \in {"yes", "no", "displaced", "unexpected"}
    /\ lastHook \in 0 .. 1

(* Every rotation of the dial is reported once, as soon as its contact has *)
(* stopped chattering, unless a hangup event displaces it (dial_scan       *)
(* returns one event per scan); a reported digit is the number of pulses   *)
(* of the rotation that has just ended, ten standing for 0.  Only a        *)
(* rotation during which a telegram was sent may be reported with another  *)
(* digit, and nothing of it is left in dial_counter for the next one.      *)
DigitsFaithful ==
    /\ due # "unexpected"
    /\ due = "yes" => ageD < Bounce
    /\ rv.kind = "digit" /\ ~blurred => rv = Digit(pulses % 10)

(* The hangup contact is used for flow control: it begins and ends an      *)
(* input sequence.  So once it has kept a position for long, the host has  *)
(* been told of that position last.                                        *)
HookEventsTellPosition == ageH = HookSettled => lastHook = hook

-----------------------------------------------------------------------------
(* What the first property needs of the telephone: a contact that opens    *)
(* stays open for a scan at least, it stops chattering within the hold     *)
(* time, and no rotation has more than ten pulses.                         *)
ChatterIsShort ==
    /\ Bounce \in 1 .. IMPULSE_HOLD /\ Bounce \in 1 .. DIAL_HOLD
    /\ MaxPulses <= 10

(* What the second one needs: the hook keeps a position for a hold time.   *)
HookIsSlow == HookMin >= HANGUP_HOLD

(* The hold time begins while the contact may chatter and outlasts that,   *)
(* and it is over before the contact may open again.                       *)
Covers(counter, age, hold) == age < Bounce => counter + age >= hold
Expires(counter, age, hold) == counter + age <= hold + Bounce

(* The inductive invariant behind DigitsFaithful.  The impulse contact is  *)
(* open during a rotation only.  A contact that is open and has not been   *)
(* noticed yet still chatters.  The counter is behind the pulses by the    *)
(* one that has not been noticed, and is reset when the digit is formed;   *)
(* until then a digit is due.  If scans are missed in a rotation, the      *)
(* release of the impulse contact may be missed with them.                 *)
ImpulseInv ==
    /\ impulse = 1 => dialing = 0
    /\ impulse = 1 /\ state_impulse = 0 => ageI < Bounce
    /\ state_impulse > 1 => Expires(state_impulse, ageI, IMPULSE_HOLD)
    /\ ~blurred /\ state_impulse > 0 =>
           IF impulse = 1 THEN Covers(state_impulse, ageI, IMPULSE_HOLD)
                          ELSE Expires(state_impulse, ageI, IMPULSE_HOLD)

DialingInv ==
    /\ dialing = 1 /\ state_dialing = 0 => ageD < Bounce
    /\ state_dialing > 1 => Expires(state_dialing, ageD, DIAL_HOLD)
    /\ state_dialing > 0 =>
           IF dialing = 1 THEN Covers(state_dialing, ageD, DIAL_HOLD)
                          ELSE Expires(state_dialing, ageD, DIAL_HOLD)

CountInv ==
    IF dialing = 1 /\ state_dialing > 0
    THEN dial_counter = 0 /\ due # "yes"
    ELSE /\ dialing = 0 => due # "yes"
         /\ dialing = 1 => due \in {"yes", "displaced"}
         /\ ~blurred => dial_counter =
                IF impulse = 1 /\ state_impulse = 0 THEN pulses - 1 ELSE pulses

DigitsInv ==
    /\ PhoneTypeOK /\ due # "unexpected"
    /\ ImpulseInv /\ DialingInv /\ CountInv
    /\ rv.kind = "digit" /\ ~blurred => rv = Digit(pulses % 10)

(* The inductive invariant behind HookEventsTellPosition: what the host    *)
(* was told last is the settled level, or the position itself while a hold *)
(* time runs; only a movement that was not scanned yet is not reported.    *)
HookInv ==
    IF state_hangup > 1
    THEN lastHook = hook /\ state_hangup + ageH <= HANGUP_HOLD + 1
    ELSE lastHook = state_hangup /\ (state_hangup # hook => ageH = 0)

PhoneInv == DigitsInv /\ HookInv
=============================================================================
