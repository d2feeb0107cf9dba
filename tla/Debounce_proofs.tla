--------------------------- MODULE Debounce_proofs ---------------------------
(***************************************************************************)
(* Proofs about what is built on the debouncing counter.  The keypad:      *)
(* whichever keys are pressed and for however long a key is held off, a    *)
(* scan reports only keys that are down, and each press at most once.  The *)
(* dial: every rotation is reported once, with its number of pulses, and   *)
(* the position of the hook that was reported last is the true one.        *)
(***************************************************************************)
EXTENDS Keypad, DialPhone, TLAPS

(* What a scan leaves in a debouncing counter.                             *)
LEMMA DebouncedRange ==
    ASSUME NEW hold \in Nat, hold > 1, NEW c \in 0 .. hold, NEW level
    PROVE  /\ Debounced(c, level, hold) \in 0 .. hold
           /\ level = 1 => Debounced(c, level, hold) >= 1
           /\ c <= 1 /\ level = 0 => Debounced(c, level, hold) = 0
           /\ c > 1 => Debounced(c, level, hold) = c - 1
  BY DEF Debounced

-----------------------------------------------------------------------------
(* The row bits of the shift register.                                     *)
LEMMA RowBits ==
    /\ RowBit(0) = 16 /\ RowBit(1) = 32 /\ RowBit(2) = 64 /\ RowBit(3) = 128
    /\ \A r \in 0 .. 3 : RowBit(r) \in 0 .. 255
  <1>1. RowBit(0) = 16 /\ RowBit(1) = 32 /\ RowBit(2) = 64 /\ RowBit(3) = 128
    BY DEF RowBit
  <1> QED BY <1>1

(* Writing RowBit(r) drives row r alone.                                   *)
LEMMA OneRowDriven ==
    ASSUME NEW r \in 0 .. 3, NEW q \in 0 .. 3
    PROVE  (RowBit(r) \div RowBit(q)) % 2 = 1 <=> q = r
  <1>1. r \in {0, 1, 2, 3} /\ q \in {0, 1, 2, 3}
    OBVIOUS
  <1>2. CASE r = 0
    BY <1>1, <1>2, RowBits
  <1>3. CASE r = 1
    BY <1>1, <1>3, RowBits
  <1>4. CASE r = 2
    BY <1>1, <1>4, RowBits
  <1>5. CASE r = 3
    BY <1>1, <1>5, RowBits
  <1> QED BY <1>1, <1>2, <1>3, <1>4, <1>5

(* The last column that fires is one of those that fire.                   *)
LEMMA LastColumn ==
    ASSUME NEW S \in SUBSET (0 .. 3), S # {}
    PROVE  Max(S) \in S
  <1>1. \E x \in S : \A y \in S : x >= y
    <2>1. CASE 3 \in S
      BY <2>1
    <2>2. CASE 3 \notin S /\ 2 \in S
      BY <2>2
    <2>3. CASE 3 \notin S /\ 2 \notin S /\ 1 \in S
      BY <2>3
    <2>4. CASE S \subseteq {0}
      <3>1. 0 \in S
        BY <2>4, S # {}, Zenon
      <3>2. \A y \in S : 0 >= y
        BY <2>4
      <3> QED BY <3>1, <3>2
    <2> QED BY <2>1, <2>2, <2>3, <2>4
  <1> QED BY <1>1, Zenon DEF Max

(* A scan goes on to the next row and drives it.                           *)
LEMMA NextRow ==
    ASSUME KeypadInv, keypad_scan, shiftreg_out
    PROVE  /\ row' \in 0 .. 3 /\ row' # row
           /\ matrix_selector' = RowBit(row)' /\ driven' = {row'}
  <1>1. row \in {0, 1, 2, 3} /\ matrix_selector = RowBit(row)
    BY DEF KeypadInv, KeypadTypeOK
  <1>2. row' \in 0 .. 3 /\ row' # row /\ matrix_selector' = RowBit(row')
    BY <1>1, RowBits DEF keypad_scan
  <1>3. driven' = {r \in 0 .. 3 : r = row'}
    BY <1>2, OneRowDriven DEF shiftreg_out
  <1>4. RowBit(row)' = RowBit(row')
    BY DEF RowBit
  <1> QED BY <1>2, <1>3, <1>4

(* What a scan reports fired: its counter was 0 and its column read        *)
(* pressed.                                                                *)
LEMMA Reported ==
    ASSUME KeypadInv, keypad_scan, ret' # NoKey
    PROVE  \E col \in 0 .. 3 :
               /\ ret' = <<row, col>> /\ debouncing[ret'] = 0
               /\ \E r \in driven : <<r, col>> \in down
  <1>1. FreshColumns # {} /\ ret' = <<row, Max(FreshColumns)>>
    BY DEF keypad_scan
  <1>2. Max(FreshColumns) \in FreshColumns
    BY <1>1, LastColumn, Zenon DEF FreshColumns
  <1> DEFINE last == Max(FreshColumns)
  <1>3. /\ last \in 0 .. 3 /\ ret' = <<row, last>>
        /\ debouncing[<<row, last>>] = 0 /\ RowState(last) = 1
    BY <1>1, <1>2 DEF FreshColumns, Fires
  <1> HIDE DEF last
  <1>4. \E r \in driven : <<r, last>> \in down
    BY <1>3 DEF RowState
  <1>5. debouncing[ret'] = 0
    BY <1>3
  <1> QED BY <1>3, <1>4, <1>5

(* Reported keys are down, and have not been reported since their press.   *)
LEMMA ReportedOnce ==
    ASSUME KeypadInv, keypad_scan, ret' # NoKey
    PROVE  /\ written => ret' \in down
           /\ ret' \notin seen
  <1>1. PICK col \in 0 .. 3 :
            /\ ret' = <<row, col>> /\ debouncing[ret'] = 0
            /\ \E r \in driven : <<r, col>> \in down
    BY Reported
  <1>2. written => ret' \in down
    BY <1>1 DEF KeypadInv
  <1>3. ret' \in seen => written
    BY DEF KeypadInv
  <1> QED BY <1>1, <1>2, <1>3 DEF KeypadInv

(* The counters stay in range, and that of a key held down in the row      *)
(* being driven does not reach 0.                                          *)
LEMMA Counters ==
    ASSUME KeypadInv, keypad_scan
    PROVE  /\ debouncing' \in [(0 .. 3) \X (0 .. 3) -> 0 .. KEY_HOLD]
           /\ \A k \in (0 .. 3) \X (0 .. 3) :
                  k[1] # row => debouncing'[k] = debouncing[k]
           /\ \A k \in (0 .. 3) \X (0 .. 3) :
                  k[1] = row /\ (\E r \in driven : <<r, k[2]>> \in down) =>
                      debouncing'[k] >= 1
  <1>1. /\ debouncing \in [(0 .. 3) \X (0 .. 3) -> 0 .. KEY_HOLD]
        /\ KEY_HOLD \in Nat /\ KEY_HOLD > 1
    BY KeypadAssumption DEF KeypadInv, KeypadTypeOK
  <1>2. \A k \in (0 .. 3) \X (0 .. 3) :
            /\ debouncing'[k] \in 0 .. KEY_HOLD
            /\ k[1] # row => debouncing'[k] = debouncing[k]
            /\ k[1] = row /\ RowState(k[2]) = 1 => debouncing'[k] >= 1
    BY <1>1 DEF keypad_scan, Debounced
  <1>3. DOMAIN debouncing' = (0 .. 3) \X (0 .. 3)
    BY <1>1 DEF keypad_scan
  <1>4. debouncing' = [k \in (0 .. 3) \X (0 .. 3) |-> debouncing'[k]]
    BY <1>1, <1>3 DEF keypad_scan
  <1>5. debouncing' \in [(0 .. 3) \X (0 .. 3) -> 0 .. KEY_HOLD]
    BY <1>2, <1>4
  <1> QED BY <1>2, <1>5 DEF RowState

(* An iteration of the main loop preserves the invariant.                  *)
LEMMA FrameInv ==
    ASSUME KeypadInv, Frame
    PROVE  KeypadInv'
  <1> USE DEF Frame
  <1>1. /\ row' \in 0 .. 3
        /\ matrix_selector' = RowBit(row)' /\ driven' = {row'}
    BY NextRow
  <1>2. matrix_selector' \in 0 .. 255
    BY <1>1, RowBits, ZenonT(30) DEF RowBit
  <1>3. /\ ret' \in ((0 .. 3) \X (0 .. 3)) \cup {NoKey}
        /\ seen' \subseteq Keys
    <2>1. row \in 0 .. 3 /\ seen \subseteq Keys
      BY DEF KeypadInv, KeypadTypeOK
    <2>2. ret' # NoKey => ret' \in (0 .. 3) \X (0 .. 3)
      BY <2>1, Reported
    <2> QED BY <2>1, <2>2
  <1>4. KeypadTypeOK'
    BY <1>1, <1>2, <1>3, Counters DEF KeypadInv, KeypadTypeOK
  <1>5. \A k \in seen' \cap down' : debouncing'[k] >= 1
    <2> SUFFICES ASSUME NEW k \in seen', k \in down
                 PROVE  debouncing'[k] >= 1
      OBVIOUS
    <2>1. /\ k \in (0 .. 3) \X (0 .. 3) /\ k = <<k[1], k[2]>>
          /\ debouncing[k] \in 0 .. KEY_HOLD
      BY KeypadAssumption DEF KeypadInv, KeypadTypeOK
    <2>2. CASE k \in seen
      <3>1. debouncing[k] >= 1 /\ driven = {row}
        BY <2>2 DEF KeypadInv
      <3>2. k[1] = row => debouncing'[k] >= 1
        BY <2>1, <3>1, Counters
      <3> QED BY <2>1, <3>1, <3>2, Counters
    <2>3. CASE k \notin seen
      <3>1. k = ret' /\ ret' # NoKey
        BY <2>3
      <3>2. PICK col \in 0 .. 3 :
                ret' = <<row, col>> /\ \E r \in driven : <<r, col>> \in down
        BY <3>1, Reported
      <3>3. k[1] = row /\ k[2] = col
        BY <3>1, <3>2
      <3> QED BY <2>1, <3>2, <3>3, Counters
    <2> QED BY <2>2, <2>3
  <1> QED BY <1>1, <1>4, <1>5 DEF KeypadInv

(* Pressing or releasing a key preserves the invariant.                    *)
LEMMA KeyInv ==
    ASSUME KeypadInv, NEW k \in Keys, Press(k) \/ Release(k)
    PROVE  KeypadInv'
  <1>1. UNCHANGED scanVars
    BY DEF Press, Release
  <1>2. KeypadTypeOK'
    BY <1>1 DEF Press, Release, scanVars, KeypadInv, KeypadTypeOK
  <1>3. matrix_selector' = RowBit(row)'
    BY <1>1 DEF scanVars, KeypadInv, RowBit
  <1>4. /\ IF written' THEN driven' = {row'} ELSE seen' = {}
        /\ \A j \in seen' \cap down' : debouncing'[j] >= 1
    BY <1>1 DEF Press, Release, scanVars, KeypadInv
  <1> QED BY <1>2, <1>3, <1>4 DEF KeypadInv

(* Whichever keys are pressed: the row scanned is the row driven, and a    *)
(* key that was reported and is still down is being debounced.             *)
THEOREM KeypadInvariant == KeypadSpec => []KeypadInv
  <1>1. KeypadInit => KeypadInv
    <2> SUFFICES ASSUME KeypadInit PROVE KeypadInv
      OBVIOUS
    <2>1. debouncing \in [(0 .. 3) \X (0 .. 3) -> 0 .. KEY_HOLD]
      BY KeypadAssumption DEF KeypadInit
    <2>0. row \in 0 .. 3 /\ matrix_selector \in 0 .. 255
      BY DEF KeypadInit
    <2>2. KeypadTypeOK
      BY <2>0, <2>1, Zenon DEF KeypadInit, KeypadTypeOK
    <2> QED BY <2>2, RowBits DEF KeypadInit, KeypadInv
  <1>2. KeypadInv /\ [KeypadNext]_keypadVars => KeypadInv'
    <2> SUFFICES ASSUME KeypadInv, [KeypadNext]_keypadVars PROVE KeypadInv'
      OBVIOUS
    <2>1. CASE Frame
      BY <2>1, FrameInv
    <2>2. ASSUME NEW k \in Keys \ down, Press(k) PROVE KeypadInv'
      BY <2>2, KeyInv
    <2>3. ASSUME NEW k \in down, Release(k) PROVE KeypadInv'
      <3>1. k \in Keys
        BY DEF KeypadInv, KeypadTypeOK
      <3> QED BY <2>3, <3>1, KeyInv
    <2>4. CASE UNCHANGED keypadVars
      BY <2>4 DEF keypadVars, scanVars, KeypadInv, KeypadTypeOK, RowBit
    <2> QED BY <2>1, <2>2, <2>3, <2>4 DEF KeypadNext
  <1> QED BY <1>1, <1>2, PTL DEF KeypadSpec

(* Only keypad_scan counts as a scan.                                      *)
LEMMA ScansAreScans == KeypadNext /\ Scans => keypad_scan
  BY DEF KeypadNext, Frame, Press, Release, scanVars, Scans

(* A scan reports only keys that are down.                                 *)
THEOREM KeypadReportsRealKeys == KeypadSpec => ReportsRealKeys
  <1>1. KeypadInv /\ [KeypadNext]_keypadVars =>
            [Scans /\ ret' # NoKey /\ written => ret' \in down]_keypadVars
    BY ScansAreScans, ReportedOnce
  <1> QED BY <1>1, KeypadInvariant, PTL DEF KeypadSpec, ReportsRealKeys

(* No press is reported twice.                                             *)
THEOREM KeypadReportsOnce == KeypadSpec => OncePerPress
  <1>1. KeypadInv /\ [KeypadNext]_keypadVars =>
            [Scans /\ ret' # NoKey => ret' \notin seen]_keypadVars
    BY ScansAreScans, ReportedOnce
  <1> QED BY <1>1, KeypadInvariant, PTL DEF KeypadSpec, OncePerPress

-----------------------------------------------------------------------------
(* One scan of a contact that opens at most once in a hold time and the    *)
(* chatter: c is its counter, level its position and age the scans since   *)
(* it opened; it moves to new and is read as r.                            *)
LEMMA ContactScan ==
    ASSUME NEW hold \in Nat, hold > 1, Bounce \in 1 .. hold,
           NEW c \in 0 .. hold, NEW level \in 0 .. 1,
           NEW age \in 0 .. hold + Bounce + 1,
           level = 1 /\ c = 0 => age < Bounce,
           c > 1 => Expires(c, age, hold),
           NEW new \in 0 .. 1,
           new > level => age >= hold + Bounce + 1,
           new < level => age >= Bounce,
           NEW age2,
           age2 = IF new > level THEN 0 ELSE Older(age, hold + Bounce + 1),
           NEW r \in Reads(new, age2),
           NEW c2, c2 = Debounced(c, r, hold)
    PROVE  /\ c2 \in 0 .. hold /\ age2 \in 0 .. hold + Bounce + 1
           /\ new = 1 /\ c2 = 0 => age2 < Bounce
           /\ c2 > 1 => Expires(c2, age2, hold)
           /\ new = 0 /\ c2 > 0 => Expires(c2, age2, hold)
           /\ r = 1 => new = 1
  <1>1. Bounce \in Nat /\ Bounce >= 1 /\ Bounce <= hold
    OBVIOUS
  <1>2. r \in 0 .. 1 /\ (r = 1 => new = 1) /\ (r = 0 /\ new = 1 => age2 < Bounce)
    BY DEF Reads
  <1>3. age2 \in 0 .. hold + Bounce + 1
    BY <1>1 DEF Older
  <1>4. c2 \in 0 .. hold
    BY DebouncedRange
  <1>5. new = 1 /\ c2 = 0 => age2 < Bounce
    BY <1>2 DEF Debounced
  <1>6. c2 > 1 => Expires(c2, age2, hold)
    <2>1. CASE c > 1
      BY <1>1, <2>1, DebouncedRange DEF Expires, Older
    <2>2. CASE c = 1
      BY <2>2 DEF Debounced
    <2>3. CASE c = 0 /\ r = 1
      <3>1. c2 = hold /\ age2 <= Bounce
        BY <1>1, <1>2, <2>3 DEF Debounced, Older
      <3> QED BY <1>1, <1>3, <3>1 DEF Expires
    <2>4. CASE c = 0 /\ r = 0
      BY <2>4 DEF Debounced
    <2> QED BY <1>2, <2>1, <2>2, <2>3, <2>4
  <1>7. new = 0 /\ c2 > 0 => Expires(c2, age2, hold)
    <2> SUFFICES ASSUME new = 0, c2 > 0 PROVE Expires(c2, age2, hold)
      OBVIOUS
    <2>1. c > 1 /\ c2 = c - 1
      BY <1>2 DEF Debounced
    <2> QED BY <1>1, <2>1 DEF Expires, Older
  <1> QED BY <1>2, <1>3, <1>4, <1>5, <1>6, <1>7

(* If no scan of the contact was missed, it fires once for every opening:  *)
(* when it is noticed first.                                               *)
LEMMA ContactFires ==
    ASSUME NEW hold \in Nat, hold > 1, Bounce \in 1 .. hold,
           NEW c \in 0 .. hold, NEW level \in 0 .. 1,
           NEW age \in 0 .. hold + Bounce + 1,
           level = 1 /\ c = 0 => age < Bounce,
           c > 1 => Expires(c, age, hold),
           c > 0 => IF level = 1 THEN Covers(c, age, hold)
                                 ELSE Expires(c, age, hold),
           NEW new \in 0 .. 1,
           new > level => age >= hold + Bounce + 1,
           new < level => age >= Bounce,
           NEW age2,
           age2 = IF new > level THEN 0 ELSE Older(age, hold + Bounce + 1),
           NEW r \in Reads(new, age2),
           NEW c2, c2 = Debounced(c, r, hold)
    PROVE  /\ new = 1 /\ c2 > 0 => Covers(c2, age2, hold)
           /\ level = 1 /\ c > 0 /\ new = 1 => c2 > 0
           /\ Fires(c, r) <=> new = 1 /\ c2 > 0 /\ ~(level = 1 /\ c > 0)
  <1>1. Bounce \in Nat /\ Bounce >= 1 /\ Bounce <= hold
    OBVIOUS
  <1>2. r \in 0 .. 1 /\ (r = 1 => new = 1) /\ (r = 0 /\ new = 1 => age2 < Bounce)
    BY DEF Reads
  <1>3. CASE new = 1 /\ level = 0
    <2>1. c = 0 /\ age2 = 0
      BY <1>1, <1>3 DEF Expires
    <2>2. c2 = IF r = 1 THEN hold ELSE 0
      BY <1>2, <2>1 DEF Debounced
    <2> QED BY <1>1, <1>2, <1>3, <2>1, <2>2 DEF Covers, Fires
  <1>4. CASE new = 1 /\ level = 1 /\ c = 0
    <2>1. c2 = IF r = 1 THEN hold ELSE 0
      BY <1>2, <1>4 DEF Debounced
    <2>2. age2 \in Nat
      BY <1>1, <1>4 DEF Older
    <2> QED BY <1>1, <1>2, <1>4, <2>1, <2>2 DEF Covers, Fires
  <1>5. CASE new = 1 /\ level = 1 /\ c > 0
    <2>1. age2 < Bounce => age2 = age + 1 /\ c > 1
      BY <1>1, <1>5 DEF Covers, Older
    <2>2. c > 1 => c2 = c - 1
      BY DEF Debounced
    <2>3. c = 1 => r = 1 /\ c2 = 1
      BY <1>2, <1>5, <2>1 DEF Debounced
    <2>4. Covers(c2, age2, hold)
      BY <1>1, <1>5, <2>1, <2>2 DEF Covers
    <2> QED BY <1>5, <2>2, <2>3, <2>4 DEF Fires
  <1>6. CASE new = 0
    BY <1>2, <1>6 DEF Fires
  <1> QED BY <1>3, <1>4, <1>5, <1>6

-----------------------------------------------------------------------------
(* What is assumed of the constants, with the times that depend on them.   *)
LEMMA PhoneConstants ==
    /\ IMPULSE_HOLD \in Nat /\ IMPULSE_HOLD > 1
    /\ DIAL_HOLD \in Nat /\ DIAL_HOLD > 1
    /\ HANGUP_HOLD \in Nat /\ HANGUP_HOLD > 2
    /\ CounterSize \in Nat /\ CounterSize > 10
    /\ Bounce \in Nat /\ HookMin \in Nat /\ MaxPulses \in Nat
    /\ ImpulseGap = IMPULSE_HOLD + Bounce + 1
    /\ DialGap = DIAL_HOLD + Bounce + 1
    /\ HookSettled = 2 * HANGUP_HOLD
  BY HoldAssumption, PhoneAssumption DEF ImpulseGap, DialGap, HookSettled

(* A scan with the positions the contacts move to and the levels it reads. *)
ScanOf(i, d, h, ri, rd) ==
    /\ Move(i, d, h)
    /\ ri \in Reads(i, ageI') /\ rd \in Reads(d, ageD')
    /\ dial_scan(ri, rd, h)
    /\ blurred' = (blurred /\ d >= dialing)
    /\ due' = DueAfter(IF d > dialing THEN "yes" ELSE due, rv'.kind)
    /\ lastHook' = CASE rv' = OffHook -> 1
                     [] rv' = OnHook -> 0
                     [] OTHER -> lastHook

(* Every scan is one of these.                                             *)
LEMMA ScanCases ==
    ASSUME Scan
    PROVE  \E i, d, h, ri, rd \in 0 .. 1 : ScanOf(i, d, h, ri, rd)
  <1>1. \A level \in 0 .. 1 : \A age : Reads(level, age) \subseteq 0 .. 1
    BY DEF Reads
  <1> QED BY <1>1 DEF Scan, ScanOf

(* The events are different from each other.                               *)
LEMMA EventKinds ==
    /\ None.kind = "none" /\ OffHook.kind = "H" /\ OnHook.kind = "h"
    /\ \A n : Digit(n).kind = "digit"
    /\ None # OffHook /\ None # OnHook /\ OffHook # OnHook
    /\ \A n : Digit(n) # OffHook /\ Digit(n) # OnHook /\ Digit(n) # None
  BY DEF None, OffHook, OnHook, Digit

(* What a scan returns.                                                    *)
LEMMA ScanEvent ==
    ASSUME PhoneTypeOK, NEW ri \in 0 .. 1, NEW rd \in 0 .. 1, NEW h \in 0 .. 1,
           dial_scan(ri, rd, h)
    PROVE  LET n == IF Fires(state_impulse, ri)
                    THEN (dial_counter + 1) % CounterSize ELSE dial_counter
           IN  /\ n \in 0 .. CounterSize - 1
               /\ \/ state_hangup = 1 - h /\ h = 1 /\ rv' = OffHook
                  \/ state_hangup = 1 - h /\ h = 0 /\ rv' = OnHook
                  \/ /\ state_hangup # 1 - h /\ Fires(state_dialing, rd)
                     /\ rv' = Digit(DigitOf(n)) /\ DigitOf(n) \in 0 .. 9
                  \/ /\ state_hangup # 1 - h /\ ~Fires(state_dialing, rd)
                     /\ rv' = None
               /\ dial_counter' = IF Fires(state_dialing, rd) THEN 0 ELSE n
  <1> DEFINE n == IF Fires(state_impulse, ri)
                  THEN (dial_counter + 1) % CounterSize ELSE dial_counter
  <1>1. n \in 0 .. CounterSize - 1
    BY PhoneConstants DEF PhoneTypeOK, DialTypeOK
  <1>2. DigitOf(n) \in 0 .. 9
    BY <1>1, PhoneConstants DEF DigitOf
  <1>3. dial_counter' = IF Fires(state_dialing, rd) THEN 0 ELSE n
    BY DEF dial_scan
  <1>4. rv' = IF HangupEvent(h) # None THEN HangupEvent(h)
              ELSE IF Fires(state_dialing, rd) THEN Digit(DigitOf(n)) ELSE None
    BY DEF dial_scan
  <1> HIDE DEF n
  <1>5. \/ state_hangup = 1 - h /\ h = 1 /\ rv' = OffHook
        \/ state_hangup = 1 - h /\ h = 0 /\ rv' = OnHook
        \/ /\ state_hangup # 1 - h /\ Fires(state_dialing, rd)
           /\ rv' = Digit(DigitOf(n)) /\ DigitOf(n) \in 0 .. 9
        \/ /\ state_hangup # 1 - h /\ ~Fires(state_dialing, rd)
           /\ rv' = None
    BY <1>2, <1>4, EventKinds DEF HangupEvent
  <1> QED BY <1>1, <1>3, <1>5 DEF n

(* The types of the hangup contact after a scan.                           *)
LEMMA HangupRange ==
    ASSUME PhoneTypeOK, NEW h \in 0 .. 1
    PROVE  HangupAfter(h) \in 0 .. HANGUP_HOLD
  BY PhoneConstants DEF PhoneTypeOK, DialTypeOK, HangupAfter

(* A scan keeps every variable in its type.                                *)
LEMMA ScanTypes ==
    ASSUME PhoneTypeOK,
           NEW i \in 0 .. 1, NEW d \in 0 .. 1, NEW h \in 0 .. 1,
           NEW ri \in 0 .. 1, NEW rd \in 0 .. 1, ScanOf(i, d, h, ri, rd)
    PROVE  PhoneTypeOK'
  <1>1. Move(i, d, h) /\ dial_scan(ri, rd, h)
    BY DEF ScanOf
  <1>2. /\ dial_counter' \in 0 .. CounterSize - 1
        /\ rv' \in {None, OffHook, OnHook} \cup {Digit(n) : n \in 0 .. 9}
    BY <1>1, ScanEvent, PhoneConstants
  <1>3. /\ state_impulse' \in 0 .. IMPULSE_HOLD
        /\ state_dialing' \in 0 .. DIAL_HOLD
        /\ state_hangup' \in 0 .. HANGUP_HOLD
    BY <1>1, DebouncedRange, HangupRange, PhoneConstants
    DEF dial_scan, PhoneTypeOK, DialTypeOK
  <1>4. /\ impulse' \in 0 .. 1 /\ dialing' \in 0 .. 1 /\ hook' \in 0 .. 1
        /\ ageI' \in 0 .. ImpulseGap /\ ageD' \in 0 .. DialGap
        /\ ageH' \in 0 .. HookSettled
        /\ pulses' \in 0 .. MaxPulses
    BY <1>1, PhoneConstants DEF Move, MayMove, Older, PhoneTypeOK
  <1>5. blurred' \in BOOLEAN /\ lastHook' \in 0 .. 1
    BY DEF ScanOf, PhoneTypeOK
  <1>6. due' \in {"yes", "no", "displaced", "unexpected"}
    BY Zenon DEF ScanOf, PhoneTypeOK, DueAfter
  <1> QED BY <1>2, <1>3, <1>4, <1>5, <1>6 DEF PhoneTypeOK, DialTypeOK

(* So do movements that are not scanned.                                   *)
LEMMA BlindTypes ==
    ASSUME PhoneTypeOK, Blind
    PROVE  PhoneTypeOK'
  <1>1. DialTypeOK'
    BY DEF Blind, dialVars, PhoneTypeOK, DialTypeOK
  <1>2. /\ impulse' \in 0 .. 1 /\ dialing' \in 0 .. 1 /\ hook' \in 0 .. 1
        /\ ageI' \in 0 .. ImpulseGap /\ ageD' \in 0 .. DialGap
        /\ ageH' \in 0 .. HookSettled
        /\ pulses' \in 0 .. MaxPulses
    BY PhoneConstants DEF Blind, PhoneTypeOK
  <1>3. blurred' \in BOOLEAN /\ lastHook' \in 0 .. 1
        /\ due' \in {"yes", "no", "displaced", "unexpected"}
    BY DEF Blind, PhoneTypeOK
  <1> QED BY <1>1, <1>2, <1>3 DEF PhoneTypeOK

(* A hook that keeps its position for a hold time is reported.             *)
LEMMA HookScan ==
    ASSUME HookIsSlow, PhoneTypeOK, HookInv, Scan
    PROVE  HookInv'
  <1>1. PICK i, d, h, ri, rd \in 0 .. 1 : ScanOf(i, d, h, ri, rd)
    BY ScanCases
  <1>2. Move(i, d, h) /\ dial_scan(ri, rd, h)
    BY <1>1 DEF ScanOf
  <1>3. lastHook' = IF state_hangup = 1 - h THEN h ELSE lastHook
    BY <1>1, <1>2, ScanEvent, EventKinds DEF ScanOf
  <1>4. /\ hook' = h /\ state_hangup' = HangupAfter(h)
        /\ h # hook => ageH >= HANGUP_HOLD
        /\ ageH' = IF h # hook THEN 0 ELSE Older(ageH, HookSettled)
    BY <1>2, PhoneConstants DEF Move, MayMove, dial_scan, HookIsSlow, PhoneTypeOK
  <1>5. /\ state_hangup \in 0 .. HANGUP_HOLD /\ ageH \in 0 .. HookSettled
        /\ hook \in 0 .. 1 /\ lastHook \in 0 .. 1
    BY DEF PhoneTypeOK, DialTypeOK
  <1>6. CASE state_hangup > 1
    BY <1>3, <1>4, <1>5, <1>6, PhoneConstants DEF HookInv, HangupAfter, Older
  <1>7. CASE state_hangup <= 1
    BY <1>3, <1>4, <1>5, <1>7, PhoneConstants DEF HookInv, HangupAfter, Older
  <1> QED BY <1>5, <1>6, <1>7, PhoneConstants

(* A movement that is not scanned leaves its report to the next scan.      *)
LEMMA HookBlind ==
    ASSUME HookIsSlow, PhoneTypeOK, HookInv, Blind
    PROVE  HookInv'
  BY PhoneConstants
  DEF Blind, MayMove, HookIsSlow, PhoneTypeOK, DialTypeOK, HookInv, dialVars

-----------------------------------------------------------------------------
(* The impulse contact moves as ContactScan assumes, and unless part of    *)
(* the rotation was missed as ContactFires does.                           *)
LEMMA ImpulseScan ==
    ASSUME ChatterIsShort, DigitsInv,
           NEW i \in 0 .. 1, NEW d \in 0 .. 1, NEW h \in 0 .. 1,
           NEW ri \in 0 .. 1, NEW rd \in 0 .. 1, ScanOf(i, d, h, ri, rd)
    PROVE  /\ ImpulseInv'
           /\ ~blurred =>
                  /\ impulse = 1 /\ state_impulse > 0 /\ i = 1 => state_impulse' > 0
                  /\ Fires(state_impulse, ri) <=>
                         /\ i = 1 /\ state_impulse' > 0
                         /\ ~(impulse = 1 /\ state_impulse > 0)
           /\ ri = 1 => i = 1
  <1>1. /\ state_impulse \in 0 .. IMPULSE_HOLD
        /\ impulse \in 0 .. 1 /\ dialing \in 0 .. 1
        /\ ageI \in 0 .. IMPULSE_HOLD + Bounce + 1
        /\ impulse = 1 /\ state_impulse = 0 => ageI < Bounce
        /\ state_impulse > 1 => Expires(state_impulse, ageI, IMPULSE_HOLD)
        /\ ~blurred /\ state_impulse > 0 =>
               IF impulse = 1 THEN Covers(state_impulse, ageI, IMPULSE_HOLD)
                              ELSE Expires(state_impulse, ageI, IMPULSE_HOLD)
        /\ impulse = 1 => dialing = 0
    BY PhoneConstants DEF DigitsInv, PhoneTypeOK, DialTypeOK, ImpulseInv
  <1>2. /\ i > impulse => /\ dialing = 0 /\ d = 0
                          /\ ageI >= IMPULSE_HOLD + Bounce + 1
        /\ i < impulse => ageI >= Bounce
        /\ d > dialing => i = 0
        /\ impulse' = i /\ dialing' = d
        /\ ageI' = IF i > impulse THEN 0
                   ELSE Older(ageI, IMPULSE_HOLD + Bounce + 1)
        /\ ri \in Reads(i, ageI')
        /\ state_impulse' = Debounced(state_impulse, ri, IMPULSE_HOLD)
        /\ blurred' = (blurred /\ d >= dialing)
    BY PhoneConstants DEF ScanOf, Move, MayMove, dial_scan
  <1>3. /\ IMPULSE_HOLD \in Nat /\ IMPULSE_HOLD > 1
        /\ Bounce \in 1 .. IMPULSE_HOLD
    BY PhoneConstants DEF ChatterIsShort
  <1>4. /\ i = 1 /\ state_impulse' = 0 => ageI' < Bounce
        /\ state_impulse' > 1 => Expires(state_impulse', ageI', IMPULSE_HOLD)
        /\ i = 0 /\ state_impulse' > 0 =>
               Expires(state_impulse', ageI', IMPULSE_HOLD)
        /\ ri = 1 => i = 1
    BY <1>1, <1>2, <1>3, ContactScan
  <1>5. ~blurred =>
            /\ i = 1 /\ state_impulse' > 0 =>
                   Covers(state_impulse', ageI', IMPULSE_HOLD)
            /\ impulse = 1 /\ state_impulse > 0 /\ i = 1 => state_impulse' > 0
            /\ Fires(state_impulse, ri) <=>
                   /\ i = 1 /\ state_impulse' > 0
                   /\ ~(impulse = 1 /\ state_impulse > 0)
    BY <1>1, <1>2, <1>3, ContactFires
  <1>6. i = 1 => d = 0
    BY <1>1, <1>2
  <1>7. blurred /\ ~blurred' => i = 0
    <2>1. blurred /\ ~blurred' => ~(d >= dialing)
      BY <1>2, Zenon
    <2> QED BY <1>1, <1>2, <2>1
  <1>8. ImpulseInv'
    BY <1>2, <1>4, <1>5, <1>6, <1>7 DEF ImpulseInv, Covers, Expires
  <1> QED BY <1>4, <1>5, <1>8

(* The dialing contact, whose scans are never missed in part.              *)
LEMMA DialingScan ==
    ASSUME ChatterIsShort, DigitsInv,
           NEW i \in 0 .. 1, NEW d \in 0 .. 1, NEW h \in 0 .. 1,
           NEW ri \in 0 .. 1, NEW rd \in 0 .. 1, ScanOf(i, d, h, ri, rd)
    PROVE  /\ DialingInv'
           /\ dialing = 1 /\ state_dialing > 0 /\ d = 1 => state_dialing' > 0
           /\ Fires(state_dialing, rd) <=>
                  /\ d = 1 /\ state_dialing' > 0
                  /\ ~(dialing = 1 /\ state_dialing > 0)
  <1>1. /\ state_dialing \in 0 .. DIAL_HOLD /\ dialing \in 0 .. 1
        /\ ageD \in 0 .. DIAL_HOLD + Bounce + 1
        /\ dialing = 1 /\ state_dialing = 0 => ageD < Bounce
        /\ state_dialing > 1 => Expires(state_dialing, ageD, DIAL_HOLD)
        /\ state_dialing > 0 =>
               IF dialing = 1 THEN Covers(state_dialing, ageD, DIAL_HOLD)
                              ELSE Expires(state_dialing, ageD, DIAL_HOLD)
    BY PhoneConstants DEF DigitsInv, PhoneTypeOK, DialTypeOK, DialingInv
  <1>2. /\ d > dialing => ageD >= DIAL_HOLD + Bounce + 1
        /\ d < dialing => ageD >= Bounce
        /\ dialing' = d
        /\ ageD' = IF d > dialing THEN 0 ELSE Older(ageD, DIAL_HOLD + Bounce + 1)
        /\ rd \in Reads(d, ageD')
        /\ state_dialing' = Debounced(state_dialing, rd, DIAL_HOLD)
    BY PhoneConstants DEF ScanOf, Move, MayMove, dial_scan
  <1>3. DIAL_HOLD \in Nat /\ DIAL_HOLD > 1 /\ Bounce \in 1 .. DIAL_HOLD
    BY PhoneConstants DEF ChatterIsShort
  <1>4. /\ d = 1 /\ state_dialing' = 0 => ageD' < Bounce
        /\ state_dialing' > 1 => Expires(state_dialing', ageD', DIAL_HOLD)
        /\ d = 0 /\ state_dialing' > 0 =>
               Expires(state_dialing', ageD', DIAL_HOLD)
    BY <1>1, <1>2, <1>3, ContactScan
  <1>5. /\ d = 1 /\ state_dialing' > 0 =>
               Covers(state_dialing', ageD', DIAL_HOLD)
        /\ dialing = 1 /\ state_dialing > 0 /\ d = 1 => state_dialing' > 0
        /\ Fires(state_dialing, rd) <=>
               /\ d = 1 /\ state_dialing' > 0
               /\ ~(dialing = 1 /\ state_dialing > 0)
    BY <1>1, <1>2, <1>3, ContactFires
  <1>6. DialingInv'
    BY <1>2, <1>4, <1>5 DEF DialingInv, Covers, Expires
  <1> QED BY <1>5, <1>6

(* The counter follows the pulses of the rotation.                         *)
LEMMA CountScan ==
    ASSUME ChatterIsShort, DigitsInv,
           NEW i \in 0 .. 1, NEW d \in 0 .. 1, NEW h \in 0 .. 1,
           NEW ri \in 0 .. 1, NEW rd \in 0 .. 1, ScanOf(i, d, h, ri, rd)
    PROVE  /\ CountInv'
           /\ due' # "unexpected"
           /\ rv'.kind = "digit" /\ ~blurred' => rv' = Digit(pulses' % 10)
  <1> DEFINE noticed == impulse = 1 /\ state_impulse > 0
             formed == dialing = 1 /\ state_dialing > 0
             behind == IF impulse = 1 /\ state_impulse = 0 THEN 1 ELSE 0
             n == IF Fires(state_impulse, ri)
                  THEN (dial_counter + 1) % CounterSize ELSE dial_counter
  <1>1. /\ impulse \in 0 .. 1 /\ dialing \in 0 .. 1 /\ pulses \in 0 .. MaxPulses
        /\ state_impulse \in 0 .. IMPULSE_HOLD /\ state_dialing \in 0 .. DIAL_HOLD
        /\ dial_counter \in 0 .. CounterSize - 1
        /\ due \in {"yes", "no", "displaced"} /\ blurred \in BOOLEAN
        /\ impulse = 1 => dialing = 0
    BY DEF DigitsInv, PhoneTypeOK, DialTypeOK, ImpulseInv
  <1>2. /\ i > impulse => dialing = 0 /\ d = 0 /\ pulses < MaxPulses
        /\ d > dialing => i = 0 /\ impulse = 0
        /\ impulse' = i /\ dialing' = d
        /\ pulses' = IF d < dialing THEN 0
                     ELSE IF i > impulse THEN pulses + 1 ELSE pulses
        /\ blurred' = (blurred /\ d >= dialing)
        /\ due' = DueAfter(IF d > dialing THEN "yes" ELSE due, rv'.kind)
    BY DEF ScanOf, Move, MayMove
  <1>3. n \in 0 .. CounterSize - 1
        /\ dial_counter' = IF Fires(state_dialing, rd) THEN 0 ELSE n
    BY ScanEvent DEF ScanOf, DigitsInv
  <1>4. IF Fires(state_dialing, rd)
        THEN rv'.kind \in {"H", "h"} \/ rv' = Digit(DigitOf(n))
        ELSE rv'.kind \in {"H", "h", "none"}
    BY ScanEvent, EventKinds DEF ScanOf, DigitsInv
  <1>5. ri = 1 => i = 1
    BY ImpulseScan
  <1>6. /\ formed /\ d = 1 => state_dialing' > 0
        /\ Fires(state_dialing, rd) <=> d = 1 /\ state_dialing' > 0 /\ ~formed
    BY DialingScan
  <1>7. ~blurred =>
            /\ noticed /\ i = 1 => state_impulse' > 0
            /\ Fires(state_impulse, ri) <=> i = 1 /\ state_impulse' > 0 /\ ~noticed
    BY ImpulseScan
  <1>8. state_impulse' \in Nat /\ state_dialing' \in Nat
    BY ScanTypes, PhoneConstants DEF DigitsInv, PhoneTypeOK, DialTypeOK
  <1>9. /\ i = 0 => ~(impulse = 1 /\ state_impulse = 0)
        /\ d = 0 => ~(dialing = 1 /\ state_dialing = 0)
    BY PhoneConstants
    DEF ScanOf, Move, MayMove, DigitsInv, PhoneTypeOK, ImpulseInv, DialingInv
  <1>10. i = 0 => n = dial_counter
    BY <1>5 DEF Fires
  <1>11. dialing = 0 /\ ~blurred => n = pulses' - behind'
    <2> SUFFICES ASSUME dialing = 0, ~blurred PROVE n = pulses' - behind'
      OBVIOUS
    <2>1. dial_counter = pulses - behind /\ pulses <= 10
      BY <1>1, PhoneConstants DEF DigitsInv, CountInv, ChatterIsShort
    <2>2. pulses' = IF i > impulse THEN pulses + 1 ELSE pulses
      BY <1>1, <1>2
    <2>3. pulses' <= 10
      BY <1>1, <1>2, <2>1, <2>2, PhoneConstants DEF ChatterIsShort
    <2>4. behind' = IF i = 1 /\ state_impulse' = 0 THEN 1 ELSE 0
      BY <1>2
    <2>5. CASE i = 0
      BY <1>1, <1>2, <1>9, <1>10, <2>1, <2>2, <2>4, <2>5
    <2>6. CASE i = 1 /\ Fires(state_impulse, ri)
      <3>1. state_impulse' > 0 /\ ~noticed
        BY <1>7, <2>6
      <3>2. dial_counter + 1 = pulses'
        BY <1>1, <2>1, <2>2, <2>6, <3>1
      <3>3. n = pulses'
        BY <1>1, <2>3, <2>6, <3>2, PhoneConstants
      <3> QED BY <1>1, <1>2, <2>4, <3>1, <3>3
    <2>7. CASE i = 1 /\ ~Fires(state_impulse, ri)
      <3>1. n = dial_counter /\ (noticed <=> state_impulse' > 0)
        BY <1>7, <2>7
      <3> QED BY <1>1, <1>8, <2>1, <2>2, <2>4, <2>7, <3>1
    <2> QED BY <2>5, <2>6, <2>7
  <1> HIDE DEF n
  <1>12. CASE formed
    <2>1. dial_counter = 0 /\ due # "yes" /\ i = 0 /\ impulse = 0
      BY <1>1, <1>2, <1>12 DEF DigitsInv, CountInv
    <2>2. ~Fires(state_dialing, rd) /\ dial_counter' = 0
      BY <1>3, <1>6, <1>10, <1>12, <2>1
    <2>3. rv'.kind # "digit" /\ due' \in {"no", "displaced"}
      BY <1>1, <1>2, <1>4, <1>12, <2>1, <2>2 DEF DueAfter
    <2>4. CASE d = 1
      BY <1>2, <1>6, <1>12, <2>2, <2>3, <2>4 DEF CountInv
    <2>5. CASE d = 0
      BY <1>2, <1>12, <2>1, <2>2, <2>3, <2>5 DEF CountInv
    <2> QED BY <2>3, <2>4, <2>5
  <1>13. CASE ~formed /\ d = 1
    <2>1. i = 0 /\ impulse = 0 /\ pulses' = pulses /\ blurred' = blurred
      BY <1>1, <1>2, <1>13
    <2>2. n = dial_counter /\ (~blurred => n = pulses)
      BY <1>1, <1>10, <1>13, <2>1 DEF DigitsInv, CountInv
    <2> DEFINE expected == IF d > dialing THEN "yes" ELSE due
    <2>3. expected \in {"yes", "displaced"}
      BY <1>1, <1>13 DEF DigitsInv, CountInv
    <2>4. CASE Fires(state_dialing, rd)
      <3>1. due' \in {"no", "displaced"}
        BY <1>2, <1>4, <2>3, <2>4, EventKinds DEF DueAfter
      <3>2. CountInv'
        BY <1>2, <1>3, <1>6, <2>4, <3>1 DEF CountInv
      <3>3. ~blurred => DigitOf(n) = pulses % 10
        BY <1>1, <2>2, PhoneConstants DEF DigitOf, ChatterIsShort
      <3> QED BY <1>4, <2>1, <2>4, <3>1, <3>2, <3>3
    <2>5. CASE ~Fires(state_dialing, rd)
      <3>1. rv'.kind # "digit" /\ due' \in {"yes", "displaced"}
        BY <1>2, <1>4, <2>3, <2>5 DEF DueAfter
      <3> QED BY <1>2, <1>3, <1>6, <1>13, <2>1, <2>2, <2>5, <3>1 DEF CountInv
    <2> QED BY <2>4, <2>5
  <1>14. CASE ~formed /\ d = 0
    <2>1. dialing = 0 /\ ~Fires(state_dialing, rd) /\ blurred' = blurred
      BY <1>1, <1>2, <1>6, <1>8, <1>9, <1>14
    <2>2. rv'.kind # "digit" /\ due' \in {"no", "displaced"}
      BY <1>1, <1>2, <1>4, <1>14, <2>1 DEF DueAfter, DigitsInv, CountInv
    <2>3. ~blurred => dial_counter' = pulses' - behind'
      BY <1>3, <1>11, <2>1
    <2>4. pulses' \in Nat
      BY <1>1, <1>2
    <2> QED BY <1>2, <1>14, <2>1, <2>2, <2>3, <2>4 DEF CountInv
  <1> QED BY <1>12, <1>13, <1>14

(* What is missed while a telegram is sent blurs the rotation only.        *)
LEMMA DigitsBlind ==
    ASSUME ChatterIsShort, DigitsInv, Blind
    PROVE  DigitsInv'
  <1>1. PICK i, h \in 0 .. 1, d \in dialing .. 1 :
            /\ MayMove(i, d, h)
            /\ impulse' = i /\ dialing' = d /\ hook' = h
            /\ ageI' = IF i > impulse THEN 0 ELSE ageI
            /\ ageD' = IF d > dialing THEN 0 ELSE ageD
            /\ pulses' \in CASE dialing = 1 -> {pulses}
                             [] i > impulse -> pulses + 1 .. MaxPulses
                             [] OTHER -> pulses .. MaxPulses
            /\ blurred' = (blurred \/ dialing = 0)
            /\ due' = IF d > dialing THEN "yes" ELSE due
            /\ UNCHANGED dialVars
    BY DEF Blind
  <1>2. /\ impulse \in 0 .. 1 /\ dialing \in 0 .. 1
        /\ state_impulse \in 0 .. IMPULSE_HOLD /\ state_dialing \in 0 .. DIAL_HOLD
        /\ ageI \in 0 .. ImpulseGap /\ ageD \in 0 .. DialGap
        /\ Bounce >= 1 /\ due \in {"yes", "no", "displaced"}
        /\ impulse = 1 => dialing = 0
    BY PhoneConstants
    DEF DigitsInv, PhoneTypeOK, DialTypeOK, ImpulseInv, ChatterIsShort
  <1>3. UNCHANGED <<dial_counter, state_impulse, state_dialing, rv>>
    BY <1>1 DEF dialVars
  <1>4. /\ dialing = 0 => blurred'
        /\ ~blurred' => ~blurred /\ dialing = 1
        /\ dialing = 1 => blurred' = blurred
    <2>1. dialing = 0 \/ dialing = 1
      BY <1>2
    <2>2. blurred \in BOOLEAN
      BY DEF DigitsInv, PhoneTypeOK
    <2>3. dialing = 1 => dialing # 0
      OBVIOUS
    <2>4. blurred' = (blurred \/ dialing = 0)
      BY <1>1
    <2> QED BY <2>1, <2>2, <2>3, <2>4, Zenon
  <1>5. PhoneTypeOK'
    BY BlindTypes DEF DigitsInv
  <1>6. ImpulseInv'
    <2>1. impulse' = 1 => dialing' = 0
      BY <1>1, <1>2 DEF MayMove
    <2>2. impulse' = 1 /\ state_impulse' = 0 => ageI' < Bounce
      BY <1>1, <1>2, <1>3, PhoneConstants DEF DigitsInv, ImpulseInv
    <2>3. state_impulse' > 1 => Expires(state_impulse', ageI', IMPULSE_HOLD)
      BY <1>1, <1>2, <1>3, PhoneConstants DEF MayMove, DigitsInv, ImpulseInv, Expires
    <2>4. ~blurred' => ~blurred /\ UNCHANGED <<impulse, ageI>>
      BY <1>4, <1>1, <1>2 DEF MayMove
    <2> QED BY <1>3, <2>1, <2>2, <2>3, <2>4 DEF DigitsInv, ImpulseInv, Covers, Expires
  <1>7. DialingInv'
    <2>1. CASE d = dialing
      BY <1>1, <1>3, <2>1 DEF DigitsInv, DialingInv, Covers, Expires
    <2>2. CASE d > dialing
      <3>1. state_dialing = 0
        BY <1>1, <1>2, <2>2, PhoneConstants DEF MayMove, DigitsInv, DialingInv, Expires
      <3> QED BY <1>1, <1>2, <1>3, <2>2, <3>1, PhoneConstants DEF DialingInv
    <2> QED BY <1>1, <1>2, <2>1, <2>2
  <1>8. CountInv' /\ due' # "unexpected"
    <2>1. CASE dialing = 1
      <3>1. i = impulse /\ d = 1 /\ pulses' = pulses /\ due' = due
        BY <1>1, <1>2, <2>1 DEF MayMove
      <3>2. blurred' = blurred
        BY <1>4, <2>1
      <3> QED BY <1>1, <1>2, <1>3, <2>1, <3>1, <3>2 DEF DigitsInv, CountInv
    <2>2. CASE dialing = 0 /\ d = 0
      <3>1. due' = due /\ due # "yes" /\ blurred'
        BY <1>4, <1>1, <2>2 DEF DigitsInv, CountInv
      <3> QED BY <1>1, <1>2, <2>2, <3>1 DEF CountInv
    <2>3. CASE dialing = 0 /\ d = 1
      <3>1. state_dialing = 0
        BY <1>1, <1>2, <2>3, PhoneConstants DEF MayMove, DigitsInv, DialingInv, Expires
      <3> QED BY <1>4, <1>1, <1>3, <2>3, <3>1 DEF CountInv
    <2> QED BY <1>1, <1>2, <2>1, <2>2, <2>3
  <1>9. rv'.kind = "digit" /\ ~blurred' => rv' = Digit(pulses' % 10)
    <2>1. dialing = 1 => pulses' = pulses
      BY <1>1, <1>2 DEF MayMove
    <2>2. ~blurred' => ~blurred /\ pulses' = pulses
      BY <1>4, <2>1, Zenon
    <2> QED BY <1>3, <2>2 DEF DigitsInv
  <1> QED BY <1>5, <1>6, <1>7, <1>8, <1>9 DEF DigitsInv

(* The invariants hold when the firmware starts.                           *)
LEMMA PhoneInitInv ==
    ASSUME PhoneInit
    PROVE  PhoneTypeOK /\ HookInv /\ (ChatterIsShort => DigitsInv)
  <1>1. PhoneTypeOK
    <2>1. DialTypeOK
      BY PhoneConstants DEF PhoneInit, DialInit, DialTypeOK
    <2>2. /\ impulse \in 0 .. 1 /\ dialing \in 0 .. 1 /\ hook \in 0 .. 1
          /\ ageI \in 0 .. ImpulseGap /\ ageD \in 0 .. DialGap
          /\ ageH \in 0 .. HookSettled
          /\ pulses \in 0 .. MaxPulses /\ lastHook \in 0 .. 1
      BY PhoneConstants DEF PhoneInit
    <2>3. blurred \in BOOLEAN /\ due \in {"yes", "no", "displaced", "unexpected"}
      BY Zenon DEF PhoneInit
    <2> QED BY <2>1, <2>2, <2>3 DEF PhoneTypeOK
  <1>2. HookInv
    BY DEF PhoneInit, DialInit, HookInv
  <1>3. ChatterIsShort => DigitsInv
    BY <1>1, PhoneConstants, EventKinds
    DEF PhoneInit, DialInit, DigitsInv, ImpulseInv, DialingInv, CountInv,
        ChatterIsShort
  <1> QED BY <1>1, <1>2, <1>3

(* Whatever the contacts do, the counters stay within their hold times,    *)
(* dial_counter within its width and the digits within 0 to 9.             *)
THEOREM PhoneTypeCorrect == PhoneSpec => []PhoneTypeOK
  <1>1. PhoneTypeOK /\ [PhoneNext]_phoneVars => PhoneTypeOK'
    <2> SUFFICES ASSUME PhoneTypeOK, [PhoneNext]_phoneVars PROVE PhoneTypeOK'
      OBVIOUS
    <2>1. CASE Scan
      BY <2>1, ScanCases, ScanTypes, SMTT(30)
    <2>2. CASE Blind
      BY <2>2, BlindTypes
    <2>3. CASE UNCHANGED phoneVars
      BY <2>3 DEF phoneVars, contactVars, dialVars, PhoneTypeOK, DialTypeOK
    <2> QED BY <2>1, <2>2, <2>3 DEF PhoneNext
  <1> QED BY <1>1, PhoneInitInv, PTL DEF PhoneSpec

(* For all hold times and every telephone whose contacts chatter no longer *)
(* than the hold times: every rotation is reported once, as the number of  *)
(* its pulses.                                                             *)
THEOREM DigitsSafe ==
    ASSUME ChatterIsShort
    PROVE  PhoneSpec => [](DigitsInv /\ DigitsFaithful)
  <1>1. DigitsInv /\ [PhoneNext]_phoneVars => DigitsInv'
    <2> SUFFICES ASSUME DigitsInv, [PhoneNext]_phoneVars PROVE DigitsInv'
      OBVIOUS
    <2>1. CASE Scan
      <3>1. PICK i, d, h, ri, rd \in 0 .. 1 : ScanOf(i, d, h, ri, rd)
        BY <2>1, ScanCases
      <3>2. PhoneTypeOK'
        BY <3>1, ScanTypes DEF DigitsInv
      <3>3. ImpulseInv' /\ DialingInv'
        BY <3>1, ChatterIsShort, ImpulseScan, DialingScan
      <3>4. /\ CountInv' /\ due' # "unexpected"
            /\ rv'.kind = "digit" /\ ~blurred' => rv' = Digit(pulses' % 10)
        BY <3>1, ChatterIsShort, CountScan
      <3> QED BY <3>2, <3>3, <3>4 DEF DigitsInv
    <2>2. CASE Blind
      BY <2>2, ChatterIsShort, DigitsBlind, SMTT(30)
    <2>3. CASE UNCHANGED phoneVars
      BY <2>3 DEF phoneVars, contactVars, dialVars, DigitsInv, PhoneTypeOK,
         DialTypeOK, ImpulseInv, DialingInv, CountInv
    <2> QED BY <2>1, <2>2, <2>3 DEF PhoneNext
  <1>2. DigitsInv => DigitsFaithful
    BY DEF DigitsInv, CountInv, DialingInv, PhoneTypeOK, DialTypeOK, DigitsFaithful
  <1>3. PhoneInit => DigitsInv
    BY ChatterIsShort, PhoneInitInv
  <1> QED BY <1>1, <1>2, <1>3, PTL DEF PhoneSpec

(* For all hold times and every hangup contact that keeps its position for *)
(* a hold time: the position the host was told last is the true one, once  *)
(* the contact has settled.                                                *)
THEOREM HookSafe ==
    ASSUME HookIsSlow
    PROVE  PhoneSpec => [](HookInv /\ HookEventsTellPosition)
  <1>1. PhoneTypeOK /\ HookInv /\ [PhoneNext]_phoneVars => HookInv'
    <2> SUFFICES ASSUME PhoneTypeOK, HookInv, [PhoneNext]_phoneVars PROVE HookInv'
      OBVIOUS
    <2>1. CASE Scan
      BY <2>1, HookIsSlow, HookScan
    <2>2. CASE Blind
      BY <2>2, HookIsSlow, HookBlind
    <2>3. CASE UNCHANGED phoneVars
      BY <2>3 DEF phoneVars, contactVars, dialVars, HookInv
    <2> QED BY <2>1, <2>2, <2>3 DEF PhoneNext
  <1>2. PhoneTypeOK /\ HookInv => HookEventsTellPosition
    BY PhoneConstants DEF HookInv, HookEventsTellPosition, PhoneTypeOK
  <1>3. PhoneInit => HookInv
    BY PhoneInitInv
  <1> QED BY <1>1, <1>2, <1>3, PhoneTypeCorrect, PTL DEF PhoneSpec

(* The two invariants together, as the run of the dial checks them.        *)
THEOREM PhoneInvariant ==
    ASSUME ChatterIsShort, HookIsSlow
    PROVE  PhoneSpec => []PhoneInv
  BY ChatterIsShort, HookIsSlow, DigitsSafe, HookSafe, PTL DEF PhoneInv
=============================================================================
