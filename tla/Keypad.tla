------------------------------- MODULE Keypad -------------------------------
(***************************************************************************)
(* The 4x4 matrix keypad: keypad_scan of keypad.c, which reads the columns *)
(* of the current row and moves on to the next, and shiftreg_out of        *)
(* c_locc.c, through which the main loop applies matrix_selector to the    *)
(* rows before the next scan.  External: the person pressing keys.         *)
(***************************************************************************)
EXTENDS Debounce, Integers, FiniteSetsExt

CONSTANTS
    KEY_HOLD,       \* hold time of a key, in scans of its row: 0x40
    Keys            \* the keys <<row, column>> that are pressed at all

ASSUME KeypadAssumption ==
    /\ KEY_HOLD \in Nat /\ KEY_HOLD > 1
    /\ Keys \subseteq (0 .. 3) \X (0 .. 3)

VARIABLES
    row, matrix_selector, debouncing,
    ret,            \* the key returned by the last scan, or NoKey
    driven,         \* the rows the shift register drives
    down,           \* the keys held down
    seen,           \* history: keys reported since they were pressed
    written         \* history: has the shift register been written yet?

scanVars == <<row, matrix_selector, debouncing, ret, driven, written>>
keypadVars == <<scanVars, down, seen>>

NoKey == <<>>

KeypadTypeOK ==
    /\ row \in 0 .. 3
    /\ matrix_selector \in 0 .. 255
    /\ debouncing \in [(0 .. 3) \X (0 .. 3) -> 0 .. KEY_HOLD]
    /\ ret \in ((0 .. 3) \X (0 .. 3)) \cup {NoKey}
    /\ driven \subseteq 0 .. 3 /\ written \in BOOLEAN
    /\ down \subseteq Keys /\ seen \subseteq Keys

(* Until the first shiftreg_out the shift register drives whatever it held *)
(* at power-up.                                                            *)
KeypadInit ==
    /\ row = 0
    /\ matrix_selector = 16
    /\ debouncing = [k \in (0 .. 3) \X (0 .. 3) |-> 0]
    /\ ret = NoKey
    /\ driven \in SUBSET (0 .. 3)
    /\ written = FALSE
    /\ down \in SUBSET Keys
    /\ seen = {}

-----------------------------------------------------------------------------
(* A column reads pressed if one of the driven rows has a key down in it.  *)
RowState(col) == IF \E r \in driven : <<r, col>> \in down THEN 1 ELSE 0

FreshColumns ==
    {col \in 0 .. 3 : Fires(debouncing[<<row, col>>], RowState(col))}

(* keypad_scan: the last column that fires is the one returned.  (The      *)
(* string lookup gives every key a character of its own.)                  *)
keypad_scan ==
    /\ debouncing' = [k \in DOMAIN debouncing |->
            IF k[1] = row
            THEN Debounced(debouncing[k], RowState(k[2]), KEY_HOLD)
            ELSE debouncing[k]]
    /\ ret' = IF FreshColumns = {} THEN NoKey ELSE <<row, Max(FreshColumns)>>
    /\ LET shifted == (matrix_selector * 2) % 256
       IN  IF shifted = 0 THEN matrix_selector' = 16 /\ row' = 0
                          ELSE matrix_selector' = shifted /\ row' = row + 1

(* The bit of the shift register that drives row r.                        *)
RowBit(r) == <<16, 32, 64, 128>>[r + 1]

(* Seeded bug: the selector is applied one scan late.                       *)
shiftreg_out_Late ==
    driven' = {r \in 0 .. 3 : (matrix_selector \div RowBit(r)) % 2 = 1}

(* Seeded bug: the row bits are taken to begin one position higher.         *)
shiftreg_out_Shifted ==
    driven' = {r \in 0 .. 3 : (matrix_selector' \div (2 * RowBit(r))) % 2 = 1}

(* shiftreg_out: the upper four bits of the register drive the rows, low   *)
(* active; the LED bits below are those of UserInput.                      *)
shiftreg_out ==
    driven' = {r \in 0 .. 3 : (matrix_selector' \div RowBit(r)) % 2 = 1}

(* The part of an iteration of loop() that is about the keypad.            *)
Frame ==
    /\ keypad_scan
    /\ shiftreg_out
    /\ written' = TRUE
    /\ seen' = IF ret' = NoKey THEN seen ELSE seen \cup ({ret'} \cap Keys)
    /\ UNCHANGED down

Press(k) == down' = down \cup {k} /\ seen' = seen \ {k} /\ UNCHANGED scanVars

Release(k) == down' = down \ {k} /\ UNCHANGED <<scanVars, seen>>

KeypadNext ==
    \/ Frame
    \/ \E k \in Keys \ down : Press(k)
    \/ \E k \in down : Release(k)

KeypadSpec == KeypadInit /\ [][KeypadNext]_keypadVars /\ WF_keypadVars(Frame)

-----------------------------------------------------------------------------
(* A step is a scan: every scan moves on to another row.                   *)
Scans == row' # row

(* The row counter and the selector shifted out after each scan never fall *)
(* apart: a reported key is one that is down in the row being driven.  Only*)
(* the first scan after a reset, with the rows undefined, may err.         *)
ReportsRealKeys ==
    [][Scans /\ ret' # NoKey /\ written => ret' \in down]_keypadVars

(* A key is reported at most once while it is held down.                   *)
OncePerPress == [][Scans /\ ret' # NoKey => ret' \notin seen]_keypadVars

(* No press goes unanswered: as long as a key whose hold time is over is   *)
(* down, the next scan of its row reports a key of that row, whatever      *)
(* happens in the other rows.  (Which one, if several are due, is up to    *)
(* keypad_scan.)                                                           *)
Due(k) == written /\ k \in down /\ debouncing[k] = 0

DueKeyReported ==
    \A k \in Keys :
        Due(k) ~> (k \notin down \/ (ret # NoKey /\ ret[1] = k[1]))

(* The inductive invariant behind the first two: the selector stands at    *)
(* the row, the row driven is the one scanned next, and the counter of a   *)
(* key that was reported and is still down does not run down to 0.         *)
KeypadInv ==
    /\ KeypadTypeOK
    /\ matrix_selector = RowBit(row)
    /\ IF written THEN driven = {row} ELSE seen = {}
    /\ \A k \in seen \cap down : debouncing[k] >= 1
=============================================================================
