------------------------------ MODULE Debounce ------------------------------
(***************************************************************************)
(* The debouncing counter that keypad.c keeps for every key and dial.c for *)
(* the impulse and the dialing contact.  0: released; a press fires and    *)
(* loads the counter with a hold time, which runs down to 1 whatever the   *)
(* input does; at 1 the counter waits for the release.                     *)
(***************************************************************************)
EXTENDS Naturals

(* The contact fires: the code's test for a fresh press.                   *)
Fires(counter, level) == counter = 0 /\ level = 1

(* Seeded bug: no hold time.                                                *)
Debounced_NoHold(counter, level, hold) == level

(* Seeded bug: a key that is kept down fires again after the hold time.     *)
Debounced_Repeats(counter, level, hold) ==
    IF counter > 0 THEN counter - 1
    ELSE IF level = 0 THEN 0 ELSE hold

(* Seeded bug: the hold time is one too long.                               *)
Debounced_Overlong(counter, level, hold) ==
    IF counter > 1 THEN counter - 1
    ELSE IF level = 0 THEN 0
    ELSE IF counter = 0 THEN hold + 1
    ELSE counter

Debounced(counter, level, hold) ==
    IF counter > 1 THEN counter - 1
    ELSE IF level = 0 THEN 0
    ELSE IF counter = 0 THEN hold
    ELSE counter
=============================================================================
