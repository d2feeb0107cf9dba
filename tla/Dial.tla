-------------------------------- MODULE Dial --------------------------------
(***************************************************************************)
(* dial_scan of dial.c: one call samples the three contacts of a rotary    *)
(* telephone (impulse, dialing, hangup; 1 is an open contact, pulled up)   *)
(* and returns at most one event for the host.                             *)
(***************************************************************************)
EXTENDS Debounce

CONSTANTS
    IMPULSE_HOLD,   \* hold times, in scans: 0x40,
    DIAL_HOLD,      \* 0x80
    HANGUP_HOLD,    \* and 0xFF
    CounterSize     \* values of the uint8_t dial_counter: 256

ASSUME HoldAssumption ==
    /\ IMPULSE_HOLD \in Nat /\ IMPULSE_HOLD > 1
    /\ DIAL_HOLD \in Nat /\ DIAL_HOLD > 1
    /\ HANGUP_HOLD \in Nat /\ HANGUP_HOLD > 2
    /\ CounterSize \in Nat /\ CounterSize > 10

VARIABLES
    dial_counter,
    state_impulse, state_dialing, state_hangup,
    rv              \* the event returned by the last scan

dialVars == <<dial_counter, state_impulse, state_dialing, state_hangup, rv>>

None == [kind |-> "none"]
Digit(n) == [kind |-> "digit", digit |-> n]
OffHook == [kind |-> "H"]
OnHook == [kind |-> "h"]

DialTypeOK ==
    /\ dial_counter \in 0 .. CounterSize - 1
    /\ state_impulse \in 0 .. IMPULSE_HOLD
    /\ state_dialing \in 0 .. DIAL_HOLD
    /\ state_hangup \in 0 .. HANGUP_HOLD
    /\ rv \in {None, OffHook, OnHook} \cup {Digit(n) : n \in 0 .. 9}

DialInit ==
    /\ dial_counter = 0
    /\ state_impulse = 0 /\ state_dialing = 0 /\ state_hangup = 0
    /\ rv = None

-----------------------------------------------------------------------------
(* Seeded bug: ten pulses are not taken for the digit 0.                    *)
DigitOf_NoZero(pulses) == pulses

(* Ten pulses, and more, stand for the digit 0.                            *)
DigitOf(pulses) == IF pulses >= 10 THEN 0 ELSE pulses

(* Seeded bug: the level is not taken over after the hold time.             *)
HangupAfter_Stuck(level) ==
    CASE state_hangup > 2 -> state_hangup - 1
      [] state_hangup = 1 - level -> HANGUP_HOLD
      [] OTHER -> state_hangup

(* The hangup contact reports both edges: 0 and 1 are its settled levels,  *)
(* and when the hold time has run down to 2 the level is taken over.       *)
HangupAfter(level) ==
    CASE state_hangup > 2 -> state_hangup - 1
      [] state_hangup = 1 - level -> HANGUP_HOLD
      [] OTHER -> level

HangupEvent(level) ==
    IF state_hangup # 1 - level THEN None
    ELSE IF level = 1 THEN OffHook ELSE OnHook

dial_scan(impulse, dialing, hangup) ==
    LET pulses == IF Fires(state_impulse, impulse)
                  THEN (dial_counter + 1) % CounterSize ELSE dial_counter
        dialled == Fires(state_dialing, dialing)
        hung == HangupEvent(hangup)
    IN  /\ state_impulse' = Debounced(state_impulse, impulse, IMPULSE_HOLD)
        /\ state_dialing' = Debounced(state_dialing, dialing, DIAL_HOLD)
        /\ dial_counter' = IF dialled THEN 0 ELSE pulses
        /\ state_hangup' = HangupAfter(hangup)
        /\ rv' = IF hung # None THEN hung
                 ELSE IF dialled THEN Digit(DigitOf(pulses))
                 ELSE None
=============================================================================
