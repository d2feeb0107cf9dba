------------------------------ MODULE UserInput ------------------------------
(***************************************************************************)
(* The command parser of c_locc.c: handle_user_input and set_led.          *)
(*                                                                         *)
(* A byte from the host is one of the classes the parser tells apart.      *)
(* "newline" stands for '\n' and '\r', which it never distinguishes, and   *)
(* "other" for every byte it gives no meaning to.                          *)
(***************************************************************************)
EXTENDS Integers, Sequences

CONSTANT Bytes      \* the byte classes the host sends

ASSUME BytesAssumption ==
    Bytes \subseteq {"o", "l", "h", "i", "newline", "0", "1", "2", "other"}

VARIABLES
    p_state,
    cmd_target,
    led_states,     \* the three LED bits, active low
    recent          \* history: the last three bytes handled, newest last

inputVars == <<p_state, cmd_target, led_states, recent>>

WAIT_FOR_NEWLINE == "WAIT_FOR_NEWLINE"
WAIT_FOR_CMD_CHAR == "WAIT_FOR_CMD_CHAR"
WAIT_FOR_LED_NUMBER == "WAIT_FOR_LED_NUMBER"
WAIT_FOR_LED_VALUE == "WAIT_FOR_LED_VALUE"

InputTypeOK ==
    /\ p_state \in {WAIT_FOR_NEWLINE, WAIT_FOR_CMD_CHAR,
                    WAIT_FOR_LED_NUMBER, WAIT_FOR_LED_VALUE}
    /\ cmd_target \in Bytes \cup {"other"}
    /\ led_states \in [0 .. 2 -> 0 .. 1]
    /\ recent \in Seq(Bytes) /\ Len(recent) <= 3

InputInit ==
    /\ p_state = WAIT_FOR_NEWLINE
    /\ cmd_target = "other"
    /\ led_states = [n \in 0 .. 2 |-> 1]
    /\ recent = <<>>

-----------------------------------------------------------------------------
(* c - '0' as an unsigned byte: the digits give their value, every other   *)
(* byte something above 2.                                                 *)
MinusZero(c) ==
    CASE c = "0" -> 0 [] c = "1" -> 1 [] c = "2" -> 2 [] OTHER -> 255

(* Seeded bug: the bit is the value itself.                                 *)
set_led_Raw(num, val) ==
    led_states' = IF num < 3 THEN [led_states EXCEPT ![num] = val]
                             ELSE led_states

(* Seeded bug: the LEDs are taken to be active high.                        *)
set_led_ActiveHigh(num, val) ==
    led_states' = IF num < 3
                  THEN [led_states EXCEPT ![num] = IF val = 0 THEN 0 ELSE 1]
                  ELSE led_states

set_led(num, val) ==
    led_states' = IF num < 3
                  THEN [led_states EXCEPT ![num] = IF val = 0 THEN 1 ELSE 0]
                  ELSE led_states

(* The command the parser returns for byte c.                              *)
CommandOf(c) == IF p_state = WAIT_FOR_CMD_CHAR /\ c = "o" THEN 1 ELSE 0

(* Seeded bug: any byte ends the wait for a newline.                        *)
AwaitNewline_Any(c) ==
    /\ p_state = WAIT_FOR_NEWLINE
    /\ p_state' = WAIT_FOR_CMD_CHAR
    /\ UNCHANGED <<cmd_target, led_states>>

AwaitNewline(c) ==
    /\ p_state = WAIT_FOR_NEWLINE
    /\ p_state' = IF c = "newline" THEN WAIT_FOR_CMD_CHAR ELSE p_state
    /\ UNCHANGED <<cmd_target, led_states>>

AwaitCommand(c) ==
    /\ p_state = WAIT_FOR_CMD_CHAR
    /\ p_state' = CASE c = "l" -> WAIT_FOR_LED_NUMBER
                    [] c \in {"h", "i", "newline"} -> p_state
                    [] OTHER -> WAIT_FOR_NEWLINE
    /\ UNCHANGED <<cmd_target, led_states>>

AwaitLedNumber(c) ==
    /\ p_state = WAIT_FOR_LED_NUMBER
    /\ cmd_target' = c
    /\ p_state' = WAIT_FOR_LED_VALUE
    /\ UNCHANGED led_states

(* Seeded bug: after an LED command comes another LED number.               *)
AwaitLedValue_Again(c) ==
    /\ p_state = WAIT_FOR_LED_VALUE
    /\ set_led(MinusZero(cmd_target), MinusZero(c))
    /\ p_state' = WAIT_FOR_LED_NUMBER
    /\ UNCHANGED cmd_target

(* Seeded bug: an LED command needs no newline after it.                    *)
AwaitLedValue_NoNewline(c) ==
    /\ p_state = WAIT_FOR_LED_VALUE
    /\ set_led(MinusZero(cmd_target), MinusZero(c))
    /\ p_state' = WAIT_FOR_CMD_CHAR
    /\ UNCHANGED cmd_target

AwaitLedValue(c) ==
    /\ p_state = WAIT_FOR_LED_VALUE
    /\ set_led(MinusZero(cmd_target), MinusZero(c))
    /\ p_state' = WAIT_FOR_NEWLINE
    /\ UNCHANGED cmd_target

Remember(c) ==
    recent' = IF Len(recent) < 3 THEN Append(recent, c)
                                 ELSE Append(Tail(recent), c)

handle_user_input(c) ==
    /\ \/ AwaitNewline(c)
       \/ AwaitCommand(c)
       \/ AwaitLedNumber(c)
       \/ AwaitLedValue(c)
    /\ Remember(c)

InputNext == \E c \in Bytes : handle_user_input(c)

InputSpec == InputInit /\ [][InputNext]_inputVars

-----------------------------------------------------------------------------
Newest(k) == recent[Len(recent) + 1 - k]

(* Whatever the parser was in the middle of, three newlines bring it back  *)
(* to the start of a command: two may be eaten as LED number and value.    *)
ThreeNewlinesResync ==
    Len(recent) = 3 /\ (\A k \in 1 .. 3 : Newest(k) = "newline") =>
        p_state = WAIT_FOR_CMD_CHAR

(* The parser is ready to take a command only right after a newline, or    *)
(* after 'h' or 'i', which it skips; no other byte can be followed by an   *)
(* 'o' that opens the lock.                                                *)
CommandAtLineStart ==
    p_state = WAIT_FOR_CMD_CHAR =>
        recent # <<>> /\ Newest(1) \in {"newline", "h", "i"}

(* LED n changes only on the last byte of l[n][b], and then it goes on     *)
(* (bit 0) unless b is '0'; the other LEDs stay as they are.               *)
LedsFollowCommands ==
    [][\A n \in 0 .. 2 : led_states'[n] # led_states[n] =>
            /\ Len(recent) >= 2 /\ Newest(2) = "l"
            /\ MinusZero(Newest(1)) = n
            /\ led_states'[n] = IF recent'[Len(recent')] = "0" THEN 1 ELSE 0
            /\ \A k \in (0 .. 2) \ {n} : led_states'[k] = led_states[k]
      ]_inputVars

(* The inductive invariant behind these: in the middle of an LED command   *)
(* its first bytes are the last ones handled.                              *)
ParserInv ==
    /\ InputTypeOK /\ CommandAtLineStart /\ ThreeNewlinesResync
    /\ p_state = WAIT_FOR_LED_NUMBER => recent # <<>> /\ Newest(1) = "l"
    /\ p_state = WAIT_FOR_LED_VALUE =>
           Len(recent) >= 2 /\ Newest(2) = "l" /\ Newest(1) = cmd_target
=============================================================================
