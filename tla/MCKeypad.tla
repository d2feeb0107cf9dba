------------------------------ MODULE MCKeypad ------------------------------
(* Two keys that share a row, and two that share a column.                 *)
EXTENDS Keypad

MCKeys == {<<0, 2>>, <<0, 3>>, <<2, 3>>}
=============================================================================
