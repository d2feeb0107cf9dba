------------------------------ MODULE Cylinder ------------------------------
(***************************************************************************)
(* The lock cylinder and the functions of locc.c that drive its data line  *)
(* and its power.  An interrupt, and a reset, may fall between two writes  *)
(* to the pins, so powerdown_locc and powerup_locc are one action for each *)
(* write; pin tells which write comes next.  The wake-up pulse and the     *)
(* telegram, whose halves Telegram models, count as one write each.        *)
(* External: the cylinder itself.                                          *)
(***************************************************************************)
EXTENDS WaitTimer

CONSTANT AWAKETIME      \* wake-up pulse to telegram (59)

ASSUME AwakeAssumption == AWAKETIME \in Delays \ {0} /\ AWAKETIME < Radix

VARIABLES
    io,             \* the cylinder's data line: an input without pull-up FLOATs
    vcc,            \* is the cylinder powered?
    cylinder,       \* external: what the cylinder is doing
    pin             \* the next write to the pins, or "done"

pinVars == <<io, vcc, cylinder, pin>>

PinTypeOK ==
    /\ io \in {"HIGH", "LOW", "FLOAT"}
    /\ vcc \in BOOLEAN
    /\ cylinder \in {"asleep", "awake", "open"}
    /\ pin \in {"setup", "release", "pull", "on", "drive", "low", "off",
                "pulse", "telegram", "done"}

(* Before loccSetup the pins are inputs: nothing is driven or powered.     *)
PinInit ==
    io = "FLOAT" /\ vcc = FALSE /\ cylinder = "asleep" /\ pin = "setup"

(* External: the cylinder reacts to signals only while it is powered; it   *)
(* takes a telegram only once it has been awake for AWAKETIME.             *)
CylinderHears(signal) ==
    cylinder' = IF ~vcc THEN cylinder
                ELSE IF signal = "wake" /\ cylinder = "asleep" THEN "awake"
                ELSE IF /\ signal = "open" /\ cylinder = "awake"
                        /\ ticks >= AWAKETIME THEN "open"
                ELSE cylinder

(* External: without power the cylinder closes and shuts down, unless the  *)
(* power that leaks in over a high data line keeps it going.               *)
CylinderFed ==
    cylinder' \in IF vcc' THEN {cylinder}
                  ELSE IF io' = "HIGH" THEN {cylinder, "asleep"}
                  ELSE {"asleep"}

-----------------------------------------------------------------------------
wakeup_locc ==
    /\ pin = "pulse" /\ pin' = "done"
    /\ CylinderHears("wake") /\ io' = "HIGH" /\ vcc' = vcc

open_locc ==
    /\ pin = "telegram" /\ pin' = "done"
    /\ CylinderHears("open") /\ io' = "HIGH" /\ vcc' = vcc

(* Seeded bug: the power goes off before the data line is low.              *)
powerdown_locc_OffFirst ==
    /\ \/ /\ pin = "drive" /\ pin' = "off"
          /\ io' = (IF io = "FLOAT" THEN "LOW" ELSE io) /\ vcc' = vcc
       \/ pin = "off" /\ pin' = "low" /\ io' = io /\ vcc' = FALSE
       \/ pin = "low" /\ pin' = "done" /\ io' = "LOW" /\ vcc' = vcc
    /\ CylinderFed

(* Seeded bug: powerdown_locc leaves the data line pulled up.               *)
powerdown_locc_LineHigh ==
    /\ pin = "drive" /\ pin' = "done" /\ io' = "HIGH" /\ vcc' = FALSE
    /\ CylinderFed

(* The data line becomes an output, goes low, and the power goes off.      *)
powerdown_locc ==
    /\ \/ /\ pin = "drive" /\ pin' = "low"
          /\ io' = (IF io = "FLOAT" THEN "LOW" ELSE io) /\ vcc' = vcc
       \/ pin = "low" /\ pin' = "off" /\ io' = "LOW" /\ vcc' = vcc
       \/ pin = "off" /\ pin' = "done" /\ io' = io /\ vcc' = FALSE
    /\ CylinderFed

(* The data line becomes an input, is pulled up, and the power goes on.    *)
powerup_locc ==
    /\ \/ /\ pin = "release" /\ pin' = "pull"
          /\ io' = (IF io = "LOW" THEN "FLOAT" ELSE io) /\ vcc' = vcc
       \/ pin = "pull" /\ pin' = "on" /\ io' = "HIGH" /\ vcc' = vcc
       \/ pin = "on" /\ pin' = "done" /\ io' = io /\ vcc' = TRUE
    /\ CylinderFed

PinWrite == wakeup_locc \/ open_locc \/ powerdown_locc \/ powerup_locc

(* loccSetup pulls the line up with the power still off; then powerup_locc.*)
loccSetup ==
    \/ /\ pin = "setup" /\ pin' = "release"
       /\ io' = "HIGH" /\ vcc' = FALSE /\ CylinderFed
    \/ powerup_locc
=============================================================================
