------------------------------ MODULE LoccSteps ------------------------------
(***************************************************************************)
(* The opening cycle: the step sequencer of locc.c (start_locking,         *)
(* do_next_locc_step, do_locc_step) and the part of the main loop of       *)
(* c_locc.c that calls it.  The main loop interleaves with the timer       *)
(* interrupt at the granularity of WaitTimer.                              *)
(*                                                                         *)
(* A behaviour begins with loccSetup, which runs with interrupts disabled. *)
(***************************************************************************)
EXTENDS Cylinder

CONSTANTS
    OPEN_TIME,      \* telegram to power-down (15000)
    OFF_TIME,       \* power-down to power-up (5000)
    CHARGE_TIME     \* power-up to the next wake-up pulse (5000)

ASSUME StepDelaysAssumption ==
    {OPEN_TIME, OFF_TIME, CHARGE_TIME} \subseteq Delays \ {0}

VARIABLES
    current_locc_step,
    is_locking,
    pc,             \* where the main loop is
    cycle           \* history: has do_locc_step run since the reset?

doorVars == <<pinVars, cycle>>
loopVars == <<current_locc_step, is_locking, pc>>
vars == <<timerVars, loopVars, doorVars>>

TypeOK ==
    /\ TimerTypeOK
    /\ current_locc_step \in 0 .. 4
    /\ is_locking \in BOOLEAN
    /\ pc \in {"setup", "loop", "poll", "step", "pins", "set", "return"}
    /\ PinTypeOK
    /\ cycle \in {"first", "later"}

Init ==
    /\ TimerInit /\ PinInit
    /\ current_locc_step = 0
    /\ is_locking = FALSE
    /\ pc = "setup"
    /\ cycle = "first"

-----------------------------------------------------------------------------
Setup ==
    /\ pc = "setup"
    /\ loccSetup
    /\ pc' = IF pin' = "done" THEN "loop" ELSE "setup"
    /\ UNCHANGED <<timerVars, current_locc_step, is_locking, cycle>>

start_locking == current_locc_step' = 1

(* The head of the main loop, given the command read from the host (1: an  *)
(* open command): start_locking if idle, then do_next_locc_step if busy.   *)
LoopHead(command) ==
    /\ pc = "loop"
    /\ IF ~is_locking /\ command = 1
       THEN is_locking' = TRUE /\ start_locking
       ELSE UNCHANGED <<is_locking, current_locc_step>>
    /\ pc' = IF is_locking' THEN "poll" ELSE "loop"
    /\ UNCHANGED <<timerVars, doorVars>>

(* do_next_locc_step asks timer_is_expired.                                *)
PollFirst ==
    /\ pc = "poll"
    /\ LoadFirst
    /\ UNCHANGED <<loopVars, doorVars>>

PollSecond ==
    /\ pc = "poll"
    /\ LoadSecond
    /\ pc' = IF tpc' = "expired" THEN "step" ELSE "return"
    /\ UNCHANGED <<current_locc_step, is_locking, doorVars>>

(* The switch of do_locc_step: for each step the first write of the        *)
(* function that drives the pins, the delay and the next step.  Step 0     *)
(* drives nothing.                                                         *)
PinsOf(step) ==
    CASE step = 1 -> "pulse"
      [] step = 2 -> "telegram"
      [] step = 3 -> "drive"
      [] step = 4 -> "release"
      [] OTHER -> "done"

(* Seeded bug: the telegram follows the wake-up pulse at once.              *)
DelayOf_NoWakeup(step) ==
    CASE step = 2 -> OPEN_TIME
      [] step = 3 -> OFF_TIME
      [] step = 4 -> CHARGE_TIME
      [] OTHER -> 0

(* Seeded bug: no time for the capacitor to charge.                         *)
DelayOf_NoCharge(step) ==
    CASE step = 1 -> AWAKETIME
      [] step = 2 -> OPEN_TIME
      [] step = 3 -> OFF_TIME
      [] OTHER -> 0

DelayOf(step) ==
    CASE step = 1 -> AWAKETIME
      [] step = 2 -> OPEN_TIME
      [] step = 3 -> OFF_TIME
      [] step = 4 -> CHARGE_TIME
      [] OTHER -> 0

(* Seeded bug: the cycle ends with the power switched off.                  *)
StepAfter_NoPowerUp(step) == IF step >= 3 THEN 0 ELSE step + 1

(* Seeded bug: the step that sends the telegram is skipped.                 *)
StepAfter_NoTelegram(step) ==
    CASE step = 1 -> 3 [] step = 4 -> 0 [] OTHER -> step + 1

StepAfter(step) == IF step = 4 THEN 0 ELSE step + 1

(* do_locc_step calls the function that drives the pins.                   *)
do_locc_step ==
    /\ pc = "step"
    /\ pin' = PinsOf(current_locc_step)
    /\ pc' = "pins"
    /\ UNCHANGED <<timerVars, current_locc_step, is_locking, io, vcc,
                   cylinder, cycle>>

StepPins ==
    /\ pc = "pins"
    /\ PinWrite
    /\ UNCHANGED <<timerVars, loopVars, cycle>>

(* It goes on to set_wait_time and the next step, which no interrupt reads.*)
StepWaits ==
    /\ pc = "pins" /\ pin = "done"
    /\ StoreFirst(DelayOf(current_locc_step))
    /\ current_locc_step' = StepAfter(current_locc_step)
    /\ pc' = "set"
    /\ cycle' = "later"
    /\ UNCHANGED <<is_locking, pinVars>>

SetSecond ==
    /\ pc = "set"
    /\ StoreSecond
    /\ pc' = "return"
    /\ UNCHANGED <<current_locc_step, is_locking, doorVars>>

(* Seeded bug: do_next_locc_step never reports the end of the cycle.        *)
Return_Endless ==
    /\ pc = "return"
    /\ is_locking' = TRUE
    /\ pc' = "loop"
    /\ UNCHANGED <<current_locc_step, timerVars, doorVars>>

(* The result of do_next_locc_step; FALSE comes with a '.' to the host.    *)
Return ==
    /\ pc = "return"
    /\ is_locking' = IF current_locc_step > 0 THEN TRUE ELSE FALSE
    /\ pc' = "loop"
    /\ UNCHANGED <<current_locc_step, timerVars, doorVars>>

(* Everything do_next_locc_step does after the head of the loop.           *)
LockingStep ==
    \/ PollFirst \/ PollSecond
    \/ do_locc_step \/ StepPins \/ StepWaits
    \/ SetSecond \/ Return

Tick == TIMER0_OVF /\ UNCHANGED <<loopVars, doorVars>>

Next ==
    \/ Setup
    \/ LoopHead(0)
    \/ LoopHead(1)
    \/ LockingStep
    \/ Tick

(* The main loop runs for ever and every call it makes returns; the timer  *)
(* interrupt is never disabled for good.  The host owes nothing.           *)
Fairness ==
    WF_vars(Setup \/ LoopHead(0) \/ LockingStep) /\ WF_vars(Tick)

Safety == Init /\ [][Next]_vars

Spec == Safety /\ Fairness

-----------------------------------------------------------------------------
(* Every step of the cycle comes late enough.  When do_locc_step runs, the *)
(* wake-up delay has passed in full before the telegram, and the door was  *)
(* open, or unpowered, for all but Radix - 1 ticks of the intended time.   *)
MinimumDwell ==
    pc = "step" =>
        /\ current_locc_step = 2 => ticks = AWAKETIME
        /\ current_locc_step = 3 => ticks + Radix > OPEN_TIME
        /\ current_locc_step = 4 => ticks + Radix > OFF_TIME

(* A command that follows a finished cycle at once still finds the buffer  *)
(* capacitor charged: start_locking leaves the delay of step 4 running.    *)
(* Only the first cycle after a reset has no such wait.                    *)
ChargedBeforeWake ==
    pc = "step" /\ current_locc_step = 1 /\ cycle = "later" =>
        ticks + Radix > CHARGE_TIME

(* When the firmware is ready for a command the cylinder is closed, and it *)
(* is powered from the end of loccSetup on.                                *)
ReadyMeansClosed ==
    ~is_locking => cylinder = "asleep" /\ (vcc \/ pc = "setup")

(* "don't let leak power over signal line to vcc on cylinder": the power   *)
(* goes off with the line low already, whatever interrupts powerdown_locc, *)
(* and the line stays low until powerup_locc.  It is high without power    *)
(* only for the last write of powerup_locc, and in loccSetup.              *)
LeakOnlyAtPowerUp ==
    ~vcc /\ io = "HIGH" => pin = "on" \/ pc = "setup"

(* do_next_locc_step never finds the sequencer in its state 0, from which  *)
(* it would start a cycle nobody asked for.                                *)
NoUnrequestedCycle == pc = "step" => current_locc_step # 0

(* The inductive invariant behind these.  Each part ties one piece of      *)
(* state to the position in the cycle: the main loop's place in the timer  *)
(* functions, the cycle's being under way, the delay set last, the pins    *)
(* and the cylinder.                                                       *)
PlaceInTimer ==
    /\ pc \in {"setup", "loop", "return"} => tpc = "idle"
    /\ pc = "poll" => tpc \in {"idle", "reading"}
    /\ pc \in {"step", "pins"} => tpc = "expired"
    /\ pc = "set" => tpc = "writing"

CycleUnderWay ==
    /\ pc \notin {"setup", "loop"} => is_locking
    /\ pc = "setup" => ~is_locking /\ cycle = "first"
    /\ ~is_locking => current_locc_step = 0
    /\ is_locking /\ pc \notin {"set", "return"} => current_locc_step # 0

DelayOfStep ==
    /\ current_locc_step \in {0, 1} =>
            millis = IF cycle = "first" THEN 0 ELSE CHARGE_TIME
    /\ current_locc_step > 1 => cycle = "later"
    /\ current_locc_step = 2 => millis = AWAKETIME
    /\ current_locc_step = 3 => millis = OPEN_TIME
    /\ current_locc_step = 4 => millis = OFF_TIME

(* The step whose effect on the pins is complete, and is being waited for. *)
Reached ==
    IF pc = "pins" /\ pin = "done" THEN StepAfter(current_locc_step)
                                   ELSE current_locc_step

WritesOf(step) ==
    CASE step = 1 -> {"pulse", "done"}
      [] step = 2 -> {"telegram", "done"}
      [] step = 3 -> {"drive", "low", "off", "done"}
      [] step = 4 -> {"release", "pull", "on", "done"}
      [] OTHER -> {"done"}

PinsOfStep ==
    /\ pc = "setup" => vcc = FALSE /\ pin \in {"setup", "release", "pull", "on"}
    /\ pc = "pins" => pin \in WritesOf(current_locc_step)
    /\ pc \notin {"setup", "pins"} => pin = "done"
    /\ Reached # 4 /\ pc # "setup" => vcc = TRUE
    /\ Reached = 3 /\ pin = "off" => io = "LOW"
    /\ Reached = 4 =>
        /\ vcc = FALSE
        /\ io = CASE pin = "pull" -> "FLOAT" [] pin = "on" -> "HIGH"
                  [] OTHER -> "LOW"

CylinderOfStep ==
    /\ Reached \in {0, 1, 4} => cylinder = "asleep"
    /\ Reached = 2 => cylinder = "awake"
    /\ Reached = 3 => cylinder = "open"

SequencerInv ==
    /\ TypeOK /\ TimerInv /\ PlaceInTimer /\ CycleUnderWay
    /\ DelayOfStep /\ PinsOfStep

LoccInv == SequencerInv /\ CylinderOfStep

(* The opening cycle implements the lock service.                          *)
phaseMap ==
    IF ~is_locking THEN "ready"
    ELSE IF cylinder = "open" THEN "open"
    ELSE IF current_locc_step \in {1, 2} THEN "accepted"
    ELSE "closed"

Lock == INSTANCE LockService WITH phase <- phaseMap, cut <- FALSE

ImplementsLock == Lock!LockSpec
=============================================================================
