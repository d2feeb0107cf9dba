----------------------------- MODULE LegacyLocc -----------------------------
(***************************************************************************)
(* The older interface of locc.c: loccStartOpening, loccPoll and           *)
(* state_machine, loccPowerDown and loccPowerUp.  The calls in c_locc.c    *)
(* are commented out; their caller is external, and like those calls it    *)
(* switches the power in any state.  The interface uses the same counter   *)
(* and the same pins as the opening cycle of LoccSteps; call tells which   *)
(* function is at work on the pins, tpc where it is in the counter.        *)
(***************************************************************************)
EXTENDS Cylinder

CONSTANTS
    POWERUP_TIME,   \* power-up to wake-up pulse (50)
    OPENED_TIME,    \* telegram to power-down (10000)
    DOWN_TIME       \* power-down to the end of the cycle (2)

States == {"SLEEP", "POWERUP", "AWAKEN", "OPEN", "POWERDOWN"}

ASSUME LegacyAssumption ==
    {POWERUP_TIME, OPENED_TIME, DOWN_TIME} \subseteq Delays \ {0}

VARIABLES
    state,
    call,       \* "setup", "enter" (state_machine), "power", or "none"
    cut         \* history: did the caller cut the power in this cycle?

legacyVars == <<timerVars, pinVars, state, call, cut>>

LegacyTypeOK ==
    /\ TimerTypeOK /\ PinTypeOK
    /\ state \in States
    /\ call \in {"setup", "enter", "power", "none"}
    /\ cut \in BOOLEAN

LegacyInit ==
    TimerInit /\ PinInit /\ state = "SLEEP" /\ call = "setup" /\ cut = FALSE

-----------------------------------------------------------------------------
LegacySetup ==
    /\ call = "setup"
    /\ loccSetup
    /\ call' = IF pin' = "done" THEN "none" ELSE "setup"
    /\ UNCHANGED <<timerVars, state, cut>>

(* Seeded bug: the telegram follows the wake-up pulse at once.              *)
WaitIn_NoWakeup(s) ==
    CASE s = "POWERUP" -> POWERUP_TIME
      [] s = "OPEN" -> OPENED_TIME
      [] s = "POWERDOWN" -> DOWN_TIME
      [] OTHER -> 0

(* The switch of state_machine: the delay of a state, and the first write  *)
(* of the function that drives the pins.                                   *)
WaitIn(s) ==
    CASE s = "POWERUP" -> POWERUP_TIME
      [] s = "AWAKEN" -> AWAKETIME
      [] s = "OPEN" -> OPENED_TIME
      [] s = "POWERDOWN" -> DOWN_TIME
      [] s = "SLEEP" -> 0

(* Seeded bug: the power stays on.                                          *)
PinsIn_NoPowerDown(s) ==
    CASE s = "POWERUP" -> "release"
      [] s = "AWAKEN" -> "pulse"
      [] s = "OPEN" -> "telegram"
      [] OTHER -> "done"

PinsIn(s) ==
    CASE s = "POWERUP" -> "release"
      [] s = "AWAKEN" -> "pulse"
      [] s = "OPEN" -> "telegram"
      [] s = "POWERDOWN" -> "drive"
      [] s = "SLEEP" -> "done"

(* state_machine: the new state, the pins, and the assignment to           *)
(* wait_ticks.                                                             *)
state_machine(new_state) ==
    /\ state' = new_state
    /\ pin' = PinsIn(new_state)
    /\ call' = "enter"
    /\ UNCHANGED <<timerVars, io, vcc, cylinder>>

EnterPins ==
    call = "enter" /\ PinWrite /\ UNCHANGED <<timerVars, state, call, cut>>

EnterWaits ==
    /\ call = "enter" /\ pin = "done"
    /\ StoreFirst(WaitIn(state))
    /\ call' = "none"
    /\ UNCHANGED <<pinVars, state, cut>>

StoreEnds == StoreSecond /\ UNCHANGED <<pinVars, state, call, cut>>

loccStartOpening ==
    /\ call = "none" /\ tpc = "idle" /\ state = "SLEEP"
    /\ state_machine("POWERUP")
    /\ cut' = FALSE

(* ++state; the state RESET behind POWERDOWN leads to SLEEP at once.       *)
After(s) ==
    CASE s = "POWERUP" -> "AWAKEN"
      [] s = "AWAKEN" -> "OPEN"
      [] s = "OPEN" -> "POWERDOWN"
      [] OTHER -> "SLEEP"

(* loccPoll loads wait_ticks and, if it is zero, enters the next state.    *)
PollLoads ==
    /\ call = "none" /\ (tpc = "reading" \/ state # "SLEEP")
    /\ LoadFirst \/ LoadSecond
    /\ UNCHANGED <<pinVars, state, call, cut>>

PollMoves ==
    /\ call = "none" /\ tpc = "expired"
    /\ state_machine(After(state))
    /\ UNCHANGED cut

loccPoll == PollLoads \/ PollMoves \/ EnterPins \/ EnterWaits \/ StoreEnds

(* loccPowerDown and loccPowerUp, called between two polls.                *)
SwitchPower ==
    /\ call = "none" /\ tpc = "idle"
    /\ \/ pin' = "drive" /\ cut' = (cut \/ state # "SLEEP")
       \/ pin' = "release" /\ UNCHANGED cut
    /\ call' = "power"
    /\ UNCHANGED <<timerVars, io, vcc, cylinder, state>>

PowerPins ==
    /\ call = "power"
    /\ PinWrite
    /\ call' = IF pin' = "done" THEN "none" ELSE "power"
    /\ UNCHANGED <<timerVars, state, cut>>

(* External: "the lock will automatic close the opener", in its own time.  *)
ClosesItself ==
    /\ cylinder = "open" /\ cylinder' = "awake"
    /\ UNCHANGED <<timerVars, io, vcc, pin, state, call, cut>>

LegacyTick == TIMER0_OVF /\ UNCHANGED <<pinVars, state, call, cut>>

LegacyNext ==
    \/ LegacySetup
    \/ loccStartOpening
    \/ loccPoll
    \/ SwitchPower
    \/ PowerPins
    \/ ClosesItself
    \/ LegacyTick

LegacySafety == LegacyInit /\ [][LegacyNext]_legacyVars

(* A call returns, the caller polls again and again, whatever other calls  *)
(* it makes in between, and the timer interrupt stays enabled.             *)
LegacySpec ==
    /\ LegacySafety
    /\ WF_legacyVars(LegacySetup) /\ WF_legacyVars(PowerPins)
    /\ SF_legacyVars(loccPoll) /\ WF_legacyVars(LegacyTick)

-----------------------------------------------------------------------------
(* loccPoll leaves no state early by Radix ticks or more, and AWAKEN not   *)
(* early at all.                                                           *)
LegacyDwell ==
    tpc = "expired" /\ call = "none" =>
        /\ ticks + Radix > WaitIn(state)
        /\ state = "AWAKEN" => ticks = AWAKETIME

(* Whenever the caller switches the power: the cylinder is open in the     *)
(* state OPEN and until POWERDOWN has switched the power off, no longer;   *)
(* and it is asleep when the next opening may start.                       *)
OpenInOpenOnly ==
    cylinder # "asleep" =>
        \/ state = "OPEN" /\ pin # "telegram"
        \/ state \in {"AWAKEN", "OPEN"} /\ cylinder = "awake"
        \/ state = "POWERDOWN" /\ call = "enter" /\ pin # "done"

(* The inductive invariant behind these: the counter runs for the state,   *)
(* or for the one before while state_machine is at work on the pins, and   *)
(* it is zero in SLEEP, where loccStartOpening sets it without looking.    *)
CountsForState ==
    /\ call \in {"setup", "power"} => tpc = "idle"
    /\ call # "enter" =>
        /\ millis = WaitIn(state)
        /\ state = "SLEEP" => tpc \in {"idle", "writing"}
    /\ call = "enter" =>
        IF state = "POWERUP" THEN tpc = "idle" /\ millis = 0
        ELSE /\ tpc = "expired"
             /\ state = "OPEN" => millis = AWAKETIME

(* The function at work, and how far it has got.                           *)
WritesOfCall ==
    /\ call = "none" => pin = "done"
    /\ call = "setup" =>
        state = "SLEEP" /\ pin \in {"setup", "release", "pull", "on"}
    /\ call = "power" => pin \in {"drive", "low", "off", "release", "pull", "on"}
    /\ call = "enter" =>
        pin \in CASE state = "POWERUP" -> {"release", "pull", "on", "done"}
                  [] state = "AWAKEN" -> {"pulse", "done"}
                  [] state = "OPEN" -> {"telegram", "done"}
                  [] state = "POWERDOWN" -> {"drive", "low", "off", "done"}
                  [] state = "SLEEP" -> {"done"}
    /\ pin = "off" => io = "LOW"

(* In a cycle in which the power is left alone the cylinder is powered and *)
(* hears the signals.                                                      *)
HearsSignals ==
    ~cut =>
        /\ \/ state = "POWERUP" /\ (call # "enter" \/ pin = "done")
           \/ state \in {"AWAKEN", "OPEN"}
           => vcc = TRUE
        /\ call = "power" /\ state # "SLEEP" => pin \notin {"drive", "low", "off"}
        /\ \/ state = "AWAKEN" /\ (call # "enter" \/ pin = "done")
           \/ state = "OPEN" /\ pin = "telegram"
           => cylinder = "awake"

LegacyInv ==
    /\ LegacyTypeOK /\ TimerInv /\ CountsForState
    /\ WritesOfCall /\ OpenInOpenOnly /\ HearsSignals

(* Unless the caller cuts the power during a cycle, the older interface    *)
(* implements the lock service as well.                                    *)
legacyPhase ==
    IF state = "SLEEP" THEN "ready"
    ELSE IF cylinder = "open" THEN "open"
    ELSE IF \/ state \in {"POWERUP", "AWAKEN"}
            \/ state = "OPEN" /\ pin = "telegram" THEN "accepted"
    ELSE "closed"

Lock == INSTANCE LockService WITH phase <- legacyPhase

LegacyImplementsLock == Lock!LockSpec
=============================================================================
