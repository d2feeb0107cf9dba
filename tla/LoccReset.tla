----------------------------- MODULE LoccReset -----------------------------
(***************************************************************************)
(* The opening cycle with resets of the controller, at any point of it and *)
(* any number of times.  Nothing of the firmware's state survives a reset; *)
(* the cylinder, fed by its buffer capacitor, may live through one.        *)
(***************************************************************************)
EXTENDS LoccSteps

(* Seeded bug: the sequencer is kept in memory that a reset does not clear. *)
ClearSequencer_KeepStep ==
    UNCHANGED current_locc_step /\ is_locking' = FALSE /\ pc' = "setup"

ClearSequencer ==
    current_locc_step' = 0 /\ is_locking' = FALSE /\ pc' = "setup"

(* A reset: the pins become inputs, the start-up code clears the variables *)
(* and setup() runs again.                                                 *)
Reset ==
    /\ lo' = 0 /\ hi' = 0 /\ rd' = 0 /\ tpc' = "idle"
    /\ millis' = 0 /\ ticks' = 0
    /\ ClearSequencer
    /\ io' = "FLOAT" /\ vcc' = FALSE /\ pin' = "setup"
    /\ cylinder' \in {cylinder, "asleep"}
    /\ cycle' = "first"

ResetNext == Next \/ Reset

ResetSafety == Init /\ [][ResetNext]_vars

-----------------------------------------------------------------------------
(* A reset may leave the cylinder open, with no step left to close it.     *)
(* From the end of the first complete cycle after it the firmware is again *)
(* ready only with the cylinder closed and powered.                        *)
CycleHealsReset ==
    ~is_locking /\ cycle = "later" => cylinder = "asleep" /\ vcc

(* The wake-up pulse and the telegram have their effect in a cycle that    *)
(* begins with a cylinder left awake or open by a reset, too: whenever the *)
(* sequencer waits to switch the power off, the cylinder is open.          *)
OpenWhenDue == current_locc_step = 3 /\ pc # "pins" => cylinder = "open"

(* The inductive invariant: the sequencer's is untouched by resets, what   *)
(* CylinderOfStep says holds except before the first telegram.             *)
CylinderAfterReset ==
    /\ Reached \in {0, 1} /\ cycle = "later" => cylinder = "asleep"
    /\ Reached = 2 => cylinder \in {"awake", "open"}
    /\ Reached = 3 => cylinder = "open"
    /\ Reached = 4 => cylinder = "asleep"

ResetInv == SequencerInv /\ CylinderAfterReset
=============================================================================
