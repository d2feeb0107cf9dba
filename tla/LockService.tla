----------------------------- MODULE LockService -----------------------------
(***************************************************************************)
(* What the firmware promises about the door, without timers, pins or      *)
(* bytes: an accepted open command opens the cylinder exactly once, the    *)
(* cylinder is closed again, and only then is the next command accepted.   *)
(* Only a command during which somebody else cut the power may fail.       *)
(***************************************************************************)
VARIABLES
    phase,
    cut         \* has the power been cut since the command was accepted?

LockInit == phase = "ready"

Accept == phase = "ready" /\ phase' = "accepted"
Open   == phase = "accepted" /\ phase' = "open"
Fail   == phase = "accepted" /\ cut /\ phase' = "closed"
Close  == phase = "open" /\ phase' = "closed"
Report == phase = "closed" /\ phase' = "ready"

LockNext == Accept \/ Open \/ Fail \/ Close \/ Report

LockSafety == LockInit /\ [][LockNext]_phase

(* Nothing obliges the host to send a command; everything after it is the  *)
(* firmware's duty.                                                        *)
LockLiveness ==
    WF_phase(Open \/ Fail) /\ WF_phase(Close) /\ WF_phase(Report)

LockSpec == LockSafety /\ LockLiveness
=============================================================================
