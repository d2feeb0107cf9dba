-------------------------------- MODULE CLocc --------------------------------
(***************************************************************************)
(* The main loop of c_locc.c as far as the lock is concerned: the parser   *)
(* of UserInput feeds the opening cycle of LoccSteps, and the replies of   *)
(* both go to the host.  A byte may arrive at the head of any iteration.   *)
(***************************************************************************)
EXTENDS LoccSteps, UserInput

VARIABLES
    asked,      \* history: has the host asked for this cycle?
    host        \* external: what the host concludes from the replies

hostVars == <<asked, host>>
allVars == <<vars, inputVars, hostVars>>

LoopTypeOK ==
    /\ TypeOK
    /\ InputTypeOK
    /\ asked \in BOOLEAN
    /\ host \in {"ready", "echoed", "busy"}

LoopInit ==
    /\ Init
    /\ InputInit
    /\ asked = FALSE
    /\ host = "ready"

-----------------------------------------------------------------------------
(* External: the host counts.  The echo of an 'o' while it believes the    *)
(* firmware ready, followed by the 'O' of an accepted command, means busy; *)
(* a further 'O' is a command that was dropped.                            *)
HostCounts(os) ==
    CASE host = "ready" /\ os = 1 -> "echoed"
      [] host = "ready" /\ os = 2 -> "busy"
      [] host = "echoed" /\ os > 0 -> "busy"
      [] OTHER -> host

(* The 'O' handle_user_input sends for byte c.                             *)
Echo(c) == IF CommandOf(c) = 1 THEN 1 ELSE 0

(* Seeded bug: an accepted command is not acknowledged beyond the echo.     *)
Acknowledgement_None(c) == 0

(* The 'O' loop() sends if the command is accepted.                        *)
Acknowledgement(c) == IF ~is_locking /\ CommandOf(c) = 1 THEN 1 ELSE 0

(* The host asks for the lock to be opened: an 'o' where a command may be. *)
Asks(c) ==
    c = "o" /\ recent # <<>> /\ Newest(1) \in {"newline", "h", "i"}

(* loop() with a byte from the host, and without one.                      *)
Receive(c) ==
    /\ LoopHead(CommandOf(c))
    /\ handle_user_input(c)
    /\ asked' = (asked \/ Asks(c))
    /\ host' = HostCounts(Echo(c) + Acknowledgement(c))

NoByte == LoopHead(0) /\ UNCHANGED <<inputVars, hostVars>>

LoopSetup == Setup /\ UNCHANGED <<inputVars, hostVars>>

(* do_next_locc_step; at the end of a cycle it reports '.'.                *)
Proceed ==
    /\ LockingStep
    /\ IF is_locking' THEN UNCHANGED hostVars
                      ELSE asked' = FALSE /\ host' = "ready"
    /\ UNCHANGED inputVars

LoopTick == Tick /\ UNCHANGED <<inputVars, hostVars>>

LoopNext ==
    \/ \E c \in Bytes : Receive(c)
    \/ LoopSetup
    \/ NoByte
    \/ Proceed
    \/ LoopTick

LoopSafety == LoopInit /\ [][LoopNext]_allVars

LoopSpec ==
    /\ LoopSafety
    /\ WF_allVars(LoopSetup \/ NoByte \/ Proceed) /\ WF_allVars(LoopTick)

-----------------------------------------------------------------------------
(* The cylinder opens only in a cycle the host has asked for since the     *)
(* last '.': bytes in other places of the stream never open it, and an     *)
(* open command that arrives during a cycle is dropped, not kept for later.*)
OpensOnlyOnRequest ==
    [][cylinder' = "open" /\ cylinder # "open" => asked]_allVars

(* The replies suffice for the host to know whether a cycle is running,    *)
(* and so whether its next command will be accepted or dropped.            *)
RepliesTellState == host = IF is_locking THEN "busy" ELSE "ready"

(* The inductive invariant behind these.                                   *)
LoopInv ==
    /\ LoopTypeOK /\ LoccInv
    /\ CommandAtLineStart
    /\ is_locking => asked
    /\ RepliesTellState

(* An open command that finds the firmware ready is obeyed and reported:   *)
(* the cylinder opens, and later the host is told that the cycle is over.  *)
RequestsServed ==
    /\ is_locking /\ current_locc_step = 1 ~> cylinder = "open"
    /\ cylinder = "open" ~> host = "ready"
=============================================================================
