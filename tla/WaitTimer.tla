------------------------------ MODULE WaitTimer ------------------------------
(***************************************************************************)
(* The millisecond timer of locc.c: the counter wait_ticks, which the      *)
(* timer interrupt decrements, and the two functions through which the     *)
(* main loop uses it, set_wait_time and timer_is_expired.                  *)
(*                                                                         *)
(* wait_ticks is 32 bits wide on an 8-bit processor and neither function   *)
(* disables interrupts, so each access of the main loop is a sequence of   *)
(* byte accesses between which the interrupt can strike.  The counter is   *)
(* modelled as two limbs, the lowest byte lo and the rest hi: a borrow     *)
(* only ever crosses that boundary in a way that a reader can see, because *)
(* every delay of the firmware is below 2^16 and the two upper bytes stay  *)
(* zero.  The order in which a build touches the limbs is LowFirst.        *)
(***************************************************************************)
EXTENDS Integers

CONSTANTS
    Radix,      \* number of values of the low limb (256 in the firmware)
    LowFirst,   \* TRUE: bytes are accessed in ascending order (avr-gcc)
    Delays      \* the arguments set_wait_time is called with

ASSUME RadixAssumption == Radix \in Nat /\ Radix > 1
ASSUME OrderAssumption == LowFirst \in BOOLEAN
ASSUME DelaysAssumption ==
    Delays \subseteq 0 .. Radix * Radix - 1 /\ 0 \in Delays

VARIABLES
    lo, hi,     \* the limbs of wait_ticks
    rd,         \* did timer_is_expired read a zero limb (0) or not (1)?
    tpc,        \* where the main loop is inside the timer functions
    millis,     \* history: the delay set last
    ticks       \* history: decrements since that delay was being set

timerVars == <<lo, hi, rd, tpc, millis, ticks>>

wait_ticks == hi * Radix + lo

Low(m) == m % Radix
High(m) == m \div Radix

TimerTypeOK ==
    /\ lo \in 0 .. Radix - 1
    /\ hi \in Nat
    /\ rd \in 0 .. 1
    /\ tpc \in {"idle", "reading", "expired", "writing"}
    /\ millis \in Delays
    /\ ticks \in Nat

TimerInit ==
    /\ lo = 0 /\ hi = 0
    /\ rd = 0
    /\ tpc = "idle"
    /\ millis = 0
    /\ ticks = 0

-----------------------------------------------------------------------------
(* Seeded bug: the borrow never reaches the upper limb.                     *)
Decrement_NoBorrow == lo' = (lo + Radix - 1) % Radix /\ hi' = hi

(* wait_ticks--                                                            *)
Decrement ==
    IF lo > 0 THEN lo' = lo - 1 /\ hi' = hi
              ELSE lo' = Radix - 1 /\ hi' = hi - 1

(* The interrupt.  It runs with interrupts disabled, hence in one step. An *)
(* interrupt that finds the counter at zero changes nothing.               *)
TIMER0_OVF ==
    /\ wait_ticks > 0
    /\ Decrement
    /\ ticks' = ticks + 1
    /\ UNCHANGED <<rd, tpc, millis>>

(* timer_is_expired: the first load, then the second one and the verdict.  *)
LoadFirst ==
    /\ tpc = "idle"
    /\ LET first == IF LowFirst THEN lo ELSE hi
       IN  rd' = IF first = 0 THEN 0 ELSE 1
    /\ tpc' = "reading"
    /\ UNCHANGED <<lo, hi, millis, ticks>>

(* Seeded bug: timer_is_expired looks at one limb only.                     *)
LoadSecond_OneLimb ==
    /\ tpc = "reading"
    /\ tpc' = IF rd = 0 THEN "expired" ELSE "idle"
    /\ rd' = 0
    /\ UNCHANGED <<lo, hi, millis, ticks>>

LoadSecond ==
    /\ tpc = "reading"
    /\ LET other == IF LowFirst THEN hi ELSE lo
       IN  tpc' = IF rd = 0 /\ other = 0 THEN "expired" ELSE "idle"
    /\ rd' = 0
    /\ UNCHANGED <<lo, hi, millis, ticks>>

(* An assignment of m to wait_ticks: the first store, then the second one. *)
StoreFirst(m) ==
    /\ tpc \in {"idle", "expired"}
    /\ IF LowFirst THEN lo' = Low(m) /\ hi' = hi
                   ELSE hi' = High(m) /\ lo' = lo
    /\ tpc' = "writing"
    /\ millis' = m
    /\ ticks' = 0
    /\ UNCHANGED rd

StoreSecond ==
    /\ tpc = "writing"
    /\ IF LowFirst THEN hi' = High(millis) /\ lo' = lo
                   ELSE lo' = Low(millis) /\ hi' = hi
    /\ tpc' = "idle"
    /\ UNCHANGED <<rd, millis, ticks>>

(* The discipline of the callers: wait_ticks is assigned only after it was *)
(* found expired, or where it is known to be zero.                         *)
MayStore == tpc = "expired" \/ wait_ticks = 0

TimerNext ==
    \/ TIMER0_OVF
    \/ LoadFirst
    \/ LoadSecond
    \/ MayStore /\ \E m \in Delays : StoreFirst(m)
    \/ StoreSecond

TimerSpec == TimerInit /\ [][TimerNext]_timerVars

-----------------------------------------------------------------------------
(* What do_next_locc_step can rely on when timer_is_expired says yes: the  *)
(* interrupt has counted the whole delay if the delay fits the low byte,   *)
(* and all but at most Radix - 1 ticks of it otherwise; the timer never    *)
(* counts more ticks than it was asked to.                                 *)
ExpiryAlmostExact ==
    tpc = "expired" =>
        /\ ticks <= millis
        /\ ticks + Radix > millis
        /\ millis < Radix => ticks = millis

(* The inductive strengthening of ExpiryAlmostExact.  While the counter is *)
(* whole, the ticks counted and the ticks left add up to the delay, short  *)
(* of it only by what a store in descending order lost to a borrow.        *)
Balanced ==
    tpc # "writing" =>
        /\ ticks + wait_ticks <= millis
        /\ ticks + wait_ticks + Radix > millis
        /\ LowFirst \/ millis < Radix => ticks + wait_ticks = millis

HalfStored ==
    tpc = "writing" =>
        IF LowFirst THEN hi = 0 /\ ticks + lo = Low(millis)
                    ELSE ticks + wait_ticks = High(millis) * Radix

(* What the loads of timer_is_expired have established so far.             *)
LoadsAgree ==
    /\ tpc = "reading" /\ rd = 0 =>
        /\ ~LowFirst => hi = 0
        /\ LowFirst /\ hi = 0 /\ millis < Radix => lo = 0
    /\ tpc = "expired" =>
        /\ hi = 0
        /\ ~LowFirst \/ millis < Radix => lo = 0

TimerInv == TimerTypeOK /\ Balanced /\ HalfStored /\ LoadsAgree

(* The comment on timer_is_expired: it returns true "if the timer is       *)
(* finished waiting the time that was set using set_wait_time() before".   *)
ExpiryExact == tpc = "expired" => wait_ticks = 0
=============================================================================
