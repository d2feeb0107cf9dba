-------------------------- MODULE LoccSteps_proofs --------------------------
(***************************************************************************)
(* Proofs about the opening cycle, for every radix, both byte orders and   *)
(* all delays that satisfy the assumptions of LoccSteps, and about the     *)
(* cycle with resets of the controller (LoccReset).                        *)
(***************************************************************************)
EXTENDS LoccReset, WaitTimer_proofs

(* The four delays of do_locc_step are arguments of set_wait_time, and the *)
(* wake-up delay fits one byte.                                            *)
LEMMA StepDelays ==
    /\ 0 \in Delays
    /\ AWAKETIME \in Delays /\ OPEN_TIME \in Delays
    /\ OFF_TIME \in Delays /\ CHARGE_TIME \in Delays
    /\ AWAKETIME < Radix /\ CHARGE_TIME # 0
    /\ AWAKETIME \in Nat /\ OPEN_TIME \in Nat
    /\ OFF_TIME \in Nat /\ CHARGE_TIME \in Nat
  BY DelaysAssumption, StepDelaysAssumption, AwakeAssumption, DelaysAreNat,
     Zenon

(* A step that has driven the pins begins exactly one set_wait_time.       *)
LEMMA StepStores ==
    ASSUME StepWaits
    PROVE  \E m \in Delays : StoreFirst(m)
  BY StepDelays DEF StepWaits, DelayOf

(* The main loop uses the timer only as WaitTimer describes.               *)
LEMMA TimerStep == PlaceInTimer /\ [Next]_vars => [TimerNext]_timerVars
  <1> SUFFICES ASSUME PlaceInTimer, [Next]_vars PROVE [TimerNext]_timerVars
    OBVIOUS
  <1>1. CASE \/ Setup \/ LoopHead(0) \/ LoopHead(1) \/ Return
             \/ do_locc_step \/ StepPins
    BY <1>1, Zenon
    DEF Setup, LoopHead, start_locking, Return, do_locc_step, StepPins,
       timerVars
  <1>2. CASE PollFirst
    BY <1>2 DEF PollFirst, TimerNext
  <1>3. CASE PollSecond
    BY <1>3 DEF PollSecond, TimerNext
  <1>4. CASE StepWaits
    <2>1. MayStore
      BY <1>4 DEF StepWaits, PlaceInTimer, MayStore
    <2> QED BY <1>4, <2>1, StepStores DEF TimerNext
  <1>5. CASE SetSecond
    BY <1>5 DEF SetSecond, TimerNext
  <1>6. CASE Tick
    BY <1>6 DEF Tick, TimerNext
  <1>7. CASE UNCHANGED vars
    BY <1>7 DEF vars, timerVars
  <1> QED
    BY <1>1, <1>2, <1>3, <1>4, <1>5, <1>6, <1>7 DEF Next, LockingStep

(* The state after a reset, before loccSetup, satisfies the invariant.     *)
LEMMA LoccInitInv == Init => LoccInv
  <1> SUFFICES ASSUME Init PROVE LoccInv
    OBVIOUS
  <1>1. TimerInv
    BY TimerInitInv DEF Init
  <1>2. TypeOK
    <2>1. is_locking \in BOOLEAN /\ vcc \in BOOLEAN
      BY Zenon DEF Init, PinInit
    <2> QED BY <2>1, <1>1 DEF Init, PinInit, TypeOK, PinTypeOK, TimerInv
  <1>3. PlaceInTimer /\ CycleUnderWay /\ DelayOfStep
    BY DEF Init, PinInit, TimerInit, PlaceInTimer, CycleUnderWay, DelayOfStep
  <1>4. PinsOfStep /\ CylinderOfStep
    BY DEF Init, PinInit, Reached, PinsOfStep, CylinderOfStep
  <1> QED
    BY <1>1, <1>2, <1>3, <1>4 DEF LoccInv, SequencerInv

(* loccSetup preserves the invariant of the sequencer: when it is done the *)
(* power is on and no cycle is under way.                                  *)
LEMMA SetupInv ==
    ASSUME SequencerInv, TimerInv', Setup
    PROVE  /\ SequencerInv'
           /\ current_locc_step = 0 /\ Reached = 0 /\ Reached' = 0
           /\ cylinder' \in {cylinder, "asleep"}
  <1>1. /\ pc = "setup" /\ ~is_locking /\ current_locc_step = 0
        /\ UNCHANGED <<tpc, millis, current_locc_step, is_locking, cycle>>
        /\ pin \in {"setup", "release", "pull", "on"} /\ vcc = FALSE
        /\ pc' \in {"setup", "loop"}
    BY DEF SequencerInv, CycleUnderWay, PinsOfStep, Setup, timerVars
  <1>2. PinTypeOK'
    BY PinsTyped DEF Setup, SequencerInv, TypeOK
  <1>3. TypeOK'
    BY <1>1, <1>2 DEF SequencerInv, TypeOK, TimerInv
  <1>4. PlaceInTimer' /\ CycleUnderWay' /\ DelayOfStep'
    BY <1>1 DEF SequencerInv, PlaceInTimer, CycleUnderWay, DelayOfStep
  <1>5. Reached = 0 /\ Reached' = 0
    BY <1>1 DEF Reached
  <1>6. \/ pin' \in {"release", "pull", "on"} /\ vcc' = FALSE /\ pc' = "setup"
        \/ pin' = "done" /\ vcc' = TRUE /\ pc' = "loop"
    BY <1>1 DEF Setup, loccSetup, powerup_locc
  <1>7. PinsOfStep'
    BY <1>5, <1>6 DEF PinsOfStep
  <1>8. cylinder' \in {cylinder, "asleep"}
    BY DEF Setup, loccSetup, powerup_locc, CylinderFed
  <1> QED BY <1>1, <1>3, <1>4, <1>5, <1>7, <1>8 DEF SequencerInv

(* The head of loop() preserves the invariant of the sequencer: an         *)
(* accepted command moves it from 0 to step 1.                             *)
LEMMA LoopHeadInv ==
    ASSUME SequencerInv, TimerInv', NEW command \in 0 .. 1, LoopHead(command)
    PROVE  SequencerInv'
  <1>1. UNCHANGED <<tpc, millis, io, vcc, cylinder, pin, cycle>> /\ pc = "loop"
    BY DEF LoopHead, timerVars, doorVars, pinVars
  <1>2. CASE ~is_locking /\ command = 1
    <2>1. /\ is_locking' = TRUE /\ current_locc_step' = 1 /\ pc' = "poll"
          /\ current_locc_step = 0
      BY <1>2 DEF LoopHead, start_locking, SequencerInv, CycleUnderWay
    <2>2. PinsOfStep'
      BY <2>1, <1>1 DEF SequencerInv, PinsOfStep, Reached
    <2> QED
      BY <2>1, <2>2, <1>1 DEF SequencerInv, TypeOK, PinTypeOK, TimerInv,
         PlaceInTimer, CycleUnderWay, DelayOfStep
  <1>3. CASE ~(~is_locking /\ command = 1)
    <2>1. /\ UNCHANGED <<is_locking, current_locc_step>>
          /\ pc' = IF is_locking THEN "poll" ELSE "loop"
      BY <1>3 DEF LoopHead
    <2>2. PinsOfStep'
      BY <2>1, <1>1 DEF SequencerInv, PinsOfStep, Reached
    <2> QED
      BY <2>1, <2>2, <1>1 DEF SequencerInv, TypeOK, PinTypeOK, TimerInv,
         DelayOfStep, PlaceInTimer, CycleUnderWay
  <1> QED BY <1>2, <1>3

(* Polling timer_is_expired preserves it: do_locc_step is reached only     *)
(* with the timer found expired.  So do the second store of set_wait_time, *)
(* and the return from do_next_locc_step, which ends a cycle exactly at    *)
(* step 0, and the timer interrupt.                                        *)
LEMMA PollInv ==
    ASSUME SequencerInv, TimerInv',
           PollFirst \/ PollSecond \/ SetSecond \/ Return \/ Tick
    PROVE  SequencerInv'
  <1>1. UNCHANGED <<current_locc_step, millis, io, vcc, cylinder, pin, cycle>>
    BY Zenon
    DEF PollFirst, PollSecond, LoadFirst, LoadSecond, SetSecond, StoreSecond,
       Return, Tick, TIMER0_OVF, loopVars, timerVars, doorVars, pinVars
  <1>2. DelayOfStep' /\ PinTypeOK' /\ cycle' = cycle
    BY <1>1 DEF SequencerInv, TypeOK, DelayOfStep, PinTypeOK
  <1>3. PinsOfStep'
    <2>1. pc' = pc \/ {pc, pc'} \cap {"setup", "pins"} = {}
      BY DEF PollFirst, PollSecond, SetSecond, Return, Tick, loopVars
    <2> QED BY <1>1, <2>1, Zenon DEF SequencerInv, PinsOfStep, Reached
  <1>4. CASE PollFirst \/ PollSecond
    BY <1>1, <1>2, <1>3, <1>4 DEF PollFirst, PollSecond, LoadFirst, LoadSecond,
       loopVars, SequencerInv, TypeOK, TimerInv, PlaceInTimer, CycleUnderWay
  <1>5. CASE SetSecond
    BY <1>1, <1>2, <1>3, <1>5 DEF SetSecond, StoreSecond, SequencerInv, TypeOK,
       TimerInv, PlaceInTimer, CycleUnderWay
  <1>6. CASE Return
    <2>1. is_locking' \in BOOLEAN /\ pc' = "loop" /\ tpc' = tpc /\ pc = "return"
      BY <1>6 DEF Return, timerVars
    <2>2. CycleUnderWay'
      BY <1>6 DEF Return, SequencerInv, TypeOK, CycleUnderWay
    <2> QED
      BY <1>1, <1>2, <1>3, <2>1, <2>2
      DEF SequencerInv, TypeOK, TimerInv, PlaceInTimer
  <1>7. CASE Tick
    BY <1>1, <1>2, <1>3, <1>7 DEF Tick, TIMER0_OVF, loopVars, SequencerInv,
       TypeOK, TimerInv, PlaceInTimer, CycleUnderWay
  <1> QED BY <1>4, <1>5, <1>6, <1>7

(* Inside do_locc_step a cycle is under way, in one of the steps 1 to 4.   *)
LEMMA InStep ==
    ASSUME SequencerInv, pc \in {"step", "pins"}
    PROVE  is_locking = TRUE /\ tpc = "expired" /\ current_locc_step \in 1 .. 4
  BY DEF SequencerInv, TypeOK, PlaceInTimer, CycleUnderWay

(* The call of the function that drives the pins preserves it.             *)
LEMMA EnterInv ==
    ASSUME SequencerInv, TimerInv', do_locc_step
    PROVE  SequencerInv' /\ Reached' = Reached
  <1>1. /\ pc = "step" /\ pc' = "pins" /\ pin' = PinsOf(current_locc_step)
        /\ UNCHANGED <<tpc, millis, current_locc_step, is_locking, io, vcc,
                       cylinder, cycle>>
    BY DEF do_locc_step, timerVars
  <1>2. is_locking = TRUE /\ current_locc_step \in 1 .. 4
    BY <1>1, InStep
  <1>3. /\ pin = "done" /\ pin' \in WritesOf(current_locc_step)
        /\ pin' \in {"pulse", "telegram", "drive", "release"}
    BY <1>1, <1>2 DEF PinsOf, WritesOf, SequencerInv, PinsOfStep
  <1>4. Reached = current_locc_step /\ Reached' = current_locc_step
    BY <1>1, <1>3 DEF Reached
  <1>5. PinsOfStep'
    BY <1>1, <1>3, <1>4 DEF SequencerInv, PinsOfStep
  <1> QED
    BY <1>1, <1>2, <1>3, <1>4, <1>5 DEF SequencerInv, TypeOK, PinTypeOK,
       TimerInv, PlaceInTimer, CycleUnderWay, DelayOfStep

(* Only the writes to the pins move through the cycle: from step 1 to 4    *)
(* and back to 0, each step done with its last write.                      *)
LEMMA PinsMove ==
    ASSUME SequencerInv, StepPins
    PROVE  /\ pc = "pins" /\ is_locking = TRUE /\ tpc = "expired"
           /\ UNCHANGED <<tpc, millis, current_locc_step, is_locking, pc, cycle>>
           /\ current_locc_step = Reached
           /\ \/ Reached = 1 /\ Reached' = 2 /\ wakeup_locc
              \/ Reached = 2 /\ Reached' = 3 /\ open_locc
              \/ Reached = 3 /\ Reached' \in {3, 4} /\ powerdown_locc
              \/ Reached = 4 /\ Reached' \in {4, 0} /\ powerup_locc
           /\ Reached \in {1, 2} => vcc = TRUE
           /\ Reached' = 3 => vcc' = TRUE
           /\ Reached' = 4 => vcc' = FALSE
           /\ Reached = 3 /\ Reached' = 4 => io' = "LOW"
           /\ PinsOfStep'
  <1> DEFINE s == current_locc_step
  <1>1. /\ pc = "pins" /\ PinWrite
        /\ UNCHANGED <<tpc, millis, s, is_locking, pc, cycle>>
    BY DEF StepPins, timerVars, loopVars
  <1>2. is_locking = TRUE /\ tpc = "expired" /\ s \in 1 .. 4
    BY <1>1, InStep
  <1>3. pin \in WritesOf(s) /\ pin # "done" /\ Reached = s
    BY <1>1 DEF SequencerInv, PinsOfStep, Reached, PinWrite, wakeup_locc,
       open_locc, powerdown_locc, powerup_locc
  <1>4. Reached' = IF pin' = "done" THEN StepAfter(s) ELSE s
    BY <1>1 DEF Reached
  <1>5. /\ s # 4 => vcc = TRUE
        /\ s = 3 /\ pin = "off" => io = "LOW"
        /\ s = 4 => /\ vcc = FALSE
                    /\ io = CASE pin = "pull" -> "FLOAT" [] pin = "on" -> "HIGH"
                              [] OTHER -> "LOW"
    BY <1>1, <1>3 DEF SequencerInv, PinsOfStep
  <1>6. CASE s = 1
    <2>1. pin = "pulse" /\ pin' = "done" /\ wakeup_locc /\ vcc' = vcc
      BY <1>1, <1>3, <1>6 DEF WritesOf, PinWrite, wakeup_locc, open_locc,
         powerdown_locc, powerup_locc
    <2>2. Reached' = 2
      BY <2>1, <1>4, <1>6 DEF StepAfter
    <2> QED
      BY <2>1, <2>2, <1>1, <1>2, <1>3, <1>5, <1>6 DEF WritesOf, PinsOfStep
  <1>7. CASE s = 2
    <2>1. pin = "telegram" /\ pin' = "done" /\ open_locc /\ vcc' = vcc
      BY <1>1, <1>3, <1>7 DEF WritesOf, PinWrite, wakeup_locc, open_locc,
         powerdown_locc, powerup_locc
    <2>2. Reached' = 3
      BY <2>1, <1>4, <1>7 DEF StepAfter
    <2> QED
      BY <2>1, <2>2, <1>1, <1>2, <1>3, <1>5, <1>7 DEF WritesOf, PinsOfStep
  <1>8. CASE s = 3
    <2>1. /\ powerdown_locc
          /\ \/ pin = "drive" /\ pin' = "low" /\ vcc' = TRUE
             \/ pin = "low" /\ pin' = "off" /\ io' = "LOW" /\ vcc' = TRUE
             \/ pin = "off" /\ pin' = "done" /\ io' = "LOW" /\ vcc' = FALSE
      <3>1. pin \in {"drive", "low", "off"}
        BY <1>3, <1>8 DEF WritesOf
      <3>2. powerdown_locc
        BY <1>1, <3>1 DEF PinWrite, wakeup_locc, open_locc, powerup_locc
      <3>3. vcc = TRUE /\ (pin = "off" => io = "LOW")
        BY <1>5, <1>8
      <3>4. CASE pin = "off"
        BY <3>2, <3>3, <3>4 DEF powerdown_locc
      <3>5. CASE pin \in {"drive", "low"}
        BY <3>2, <3>3, <3>5, Zenon DEF powerdown_locc
      <3> QED BY <3>1, <3>4, <3>5, Zenon
    <2>2. Reached' = IF pin' = "done" THEN 4 ELSE 3
      BY <1>4, <1>8 DEF StepAfter
    <2> QED
      BY <2>1, <2>2, <1>1, <1>2, <1>3, <1>8 DEF WritesOf, PinsOfStep
  <1>9. CASE s = 4
    <2>1. /\ powerup_locc
          /\ \/ pin = "release" /\ pin' = "pull" /\ io' = "FLOAT" /\ vcc' = FALSE
             \/ pin = "pull" /\ pin' = "on" /\ io' = "HIGH" /\ vcc' = FALSE
             \/ pin = "on" /\ pin' = "done" /\ vcc' = TRUE
      <3>1. pin \in {"release", "pull", "on"}
        BY <1>3, <1>9 DEF WritesOf
      <3>2. powerup_locc
        BY <1>1, <3>1 DEF PinWrite, wakeup_locc, open_locc, powerdown_locc
      <3> QED BY <3>1, <3>2, <1>5, <1>9 DEF powerup_locc
    <2>2. Reached' = IF pin' = "done" THEN 0 ELSE 4
      BY <1>4, <1>9 DEF StepAfter
    <2> QED
      BY <2>1, <2>2, <1>1, <1>2, <1>3, <1>9 DEF WritesOf, PinsOfStep
  <1>10. s = 1 \/ s = 2 \/ s = 3 \/ s = 4
    BY <1>2
  <1> QED BY <1>6, <1>7, <1>8, <1>9, <1>10, Zenon

(* A write to the pins preserves the invariant of the sequencer.           *)
LEMMA PinsInv ==
    ASSUME SequencerInv, TimerInv', StepPins
    PROVE  SequencerInv'
  <1>1. /\ UNCHANGED <<tpc, millis, current_locc_step, is_locking, pc, cycle>>
        /\ PinsOfStep'
    BY PinsMove
  <1>2. PinTypeOK'
    BY PinsTyped DEF StepPins, SequencerInv, TypeOK
  <1> QED
    BY <1>1, <1>2 DEF SequencerInv, TypeOK, TimerInv, PlaceInTimer,
       CycleUnderWay, DelayOfStep

(* So does the end of do_locc_step, which goes on to the next step with    *)
(* that step's delay.                                                      *)
LEMMA WaitsInv ==
    ASSUME SequencerInv, TimerInv', StepWaits
    PROVE  /\ SequencerInv'
           /\ Reached' = Reached
           /\ is_locking = TRUE
           /\ cycle' = cycle \/ Reached \notin {0, 1}
           /\ \/ current_locc_step = 1 /\ current_locc_step' = 2
              \/ current_locc_step = 2 /\ current_locc_step' = 3
              \/ current_locc_step = 3 /\ current_locc_step' = 4
              \/ current_locc_step = 4 /\ current_locc_step' = 0
  <1> DEFINE s == current_locc_step
  <1>1. /\ pc = "pins" /\ pc' = "set" /\ tpc' = "writing" /\ pin = "done"
        /\ cycle' = "later" /\ UNCHANGED <<io, vcc, cylinder, pin, is_locking>>
    BY DEF StepWaits, StoreFirst, pinVars
  <1>2. is_locking = TRUE /\ s \in 1 .. 4
    BY <1>1, InStep
  <1>3. \/ s = 1 /\ s' = 2 /\ millis' = AWAKETIME
        \/ s = 2 /\ s' = 3 /\ millis' = OPEN_TIME
        \/ s = 3 /\ s' = 4 /\ millis' = OFF_TIME
        \/ s = 4 /\ s' = 0 /\ millis' = CHARGE_TIME
    BY <1>2 DEF StepWaits, DelayOf, StepAfter, StoreFirst
  <1>4. Reached = s' /\ Reached' = s'
    BY <1>1 DEF StepWaits, Reached
  <1>5. cycle' = cycle \/ Reached \notin {0, 1}
    BY <1>1, <1>3, <1>4 DEF SequencerInv, DelayOfStep
  <1>6. PlaceInTimer' /\ CycleUnderWay' /\ DelayOfStep'
    BY <1>1, <1>2, <1>3 DEF PlaceInTimer, CycleUnderWay, DelayOfStep
  <1>7. PinsOfStep'
    BY <1>1, <1>4 DEF SequencerInv, PinsOfStep
  <1>8. TypeOK'
    BY <1>1, <1>2, <1>3 DEF SequencerInv, TypeOK, PinTypeOK, TimerInv
  <1> QED
    BY <1>2, <1>3, <1>4, <1>5, <1>6, <1>7, <1>8 DEF SequencerInv

(* The invariant of the sequencer is inductive, whatever the cylinder does.*)
LEMMA SequencerNextInv == SequencerInv /\ [Next]_vars => SequencerInv'
  <1> SUFFICES ASSUME SequencerInv, [Next]_vars PROVE SequencerInv'
    OBVIOUS
  <1>1. TimerInv'
    BY TimerStep, TimerNextInv DEF SequencerInv
  <1>2. CASE UNCHANGED vars
    <2>1. UNCHANGED <<lo, hi, rd, tpc, millis, ticks, current_locc_step,
                      is_locking, pc, io, vcc, cylinder, pin, cycle>>
      BY <1>2 DEF vars, timerVars, loopVars, doorVars, pinVars
    <2>2. PinsOfStep'
      BY <2>1 DEF SequencerInv, PinsOfStep, Reached
    <2> QED
      BY <2>1, <2>2, <1>1 DEF SequencerInv, TypeOK, PinTypeOK, TimerInv,
         PlaceInTimer, CycleUnderWay, DelayOfStep
  <1>3. CASE LoopHead(0) \/ LoopHead(1)
    BY <1>1, <1>3, LoopHeadInv
  <1>4. CASE PollFirst \/ PollSecond \/ SetSecond \/ Return \/ Tick
    BY <1>1, <1>4, PollInv
  <1>5. CASE Setup \/ do_locc_step \/ StepPins \/ StepWaits
    BY <1>1, <1>5, SetupInv, EnterInv, PinsInv, WaitsInv, Zenon
  <1> QED
    BY <1>2, <1>3, <1>4, <1>5 DEF Next, LockingStep

(* Outside loccSetup and the pin functions the cylinder keeps its state,   *)
(* and the position in the cycle changes only from 0 to 1.                 *)
LEMMA SamePosition ==
    ASSUME SequencerInv, TimerInv', [Next]_vars, ~Setup, ~StepPins
    PROVE  /\ cylinder' = cylinder
           /\ \/ Reached' = Reached
              \/ Reached = 0 /\ Reached' = 1
           /\ cycle' = cycle \/ Reached \notin {0, 1}
  <1>1. CASE do_locc_step
    BY <1>1, EnterInv DEF do_locc_step
  <1>2. CASE StepWaits
    BY <1>2, WaitsInv DEF StepWaits, pinVars
  <1>3. CASE LoopHead(0) \/ LoopHead(1)
    <2>1. /\ UNCHANGED <<cylinder, cycle>> /\ pc = "loop" /\ pc' # "pins"
          /\ \/ current_locc_step' = current_locc_step
             \/ ~is_locking /\ current_locc_step' = 1
      BY <1>3 DEF LoopHead, start_locking, doorVars, pinVars
    <2> QED BY <2>1 DEF SequencerInv, CycleUnderWay, Reached
  <1>4. CASE PollFirst \/ PollSecond \/ SetSecond \/ Return
    BY <1>4, Zenon
    DEF PollFirst, PollSecond, SetSecond, Return, doorVars, pinVars,
       loopVars, Reached
  <1>5. CASE Tick \/ UNCHANGED vars
    BY <1>5 DEF Tick, doorVars, pinVars, loopVars, vars, Reached
  <1> QED BY <1>1, <1>2, <1>3, <1>4, <1>5 DEF Next, LockingStep

(* The telegram of step 2 finds the cylinder awake for long enough.        *)
LEMMA AwakeLongEnough ==
    ASSUME SequencerInv, tpc = "expired", current_locc_step = 2
    PROVE  ticks >= AWAKETIME
  <1>1. ticks = millis
    BY StepDelays, TimerInvImplies
    DEF ExpiryAlmostExact, SequencerInv, DelayOfStep
  <1> QED BY <1>1, StepDelays DEF SequencerInv, DelayOfStep

(* What the cylinder makes of a write to the pins.                         *)
LEMMA CylinderMove ==
    ASSUME SequencerInv, StepPins
    PROVE  /\ cycle' = cycle
           /\ \/ /\ Reached = 1 /\ Reached' = 2
                 /\ cylinder' = IF cylinder = "asleep" THEN "awake" ELSE cylinder
              \/ /\ Reached = 2 /\ Reached' = 3
                 /\ cylinder' = IF cylinder = "awake" THEN "open" ELSE cylinder
              \/ Reached = 3 /\ Reached' = 3 /\ cylinder' = cylinder
              \/ Reached = 3 /\ Reached' = 4 /\ cylinder' = "asleep"
              \/ /\ Reached = 4 /\ Reached' \in {4, 0}
                 /\ cylinder' \in {cylinder, "asleep"}
  <1>1. cycle' = cycle
    BY PinsMove
  <1>2. CASE Reached = 1 /\ Reached' = 2 /\ wakeup_locc /\ vcc = TRUE
    BY <1>1, <1>2 DEF wakeup_locc, CylinderHears
  <1>3. CASE Reached = 2 /\ Reached' = 3 /\ open_locc /\ vcc = TRUE
    <2>1. ticks >= AWAKETIME
      BY <1>3, PinsMove, AwakeLongEnough
    <2> QED BY <1>1, <1>3, <2>1 DEF open_locc, CylinderHears
  <1>4. CASE Reached = 3 /\ Reached' = 3 /\ CylinderFed /\ vcc' = TRUE
    BY <1>1, <1>4 DEF CylinderFed
  <1>5. CASE /\ Reached = 3 /\ Reached' = 4 /\ CylinderFed
             /\ vcc' = FALSE /\ io' = "LOW"
    BY <1>1, <1>5 DEF CylinderFed
  <1>6. CASE Reached = 4 /\ Reached' \in {4, 0} /\ CylinderFed
    BY <1>1, <1>6 DEF CylinderFed
  <1> QED
    BY <1>2, <1>3, <1>4, <1>5, <1>6, PinsMove, Zenon
    DEF powerdown_locc, powerup_locc

(* The cylinder follows the cycle.                                         *)
LEMMA LoccNextInv == LoccInv /\ [Next]_vars => LoccInv'
  <1> SUFFICES ASSUME LoccInv, [Next]_vars PROVE CylinderOfStep'
    BY SequencerNextInv DEF LoccInv
  <1>1. TimerInv'
    BY SequencerNextInv DEF LoccInv, SequencerInv
  <1>2. CASE StepPins
    BY <1>2, CylinderMove DEF LoccInv, CylinderOfStep
  <1>3. CASE Setup
    BY <1>1, <1>3, SetupInv DEF LoccInv, CylinderOfStep
  <1>4. CASE ~StepPins /\ ~Setup
    BY <1>1, <1>4, SamePosition DEF LoccInv, CylinderOfStep
  <1> QED BY <1>2, <1>3, <1>4

(* The invariant of the sequencer gives what the properties say of time.   *)
LEMMA SequencerImplies ==
    SequencerInv => MinimumDwell /\ ChargedBeforeWake /\ NoUnrequestedCycle
  <1> SUFFICES ASSUME SequencerInv
               PROVE  MinimumDwell /\ ChargedBeforeWake /\ NoUnrequestedCycle
    OBVIOUS
  <1>1. pc = "step" => /\ tpc = "expired"
                       /\ ticks + Radix > millis
                       /\ millis < Radix => ticks = millis
    BY TimerInvImplies DEF SequencerInv, PlaceInTimer, ExpiryAlmostExact
  <1>2. MinimumDwell
    BY <1>1, StepDelays DEF SequencerInv, DelayOfStep, MinimumDwell
  <1>3. ChargedBeforeWake
    BY <1>1 DEF SequencerInv, DelayOfStep, ChargedBeforeWake
  <1>4. NoUnrequestedCycle
    BY DEF SequencerInv, CycleUnderWay, NoUnrequestedCycle
  <1> QED BY <1>2, <1>3, <1>4

(* For all constants: the state of the opening cycle stays in its types    *)
(* and consistent; the pins, the cylinder and the delay that is running    *)
(* are those of the sequencer's step.                                      *)
THEOREM LoccInvariant == Safety => []LoccInv
  BY LoccInitInv, LoccNextInv, PTL DEF Safety

(* When the firmware is ready the door is closed, and the cylinder powered *)
(* once loccSetup is done.                                                 *)
THEOREM LoccClosedWhenReady == Safety => []ReadyMeansClosed
  <1>1. LoccInv => ReadyMeansClosed
    <2> SUFFICES ASSUME LoccInv, ~is_locking
                 PROVE  cylinder = "asleep" /\ (vcc \/ pc = "setup")
      BY DEF ReadyMeansClosed
    <2>1. pc # "pins" /\ Reached = 0
      BY DEF LoccInv, SequencerInv, CycleUnderWay, Reached
    <2> QED
      BY <2>1 DEF LoccInv, SequencerInv, PinsOfStep, CylinderOfStep
  <1> QED BY <1>1, LoccInvariant, PTL

(* Every step of the opening cycle is a step of the lock service or leaves *)
(* the service's phase alone.                                              *)
LEMMA LockStep ==
    ASSUME LoccInv, LoccInv', [Next]_vars
    PROVE  [Lock!LockNext]_phaseMap
  <1> USE DEF Lock!LockNext
  <1>1. CASE LoopHead(0) \/ LoopHead(1)
    <2>1. CASE UNCHANGED <<is_locking, current_locc_step>>
      BY <2>1, <1>1 DEF LoopHead, start_locking, doorVars, pinVars, phaseMap
    <2>2. CASE ~is_locking /\ is_locking' = TRUE /\ current_locc_step' = 1
      <3>1. Reached' = 1
        BY <2>2, <1>1, Zenon DEF LoopHead, Reached
      <3>2. phaseMap = "ready" /\ phaseMap' = "accepted"
        BY <2>2, <3>1 DEF LoccInv, CylinderOfStep, phaseMap
      <3> QED BY <3>2 DEF Lock!Accept
    <2> QED BY <2>1, <2>2, <1>1, Zenon DEF LoopHead, start_locking
  <1>2. CASE PollFirst \/ PollSecond \/ SetSecond \/ Tick \/ do_locc_step
    BY <1>2 DEF PollFirst, PollSecond, SetSecond, Tick, do_locc_step, loopVars,
                doorVars, pinVars, phaseMap
  <1>3. CASE Setup
    BY <1>3 DEF Setup, LoccInv, SequencerInv, CycleUnderWay, phaseMap
  <1>4. CASE StepPins
    <2>1. /\ is_locking = TRUE /\ is_locking' = TRUE
          /\ UNCHANGED current_locc_step
          /\ \/ Reached = 1 /\ Reached' = 2
             \/ Reached = 2 /\ Reached' = 3
             \/ Reached = 3 /\ Reached' \in {3, 4}
             \/ Reached = 4 /\ Reached' \in {4, 0}
          /\ current_locc_step = Reached
      BY <1>4, PinsMove DEF LoccInv
    <2> QED
      BY <2>1 DEF LoccInv, CylinderOfStep, phaseMap, Lock!Open, Lock!Close
  <1>5. CASE StepWaits
    <2>1. TimerInv'
      BY DEF LoccInv, SequencerInv
    <2>2. /\ UNCHANGED <<is_locking, cylinder>> /\ is_locking = TRUE
          /\ Reached' = Reached /\ Reached = current_locc_step'
          /\ \/ current_locc_step = 1 /\ current_locc_step' = 2
             \/ current_locc_step = 2 /\ current_locc_step' = 3
             \/ current_locc_step = 3 /\ current_locc_step' = 4
             \/ current_locc_step = 4 /\ current_locc_step' = 0
      BY <2>1, <1>5, WaitsInv DEF LoccInv, StepWaits, pinVars, Reached
    <2> QED
      BY <2>2 DEF LoccInv, CylinderOfStep, phaseMap
  <1>6. CASE Return
    <2>1. /\ is_locking /\ UNCHANGED <<current_locc_step, cylinder>>
          /\ Reached = current_locc_step
      BY <1>6 DEF Return, doorVars, pinVars, LoccInv, SequencerInv,
         CycleUnderWay, Reached
    <2>2. CASE current_locc_step = 0
      BY <2>1, <2>2, <1>6
      DEF Return, LoccInv, CylinderOfStep, phaseMap, Lock!Report
    <2>3. CASE current_locc_step \in 1 .. 4
      BY <2>1, <2>3, <1>6 DEF Return, phaseMap
    <2> QED BY <2>2, <2>3 DEF LoccInv, SequencerInv, TypeOK
  <1>7. CASE UNCHANGED vars
    BY <1>7 DEF vars, loopVars, doorVars, pinVars, phaseMap
  <1> QED
    BY <1>1, <1>2, <1>3, <1>4, <1>5, <1>6, <1>7 DEF Next, LockingStep

(* The opening cycle implements the safety part of the lock service: one   *)
(* opening per accepted command, closed again before the next.             *)
THEOREM LoccImplementsLock == Safety => Lock!LockSafety
  <1>1. Init => Lock!LockInit
    BY DEF Init, phaseMap, Lock!LockInit
  <1> QED
    BY <1>1, LoccInvariant, LockStep, PTL DEF Safety, Lock!LockSafety

-----------------------------------------------------------------------------
(* A reset at any point re-establishes the invariant of the sequencer.     *)
LEMMA ResetSequencer ==
    ASSUME SequencerInv, Reset
    PROVE  SequencerInv'
  <1>1. TimerInv'
    BY DelaysAssumption, RadixAssumption
    DEF Reset, TimerInv, TimerTypeOK, Balanced, HalfStored, LoadsAgree, wait_ticks
  <1>2. is_locking' \in BOOLEAN /\ vcc' \in BOOLEAN
    BY Zenon DEF Reset, ClearSequencer
  <1>3. TypeOK'
    BY <1>1, <1>2 DEF Reset, ClearSequencer, TypeOK, PinTypeOK, TimerInv, SequencerInv
  <1>4. PlaceInTimer' /\ CycleUnderWay' /\ DelayOfStep'
    BY DEF Reset, ClearSequencer, PlaceInTimer, CycleUnderWay, DelayOfStep
  <1>5. PinsOfStep'
    BY DEF Reset, ClearSequencer, PinsOfStep, Reached
  <1> QED BY <1>1, <1>3, <1>4, <1>5 DEF SequencerInv

(* Between resets the cylinder follows the cycle.                          *)
LEMMA CycleAfterReset ==
    ASSUME ResetInv, [Next]_vars
    PROVE  CylinderAfterReset'
  <1>1. TimerInv'
    BY SequencerNextInv DEF ResetInv, SequencerInv
  <1>2. CASE StepPins
    <2>1. cylinder \in {"asleep", "awake", "open"}
      BY DEF ResetInv, SequencerInv, TypeOK, PinTypeOK
    <2> QED BY <1>2, <2>1, CylinderMove DEF ResetInv, CylinderAfterReset
  <1>3. CASE Setup
    BY <1>1, <1>3, SetupInv DEF ResetInv, CylinderAfterReset, Setup
  <1>4. CASE ~StepPins /\ ~Setup
    <2>1. /\ cylinder' = cylinder
          /\ Reached' = Reached \/ (Reached = 0 /\ Reached' = 1)
          /\ cycle' = cycle \/ Reached \notin {0, 1}
      BY <1>1, <1>4, SamePosition DEF ResetInv
    <2> QED BY <2>1 DEF ResetInv, CylinderAfterReset
  <1> QED BY <1>2, <1>3, <1>4

(* The invariant with resets is inductive.                                 *)
LEMMA ResetNextInv == ResetInv /\ [ResetNext]_vars => ResetInv'
  <1> SUFFICES ASSUME ResetInv, [ResetNext]_vars PROVE ResetInv'
    OBVIOUS
  <1>1. CASE [Next]_vars
    BY <1>1, SequencerNextInv, CycleAfterReset DEF ResetInv
  <1>2. CASE Reset
    <2>1. CylinderAfterReset'
      BY <1>2 DEF Reset, ClearSequencer, CylinderAfterReset, Reached
    <2> QED BY <1>2, <2>1, ResetSequencer DEF ResetInv
  <1> QED BY <1>1, <1>2 DEF ResetNext

(* For all constants and however often the controller is reset, the        *)
(* sequencer, the timer and the pins stay consistent.                      *)
THEOREM ResetInvariant == ResetSafety => []ResetInv
  <1>1. Init => ResetInv
    BY LoccInitInv DEF LoccInv, ResetInv, CylinderOfStep, CylinderAfterReset
  <1> QED BY <1>1, ResetNextInv, PTL DEF ResetSafety

(* The times of the cycle are kept: do_locc_step never wakes, opens or     *)
(* switches too early, by more than the timer's error.                     *)
THEOREM ResetKeepsTimes ==
    ResetSafety => [](ExpiryAlmostExact /\ MinimumDwell)
  <1>1. ResetInv => ExpiryAlmostExact /\ MinimumDwell
    BY SequencerImplies, TimerInvImplies DEF ResetInv, SequencerInv
  <1> QED BY <1>1, ResetInvariant, PTL

(* After its first cycle the firmware wakes no cylinder whose capacitor    *)
(* has not been charging for CHARGE_TIME, less the timer's error.          *)
THEOREM ResetKeepsCharge == ResetSafety => []ChargedBeforeWake
  <1>1. ResetInv => ChargedBeforeWake
    BY SequencerImplies DEF ResetInv
  <1> QED BY <1>1, ResetInvariant, PTL

(* do_locc_step is never called in step 0.                                 *)
THEOREM ResetStartsNothing == ResetSafety => []NoUnrequestedCycle
  <1>1. ResetInv => NoUnrequestedCycle
    BY SequencerImplies DEF ResetInv
  <1> QED BY <1>1, ResetInvariant, PTL

(* A complete cycle leaves the cylinder closed, in whatever state a reset  *)
(* left it.                                                                *)
THEOREM ResetHealed == ResetSafety => []CycleHealsReset
  <1>1. ResetInv => CycleHealsReset
    <2> SUFFICES ASSUME ResetInv, ~is_locking, cycle = "later"
                 PROVE  cylinder = "asleep" /\ vcc
      BY DEF CycleHealsReset
    <2>1. pc # "pins" /\ Reached = 0
      BY DEF ResetInv, SequencerInv, CycleUnderWay, Reached
    <2>2. pc # "setup"
      BY DEF ResetInv, SequencerInv, CycleUnderWay
    <2> QED
      BY <2>1, <2>2 DEF ResetInv, SequencerInv, PinsOfStep, CylinderAfterReset
  <1> QED BY <1>1, ResetInvariant, PTL

(* Wake-up pulse and telegram open the cylinder in every cycle.            *)
THEOREM ResetOpensWhenDue == ResetSafety => []OpenWhenDue
  <1>1. ResetInv => OpenWhenDue
    BY DEF ResetInv, CylinderAfterReset, Reached, OpenWhenDue
  <1> QED BY <1>1, ResetInvariant, PTL

(* powerdown_locc lowers the data line before it takes the power away,     *)
(* wherever a reset or the timer interrupt strikes; outside loccSetup the  *)
(* line is high without power only for the last write of powerup_locc.     *)
THEOREM ResetNoLeak == ResetSafety => []LeakOnlyAtPowerUp
  <1>1. ResetInv => LeakOnlyAtPowerUp
    <2> SUFFICES ASSUME ResetInv, ~vcc, io = "HIGH", pc # "setup"
                 PROVE  pin = "on"
      BY DEF LeakOnlyAtPowerUp
    <2>1. Reached = 4
      BY DEF ResetInv, SequencerInv, PinsOfStep
    <2> QED BY <2>1 DEF ResetInv, SequencerInv, PinsOfStep
  <1> QED BY <1>1, ResetInvariant, PTL
=============================================================================
