-------------------------- MODULE LegacyLocc_proofs --------------------------
(***************************************************************************)
(* Proofs about the older interface of locc.c.                             *)
(***************************************************************************)
EXTENDS LegacyLocc, WaitTimer_proofs

(* The delays of state_machine are delays of the timer.                    *)
LEMMA LegacyDelays ==
    /\ \A s \in States : WaitIn(s) \in Delays
    /\ AWAKETIME \in Nat /\ AWAKETIME < Radix
  <1>1. \A s \in States : WaitIn(s) \in Delays
    BY DelaysAssumption, LegacyAssumption, AwakeAssumption DEF States, WaitIn
  <1> QED BY <1>1, AwakeAssumption, DelaysAreNat

(* state_machine is entered from the state before, with no write to the    *)
(* pins under way, and begins with the first write of the new state.       *)
LEMMA MachineStep ==
    ASSUME LegacyInv, loccStartOpening \/ PollMoves
    PROVE  /\ call = "none" /\ call' = "enter" /\ pin = "done"
           /\ UNCHANGED <<timerVars, io, vcc, cylinder>>
           /\ \/ /\ state = "SLEEP" /\ state' = "POWERUP" /\ pin' = "release"
                 /\ cut' = FALSE /\ tpc = "idle" /\ millis = 0
              \/ /\ state = "POWERUP" /\ state' = "AWAKEN" /\ pin' = "pulse"
                 /\ cut' = cut /\ tpc = "expired"
              \/ /\ state = "AWAKEN" /\ state' = "OPEN" /\ pin' = "telegram"
                 /\ cut' = cut /\ tpc = "expired" /\ millis = AWAKETIME
              \/ /\ state = "OPEN" /\ state' = "POWERDOWN" /\ pin' = "drive"
                 /\ cut' = cut /\ tpc = "expired"
              \/ /\ state = "POWERDOWN" /\ state' = "SLEEP" /\ pin' = "done"
                 /\ cut' = cut /\ tpc = "expired"
  <1>1. CASE loccStartOpening
    BY <1>1 DEF loccStartOpening, state_machine, PinsIn, LegacyInv, WritesOfCall,
       CountsForState, WaitIn
  <1>2. CASE PollMoves
    <2>1. /\ call = "none" /\ tpc = "expired" /\ pin = "done"
          /\ state \in States \ {"SLEEP"}
          /\ state = "AWAKEN" => millis = AWAKETIME
      BY <1>2 DEF PollMoves, LegacyInv, LegacyTypeOK, WritesOfCall,
         CountsForState, WaitIn
    <2> QED
      BY <1>2, <2>1 DEF PollMoves, state_machine, After, PinsIn, States
  <1> QED BY <1>1, <1>2, Zenon

(* The interface uses the timer as WaitTimer describes.  In particular the *)
(* delay of POWERUP, set without a look at the counter, finds it at zero.  *)
LEMMA LegacyTimerStep ==
    LegacyInv /\ [LegacyNext]_legacyVars => [TimerNext]_timerVars
  <1> SUFFICES ASSUME LegacyInv, [LegacyNext]_legacyVars
               PROVE  [TimerNext]_timerVars
    OBVIOUS
  <1>1. CASE EnterWaits
    <2>1. \E m \in Delays : StoreFirst(m)
      BY <1>1, LegacyDelays DEF EnterWaits, LegacyInv, LegacyTypeOK
    <2>2. CASE state = "POWERUP"
      <3>1. tpc = "idle" /\ millis = 0
        BY <1>1, <2>2 DEF EnterWaits, LegacyInv, CountsForState
      <3>2. ticks + wait_ticks <= 0 /\ ticks \in Nat /\ wait_ticks \in Nat
        BY <3>1, RadixAssumption
        DEF LegacyInv, TimerInv, TimerTypeOK, Balanced, wait_ticks
      <3>3. wait_ticks = 0
        <4> HIDE DEF wait_ticks
        <4> QED BY <3>2
      <3> QED BY <3>3, <2>1 DEF TimerNext, MayStore
    <2>3. CASE state # "POWERUP"
      BY <1>1, <2>1, <2>3
      DEF EnterWaits, LegacyInv, CountsForState, TimerNext, MayStore
    <2> QED BY <2>2, <2>3
  <1>2. CASE loccStartOpening \/ PollMoves
    BY <1>2, MachineStep, Zenon
  <1>3. CASE PollLoads \/ StoreEnds \/ LegacyTick
    BY <1>3 DEF PollLoads, StoreEnds, LegacyTick, TimerNext
  <1>4. CASE \/ LegacySetup \/ EnterPins \/ SwitchPower \/ PowerPins
             \/ ClosesItself
    BY <1>4 DEF LegacySetup, EnterPins, SwitchPower, PowerPins, ClosesItself
  <1>5. CASE UNCHANGED legacyVars
    BY <1>5 DEF legacyVars
  <1> QED BY <1>1, <1>2, <1>3, <1>4, <1>5 DEF LegacyNext, loccPoll

(* Entering a state preserves the invariant.                               *)
LEMMA MoveInv ==
    ASSUME LegacyInv, TimerInv', loccStartOpening \/ PollMoves
    PROVE  LegacyInv'
  <1>1. /\ call = "none" /\ call' = "enter" /\ pin = "done"
        /\ UNCHANGED <<tpc, millis, io, vcc, cylinder>>
    BY MachineStep, Zenon DEF timerVars
  <1>2. LegacyTypeOK'
    <2>1. cut' \in BOOLEAN
      <3>1. cut' = FALSE \/ cut' = cut
        BY MachineStep, Zenon
      <3> QED BY <3>1, Zenon DEF LegacyInv, LegacyTypeOK
    <2> QED
      BY <1>1, <2>1, MachineStep, Zenon DEF LegacyInv, LegacyTypeOK, PinTypeOK,
         TimerInv, States
  <1>3. CountsForState'
    BY <1>1, MachineStep, Zenon DEF CountsForState
  <1>4. WritesOfCall'
    BY <1>1, MachineStep, Zenon DEF WritesOfCall
  <1>5. OpenInOpenOnly'
    BY <1>1, MachineStep, Zenon DEF LegacyInv, OpenInOpenOnly
  <1>6. HearsSignals'
    BY <1>1, MachineStep, Zenon DEF LegacyInv, HearsSignals
  <1> QED BY <1>2, <1>3, <1>4, <1>5, <1>6 DEF LegacyInv

(* The writes state_machine makes, by state.                               *)
LEMMA EnterStep ==
    ASSUME LegacyInv, EnterPins
    PROVE  /\ call = "enter" /\ UNCHANGED <<timerVars, state, call, cut>>
           /\ pin # "done"
           /\ \/ state = "POWERUP" /\ powerup_locc
              \/ state = "AWAKEN" /\ pin = "pulse" /\ wakeup_locc
              \/ state = "OPEN" /\ pin = "telegram" /\ open_locc
              \/ state = "POWERDOWN" /\ powerdown_locc
  <1>1. call = "enter" /\ PinWrite /\ UNCHANGED <<timerVars, state, call, cut>>
    BY DEF EnterPins
  <1>2. pin # "done"
    BY <1>1 DEF PinWrite, wakeup_locc, open_locc, powerdown_locc, powerup_locc
  <1>3. \/ state = "POWERUP" /\ pin \in {"release", "pull", "on"}
        \/ state = "AWAKEN" /\ pin = "pulse"
        \/ state = "OPEN" /\ pin = "telegram"
        \/ state = "POWERDOWN" /\ pin \in {"drive", "low", "off"}
    BY <1>1, <1>2 DEF LegacyInv, LegacyTypeOK, States, WritesOfCall
  <1> QED BY <1>1, <1>2, <1>3 DEF PinWrite, wakeup_locc, open_locc,
             powerdown_locc, powerup_locc

(* They preserve the invariant: only the telegram opens the cylinder, and  *)
(* POWERDOWN takes the power, with the line low, from an open one.         *)
LEMMA EnterInv ==
    ASSUME LegacyInv, TimerInv', EnterPins
    PROVE  LegacyInv'
  <1>1. call = "enter" /\ UNCHANGED <<tpc, millis, state, call, cut>>
    BY EnterStep DEF timerVars
  <1>2. LegacyTypeOK'
    <2>1. PinTypeOK'
      BY PinsTyped DEF EnterPins, LegacyInv, LegacyTypeOK
    <2> QED BY <1>1, <2>1 DEF LegacyInv, LegacyTypeOK, TimerInv
  <1>3. CountsForState'
    BY <1>1 DEF LegacyInv, CountsForState
  <1>4. pin = "off" => io = "LOW"
    BY DEF LegacyInv, WritesOfCall
  <1>5. CASE state = "POWERUP" /\ powerup_locc
    <2>1. cylinder = "asleep" /\ cylinder' = "asleep"
      BY <1>5 DEF LegacyInv, OpenInOpenOnly, powerup_locc, CylinderFed
    <2>2. WritesOfCall'
      BY <1>1, <1>5 DEF WritesOfCall, powerup_locc
    <2>3. HearsSignals'
      BY <1>1, <1>5 DEF HearsSignals, powerup_locc
    <2> QED BY <1>2, <1>3, <2>1, <2>2, <2>3 DEF LegacyInv, OpenInOpenOnly
  <1>6. CASE state = "AWAKEN" /\ wakeup_locc
    <2>1. cylinder \in {"asleep", "awake"} /\ (~cut => vcc = TRUE)
      BY <1>6 DEF LegacyInv, OpenInOpenOnly, HearsSignals
    <2>2. /\ cylinder' \in {"asleep", "awake"} /\ (~cut => cylinder' = "awake")
          /\ vcc' = vcc /\ pin' = "done"
      BY <1>6, <2>1 DEF wakeup_locc, CylinderHears
    <2>3. WritesOfCall' /\ HearsSignals' /\ OpenInOpenOnly'
      BY <1>1, <1>6, <2>1, <2>2 DEF WritesOfCall, HearsSignals, OpenInOpenOnly
    <2> QED BY <1>2, <1>3, <2>3 DEF LegacyInv
  <1>7. CASE state = "OPEN" /\ open_locc
    <2>1. ~cut => vcc = TRUE
      BY <1>7 DEF LegacyInv, HearsSignals
    <2>2. vcc' = vcc /\ pin' = "done"
      BY <1>7 DEF open_locc
    <2>3. WritesOfCall' /\ HearsSignals' /\ OpenInOpenOnly'
      BY <1>1, <1>7, <2>1, <2>2 DEF WritesOfCall, HearsSignals, OpenInOpenOnly
    <2> QED BY <1>2, <1>3, <2>3 DEF LegacyInv
  <1>8. CASE state = "POWERDOWN" /\ powerdown_locc
    <2>1. \/ pin' \in {"low", "off"} /\ (pin' = "off" => io' = "LOW")
          \/ pin' = "done" /\ cylinder' = "asleep"
      BY <1>4, <1>8 DEF powerdown_locc, CylinderFed
    <2>2. WritesOfCall' /\ HearsSignals' /\ OpenInOpenOnly'
      BY <1>1, <1>8, <2>1 DEF WritesOfCall, HearsSignals, OpenInOpenOnly
    <2> QED BY <1>2, <1>3, <2>2 DEF LegacyInv
  <1> QED BY <1>5, <1>6, <1>7, <1>8, EnterStep

(* state_machine goes on to the delay of the new state.                    *)
LEMMA WaitsInv ==
    ASSUME LegacyInv, TimerInv', EnterWaits
    PROVE  LegacyInv'
  <1>1. /\ call = "enter" /\ call' = "none" /\ pin = "done"
        /\ UNCHANGED <<io, vcc, cylinder, pin, state, cut>>
        /\ tpc' = "writing" /\ millis' = WaitIn(state)
    BY DEF EnterWaits, StoreFirst, pinVars
  <1>2. LegacyTypeOK' /\ CountsForState'
    BY <1>1 DEF LegacyInv, LegacyTypeOK, PinTypeOK, TimerInv, CountsForState
  <1>3. WritesOfCall' /\ OpenInOpenOnly' /\ HearsSignals'
    BY <1>1 DEF LegacyInv, WritesOfCall, OpenInOpenOnly, HearsSignals
  <1> QED BY <1>2, <1>3 DEF LegacyInv

(* A caller that switches the power, in whatever state: without a cut the  *)
(* power only ever goes on.                                                *)
LEMMA SwitchInv ==
    ASSUME LegacyInv, TimerInv', SwitchPower
    PROVE  LegacyInv'
  <1>1. /\ call = "none" /\ call' = "power" /\ tpc = "idle" /\ pin = "done"
        /\ UNCHANGED <<tpc, millis, io, vcc, cylinder, state>>
        /\ \/ pin' = "drive" /\ (~cut' => ~cut /\ state = "SLEEP")
           \/ pin' = "release" /\ cut' = cut
    BY Zenon DEF SwitchPower, timerVars, LegacyInv, WritesOfCall
  <1>2. LegacyTypeOK'
    <2>1. cut' \in BOOLEAN
      BY Zenon DEF SwitchPower, LegacyInv, LegacyTypeOK
    <2> QED BY <1>1, <2>1 DEF LegacyInv, LegacyTypeOK, PinTypeOK, TimerInv
  <1>3. CountsForState' /\ WritesOfCall' /\ OpenInOpenOnly'
    BY <1>1 DEF LegacyInv, CountsForState, WritesOfCall, OpenInOpenOnly
  <1>4. HearsSignals'
    BY <1>1 DEF LegacyInv, HearsSignals
  <1> QED BY <1>2, <1>3, <1>4 DEF LegacyInv

(* The writes of that call preserve the invariant.                         *)
LEMMA PowerInv ==
    ASSUME LegacyInv, TimerInv', PowerPins
    PROVE  LegacyInv' /\ cylinder' \in {cylinder, "asleep"}
  <1>1. /\ call = "power" /\ call' = IF pin' = "done" THEN "none" ELSE "power"
        /\ UNCHANGED <<tpc, millis, state, cut>>
        /\ pin \in {"drive", "low", "off", "release", "pull", "on"}
        /\ tpc = "idle" /\ millis = WaitIn(state)
        /\ pin = "off" => io = "LOW"
    BY DEF PowerPins, timerVars, LegacyInv, WritesOfCall, CountsForState
  <1>2. /\ powerdown_locc \/ powerup_locc
        /\ powerdown_locc => pin \in {"drive", "low", "off"}
    BY <1>1 DEF PowerPins, PinWrite, wakeup_locc, open_locc, powerdown_locc
  <1>3. /\ pin' \in {"low", "off", "pull", "on", "done"}
        /\ pin' = "off" => io' = "LOW"
        /\ cylinder' \in {cylinder, "asleep"}
    BY <1>1, <1>2 DEF powerdown_locc, powerup_locc, CylinderFed
  <1>4. PinTypeOK'
    BY PinsTyped DEF PowerPins, LegacyInv, LegacyTypeOK
  <1>5. LegacyTypeOK' /\ CountsForState'
    BY <1>1, <1>4 DEF LegacyInv, LegacyTypeOK, TimerInv, CountsForState
  <1>6. WritesOfCall' /\ OpenInOpenOnly'
    BY <1>1, <1>3 DEF LegacyInv, WritesOfCall, OpenInOpenOnly
  <1>7. HearsSignals'
    <2>1. CASE cut \/ state = "SLEEP"
      BY <1>1, <2>1 DEF HearsSignals
    <2>2. CASE ~cut /\ state # "SLEEP"
      <3>1. powerup_locc
        BY <1>1, <1>2, <2>2 DEF LegacyInv, HearsSignals
      <3>2. /\ vcc = TRUE => vcc' = TRUE /\ cylinder' = cylinder
            /\ pin' \in {"pull", "on", "done"}
        BY <3>1 DEF powerup_locc, CylinderFed
      <3>3. state \in {"POWERUP", "AWAKEN", "OPEN"} => vcc = TRUE
        BY <1>1, <2>2 DEF LegacyInv, HearsSignals
      <3>4. state = "AWAKEN" => cylinder = "awake"
        BY <1>1, <2>2 DEF LegacyInv, HearsSignals
      <3> QED BY <1>1, <2>2, <3>2, <3>3, <3>4 DEF HearsSignals
    <2> QED BY <2>1, <2>2
  <1> QED BY <1>3, <1>5, <1>6, <1>7 DEF LegacyInv

(* loccSetup preserves the invariant.                                      *)
LEMMA SetupInv ==
    ASSUME LegacyInv, TimerInv', LegacySetup
    PROVE  LegacyInv'
  <1>1. /\ call = "setup" /\ call' = IF pin' = "done" THEN "none" ELSE "setup"
        /\ UNCHANGED <<tpc, millis, state, cut>> /\ state = "SLEEP"
        /\ tpc = "idle" /\ millis = WaitIn(state)
    BY DEF LegacySetup, timerVars, LegacyInv, WritesOfCall, CountsForState
  <1>2. /\ pin' \in {"release", "pull", "on", "done"}
        /\ cylinder' \in {cylinder, "asleep"}
    BY DEF LegacySetup, loccSetup, powerup_locc, CylinderFed
  <1>3. PinTypeOK'
    BY PinsTyped DEF LegacySetup, LegacyInv, LegacyTypeOK
  <1>4. LegacyTypeOK' /\ CountsForState'
    BY <1>1, <1>3 DEF LegacyInv, LegacyTypeOK, TimerInv, CountsForState
  <1>5. WritesOfCall' /\ OpenInOpenOnly' /\ HearsSignals'
    BY <1>1, <1>2 DEF LegacyInv, WritesOfCall, OpenInOpenOnly, HearsSignals
  <1> QED BY <1>4, <1>5 DEF LegacyInv

(* The loads and stores of the counter, the interrupt and a cylinder that  *)
(* closes by itself leave the state and the pins alone.                    *)
LEMMA StayInv ==
    ASSUME LegacyInv, TimerInv',
           \/ PollLoads \/ StoreEnds \/ LegacyTick \/ ClosesItself
           \/ UNCHANGED legacyVars
    PROVE  /\ LegacyInv'
           /\ UNCHANGED <<state, pin, cut>>
           /\ \/ cylinder' = cylinder
              \/ cylinder = "open" /\ cylinder' = "awake"
  <1>1. /\ UNCHANGED <<io, vcc, pin, state, call, cut>>
        /\ \/ cylinder' = cylinder
           \/ cylinder = "open" /\ cylinder' = "awake"
    BY DEF PollLoads, StoreEnds, LegacyTick, ClosesItself, legacyVars, pinVars
  <1>2. CountsForState'
    <2>1. CASE PollLoads
      BY <1>1, <2>1 DEF PollLoads, LoadFirst, LoadSecond, LegacyInv,
         CountsForState
    <2>2. CASE StoreEnds
      <3>1. tpc = "writing" /\ tpc' = "idle" /\ millis' = millis
        BY <2>2 DEF StoreEnds, StoreSecond
      <3> QED BY <1>1, <3>1 DEF LegacyInv, CountsForState
    <2>3. CASE LegacyTick \/ ClosesItself \/ UNCHANGED legacyVars
      <3>1. UNCHANGED <<tpc, millis>>
        BY <2>3 DEF LegacyTick, TIMER0_OVF, ClosesItself, legacyVars, timerVars
      <3> QED BY <1>1, <3>1 DEF LegacyInv, CountsForState
    <2> QED BY <2>1, <2>2, <2>3
  <1>3. LegacyTypeOK'
    BY <1>1 DEF LegacyInv, LegacyTypeOK, PinTypeOK, TimerInv
  <1>4. WritesOfCall' /\ OpenInOpenOnly'
    BY <1>1, Zenon DEF LegacyInv, WritesOfCall, OpenInOpenOnly
  <1>5. HearsSignals'
    BY <1>1 DEF LegacyInv, HearsSignals
  <1> QED BY <1>1, <1>2, <1>3, <1>4, <1>5 DEF LegacyInv

(* The invariant is inductive.                                             *)
LEMMA LegacyNextInv == LegacyInv /\ [LegacyNext]_legacyVars => LegacyInv'
  <1> SUFFICES ASSUME LegacyInv, [LegacyNext]_legacyVars PROVE LegacyInv'
    OBVIOUS
  <1>1. TimerInv'
    BY LegacyTimerStep, TimerNextInv DEF LegacyInv
  <1>2. CASE LegacySetup
    BY <1>1, <1>2, SetupInv
  <1>3. CASE loccStartOpening \/ PollMoves
    BY <1>1, <1>3, MoveInv
  <1>4. CASE EnterPins
    BY <1>1, <1>4, EnterInv
  <1>5. CASE EnterWaits
    BY <1>1, <1>5, WaitsInv
  <1>6. CASE SwitchPower
    BY <1>1, <1>6, SwitchInv
  <1>7. CASE PowerPins
    BY <1>1, <1>7, PowerInv
  <1>8. CASE \/ PollLoads \/ StoreEnds \/ LegacyTick \/ ClosesItself
             \/ UNCHANGED legacyVars
    BY <1>1, <1>8, StayInv
  <1> QED BY <1>2, <1>3, <1>4, <1>5, <1>6, <1>7, <1>8 DEF LegacyNext, loccPoll

(* The invariant holds initially.                                          *)
LEMMA LegacyInitInv == LegacyInit => LegacyInv
  <1> SUFFICES ASSUME LegacyInit PROVE LegacyInv
    OBVIOUS
  <1>1. TimerInv
    BY TimerInitInv DEF LegacyInit
  <1>2. vcc \in BOOLEAN /\ cut \in BOOLEAN
    BY Zenon DEF LegacyInit, PinInit
  <1>3. WritesOfCall /\ OpenInOpenOnly /\ HearsSignals
    BY DEF LegacyInit, PinInit, WritesOfCall, OpenInOpenOnly, HearsSignals
  <1> QED
    BY <1>1, <1>2, <1>3 DEF LegacyInit, PinInit, TimerInit, LegacyInv,
       LegacyTypeOK, PinTypeOK, TimerInv, CountsForState, WaitIn, States

(* For all constants, and whenever the caller switches the power itself:   *)
(* the timer runs the delay of the state and the cylinder is open in the   *)
(* state OPEN, and until POWERDOWN has switched the power off, only.       *)
THEOREM LegacyInvariant == LegacySafety => []LegacyInv
  BY LegacyInitInv, LegacyNextInv, PTL DEF LegacySafety

(* The wake-up delay passes in full before the telegram; every other state *)
(* is left after its delay less at most Radix - 1 ticks.                   *)
THEOREM LegacyKeepsTimes == LegacySafety => []LegacyDwell
  <1>1. LegacyInv => ExpiryAlmostExact
    BY TimerInvImplies DEF LegacyInv
  <1>2. LegacyInv => LegacyDwell
    <2> SUFFICES ASSUME LegacyInv, tpc = "expired", call = "none"
                 PROVE  /\ ticks + Radix > WaitIn(state)
                        /\ state = "AWAKEN" => ticks = AWAKETIME
      BY DEF LegacyDwell
    <2>1. state = "AWAKEN" => WaitIn(state) = AWAKETIME
      BY DEF WaitIn
    <2> QED
      BY <1>1, <2>1, LegacyDelays DEF ExpiryAlmostExact, LegacyInv, CountsForState
  <1> QED BY <1>2, LegacyInvariant, PTL

(* The telegram opens the cylinder, unless the power was cut.              *)
LEMMA TelegramOpens ==
    ASSUME LegacyInv, call = "enter", state = "OPEN", pin = "telegram",
           open_locc, ~cut
    PROVE  cylinder' = "open"
  <1>1. vcc = TRUE /\ cylinder = "awake"
    BY DEF LegacyInv, HearsSignals
  <1>2. tpc = "expired" /\ millis = AWAKETIME
    BY DEF LegacyInv, CountsForState
  <1>3. ticks >= AWAKETIME
    BY <1>2, TimerInvImplies, LegacyDelays DEF LegacyInv, ExpiryAlmostExact
  <1> QED BY <1>1, <1>3 DEF open_locc, CylinderHears

(* Every step is a step of the lock service, or none.                      *)
LEMMA LegacyLockStep ==
    ASSUME LegacyInv, LegacyInv', [LegacyNext]_legacyVars
    PROVE  [Lock!LockNext]_legacyPhase
  <1> USE DEF Lock!LockNext, Lock!Accept, Lock!Open, Lock!Fail, Lock!Close,
              Lock!Report
  <1>1. TimerInv'
    BY DEF LegacyInv
  <1>2. CASE LegacySetup
    BY <1>2 DEF LegacySetup, LegacyInv, WritesOfCall, legacyPhase
  <1>3. CASE loccStartOpening \/ PollMoves
    BY <1>3, MachineStep, Zenon DEF LegacyInv, OpenInOpenOnly, legacyPhase
  <1>4. CASE EnterPins
    <2>1. CASE state \in {"POWERUP", "AWAKEN"}
      BY <1>4, <2>1, EnterStep DEF LegacyInv, OpenInOpenOnly, legacyPhase
    <2>2. CASE state = "OPEN"
      <3>1. /\ call = "enter" /\ pin = "telegram" /\ pin' = "done"
            /\ open_locc /\ state' = "OPEN"
        BY <1>4, <2>2, EnterStep DEF open_locc
      <3>2. legacyPhase = "accepted"
        BY <2>2, <3>1 DEF LegacyInv, OpenInOpenOnly, legacyPhase
      <3>3. legacyPhase' = IF cylinder' = "open" THEN "open" ELSE "closed"
        BY <3>1 DEF legacyPhase
      <3>4. cylinder' = "open" \/ cut
        BY <2>2, <3>1, TelegramOpens
      <3> QED BY <3>2, <3>3, <3>4
    <2>3. CASE state = "POWERDOWN"
      <3>1. state' = state /\ cylinder' \in {cylinder, "asleep"}
        BY <1>4, <2>3, EnterStep DEF powerdown_locc, CylinderFed
      <3> QED BY <2>3, <3>1 DEF legacyPhase
    <2> QED BY <1>4, <2>1, <2>2, <2>3, EnterStep
  <1>5. CASE EnterWaits
    BY <1>5 DEF EnterWaits, pinVars, legacyPhase
  <1>6. CASE SwitchPower
    <2>1. pin # "telegram" /\ pin' # "telegram" /\ UNCHANGED <<state, cylinder>>
      BY <1>6 DEF SwitchPower, LegacyInv, WritesOfCall
    <2> QED BY <2>1 DEF legacyPhase
  <1>7. CASE PowerPins
    <2>1. /\ pin # "telegram" /\ pin' # "telegram" /\ state' = state
          /\ call = "power"
      BY <1>7 DEF PowerPins, LegacyInv, WritesOfCall, PinWrite, wakeup_locc,
         open_locc, powerdown_locc, powerup_locc
    <2>2. cylinder' \in {cylinder, "asleep"}
      BY <1>1, <1>7, PowerInv
    <2>3. cylinder = "open" => state = "OPEN"
      BY <2>1 DEF LegacyInv, OpenInOpenOnly
    <2> QED BY <2>1, <2>2, <2>3 DEF legacyPhase
  <1>8. CASE \/ PollLoads \/ StoreEnds \/ LegacyTick \/ ClosesItself
             \/ UNCHANGED legacyVars
    <2>1. /\ UNCHANGED <<state, pin>>
          /\ \/ cylinder' = cylinder
             \/ cylinder = "open" /\ cylinder' = "awake"
      BY <1>1, <1>8, StayInv
    <2>2. cylinder = "open" => \/ state = "OPEN" /\ pin # "telegram"
                               \/ state = "POWERDOWN"
      BY DEF LegacyInv, OpenInOpenOnly
    <2> QED BY <2>1, <2>2 DEF legacyPhase
  <1> QED BY <1>2, <1>3, <1>4, <1>5, <1>6, <1>7, <1>8 DEF LegacyNext, loccPoll

(* Whenever the caller switches the power, the older interface implements  *)
(* the safety part of the lock service: an opening fails only if the power *)
(* was cut during it, and never happens twice or outside a cycle.          *)
THEOREM LegacyIsLock == LegacySafety => Lock!LockSafety
  <1>1. LegacyInit => Lock!LockInit
    BY DEF LegacyInit, legacyPhase, Lock!LockInit
  <1> QED
    BY <1>1, LegacyLockStep, LegacyInvariant, PTL DEF LegacySafety,
       Lock!LockSafety
=============================================================================
