-------------------------- MODULE WaitTimer_proofs --------------------------
(***************************************************************************)
(* Proofs about WaitTimer, for every Radix, both byte orders and every set *)
(* of delays.                                                              *)
(***************************************************************************)
EXTENDS Cylinder, TLAPS

(* set_wait_time stores a delay as two limbs: they are the delay's digits. *)
LEMMA LimbsOfDelay ==
    ASSUME NEW m \in Nat
    PROVE  /\ Low(m) \in 0 .. Radix - 1
           /\ High(m) \in Nat
           /\ High(m) * Radix + Low(m) = m
  BY RadixAssumption DEF Low, High

(* Every argument of set_wait_time is a natural number.                    *)
LEMMA DelaysAreNat == Delays \subseteq Nat
  BY DelaysAssumption, RadixAssumption

(* The weight of the upper limb before and after the interrupt's borrow.   *)
LEMMA Borrow ==
    ASSUME NEW h \in Nat
    PROVE  /\ h * Radix \in Nat
           /\ h = 0 => h * Radix = 0
           /\ h > 0 => /\ h - 1 \in Nat
                       /\ (h - 1) * Radix + Radix = h * Radix
                       /\ h * Radix >= Radix
  BY RadixAssumption

(* A delay that fits the low limb has an empty upper limb.                 *)
LEMMA SmallDelay ==
    ASSUME NEW m \in Nat, m < Radix
    PROVE  High(m) = 0 /\ Low(m) = m
  <1>1. High(m) \in Nat /\ Low(m) \in Nat /\ High(m) * Radix + Low(m) = m
    BY LimbsOfDelay, RadixAssumption
  <1>2. High(m) > 0 => High(m) * Radix >= Radix
    BY <1>1, Borrow
  <1>3. High(m) = 0
    BY <1>1, <1>2, RadixAssumption
  <1> QED
    BY <1>1, <1>3, Borrow

(* One interrupt takes exactly one tick off the counter.                   *)
LEMMA TickCounts ==
    ASSUME TimerTypeOK, TIMER0_OVF
    PROVE  /\ lo' \in 0 .. Radix - 1
           /\ hi' \in Nat
           /\ wait_ticks \in Nat
           /\ wait_ticks' = wait_ticks - 1
           /\ hi = 0 => hi' = 0 /\ lo > 0 /\ lo' = lo - 1
  <1>1. CASE lo > 0
    BY <1>1, Borrow, RadixAssumption DEF TimerTypeOK, TIMER0_OVF, Decrement, wait_ticks
  <1>2. CASE lo = 0
    BY <1>2, Borrow, RadixAssumption DEF TimerTypeOK, TIMER0_OVF, Decrement, wait_ticks
  <1> QED
    BY <1>1, <1>2, RadixAssumption DEF TimerTypeOK

(* The counter is clear when loccSetup has run.                            *)
LEMMA TimerInitInv == TimerInit => TimerInv
  BY RadixAssumption, OrderAssumption, DelaysAssumption, Borrow
  DEF TimerInit, TimerInv, TimerTypeOK, Balanced, HalfStored, LoadsAgree,
      wait_ticks

(* The interrupt preserves the invariant wherever it strikes.              *)
LEMMA TickInv ==
    ASSUME TimerInv, TIMER0_OVF
    PROVE  TimerInv'
  <1> USE RadixAssumption, OrderAssumption
  <1> DEFINE w == wait_ticks
  <1>1. /\ lo' \in 0 .. Radix - 1 /\ hi' \in Nat
        /\ w \in Nat /\ wait_ticks' = w - 1
        /\ hi = 0 => hi' = 0 /\ lo > 0 /\ lo' = lo - 1
    BY TickCounts DEF TimerInv
  <1>2. ticks \in Nat /\ ticks' = ticks + 1 /\ millis \in Nat
    BY DelaysAreNat DEF TimerInv, TimerTypeOK, TIMER0_OVF
  <1>3. UNCHANGED <<rd, tpc, millis>>
    BY DEF TIMER0_OVF
  <1>4. TimerTypeOK'
    BY <1>1, <1>2, <1>3 DEF TimerInv, TimerTypeOK
  <1>5. Balanced'
    <2> HIDE DEF w
    <2> QED BY <1>1, <1>2, <1>3 DEF TimerInv, Balanced, w
  <1>6. HalfStored'
    <2>1. High(millis) * Radix \in Nat /\ Low(millis) \in Nat
      BY <1>2, LimbsOfDelay, Borrow
    <2> QED
      BY <2>1, <1>1, <1>2, <1>3 DEF TimerInv, TimerTypeOK, HalfStored
  <1>7. LoadsAgree'
    <2>1. ASSUME hi' = 0, hi # 0, millis < Radix, tpc # "writing"
          PROVE  FALSE
      <3>1. wait_ticks >= Radix
        BY <2>1, Borrow DEF TimerInv, TimerTypeOK, wait_ticks
      <3> QED BY <3>1, <2>1, <1>1, <1>2 DEF TimerInv, Balanced
    <2> QED BY <2>1, <1>1, <1>3 DEF TimerInv, TimerTypeOK, LoadsAgree
  <1> QED
    BY <1>4, <1>5, <1>6, <1>7 DEF TimerInv

(* The loads of timer_is_expired preserve the invariant.                   *)
LEMMA LoadInv ==
    ASSUME TimerInv, LoadFirst \/ LoadSecond
    PROVE  TimerInv'
  <1> USE RadixAssumption, OrderAssumption
  <1>1. UNCHANGED <<lo, hi, millis, ticks>> /\ wait_ticks' = wait_ticks
    BY DEF LoadFirst, LoadSecond, wait_ticks
  <1>2. tpc # "writing" /\ tpc' \in {"idle", "reading", "expired"}
    BY DEF LoadFirst, LoadSecond
  <1>3. TimerTypeOK'
    BY <1>1, <1>2 DEF TimerInv, TimerTypeOK, LoadFirst, LoadSecond
  <1>4. Balanced' /\ HalfStored'
    BY <1>1, <1>2 DEF TimerInv, Balanced, HalfStored
  <1>5. LoadsAgree'
    <2>1. CASE LoadFirst
      BY <2>1, <1>1 DEF LoadFirst, LoadsAgree
    <2>2. CASE LoadSecond
      BY <2>2, <1>1 DEF LoadSecond, TimerInv, LoadsAgree
    <2> QED BY <2>1, <2>2
  <1> QED
    BY <1>3, <1>4, <1>5 DEF TimerInv

(* The first store of set_wait_time preserves the invariant: it finds the  *)
(* upper limb clear.                                                       *)
LEMMA StoreFirstInv ==
    ASSUME TimerInv, MayStore, NEW m \in Delays, StoreFirst(m)
    PROVE  TimerInv'
  <1> USE RadixAssumption, OrderAssumption
  <1>1. /\ Low(m) \in 0 .. Radix - 1
        /\ High(m) \in Nat
    BY LimbsOfDelay, DelaysAreNat
  <1>2. hi = 0 /\ (~LowFirst => lo = 0)
    <2>1. CASE tpc = "expired"
      BY <2>1 DEF TimerInv, LoadsAgree
    <2>2. CASE wait_ticks = 0
      BY <2>2, Borrow DEF TimerInv, TimerTypeOK, wait_ticks
    <2> QED BY <2>1, <2>2 DEF MayStore
  <1>3. TimerTypeOK'
    BY <1>1 DEF TimerInv, TimerTypeOK, StoreFirst
  <1>4. HalfStored'
    <2>1. CASE LowFirst
      BY <2>1, <1>1, <1>2 DEF StoreFirst, HalfStored
    <2>2. CASE ~LowFirst
      <3>1. lo' = 0 /\ hi' = High(m) /\ ticks' = 0 /\ millis' = m
        BY <2>2, <1>2 DEF StoreFirst
      <3>2. High(m) * Radix \in Nat
        BY <1>1, Borrow
      <3> QED BY <3>1, <3>2, <2>2 DEF HalfStored, wait_ticks
    <2> QED BY <2>1, <2>2
  <1>5. Balanced' /\ LoadsAgree'
    BY DEF StoreFirst, Balanced, LoadsAgree
  <1> QED
    BY <1>3, <1>4, <1>5 DEF TimerInv

(* The second store completes the counter.  In ascending order nothing is  *)
(* lost; in descending order a borrow since the first store costs what the *)
(* interrupts left in the low limb.                                        *)
LEMMA StoreSecondInv ==
    ASSUME TimerInv, StoreSecond
    PROVE  TimerInv'
  <1> USE RadixAssumption, OrderAssumption
  <1> DEFINE L == Low(millis)
             H == High(millis)
  <1>1. millis \in Nat /\ ticks \in Nat /\ lo \in 0 .. Radix - 1 /\ hi \in Nat
    BY DelaysAreNat DEF TimerInv, TimerTypeOK
  <1>2. L \in 0 .. Radix - 1 /\ H \in Nat /\ H * Radix + L = millis
    BY <1>1, LimbsOfDelay
  <1>3. tpc = "writing" /\ tpc' = "idle" /\ UNCHANGED <<rd, millis, ticks>>
    BY DEF StoreSecond
  <1>4. TimerTypeOK'
    BY <1>1, <1>2 DEF TimerInv, TimerTypeOK, StoreSecond
  <1>5. Balanced'
    <2> HIDE DEF L, H
    <2>1. CASE LowFirst
      <3>1. hi' = H /\ lo' = lo /\ ticks + lo = L
        BY <2>1, <1>3 DEF StoreSecond, TimerInv, HalfStored, L, H
      <3>2. H * Radix \in Nat
        BY <1>2, Borrow
      <3>3. ticks' + wait_ticks' = millis'
        BY <3>1, <3>2, <1>1, <1>2, <1>3 DEF wait_ticks
      <3> QED BY <3>3, <1>1, <1>3 DEF Balanced
    <2>2. CASE ~LowFirst
      <3>1. lo' = L /\ hi' = hi /\ ticks + (hi * Radix + lo) = H * Radix
        BY <2>2, <1>3
        DEF StoreSecond, TimerInv, HalfStored, wait_ticks, L, H
      <3>2. H * Radix \in Nat /\ hi * Radix \in Nat
        BY <1>1, <1>2, Borrow
      <3>3. ticks' + wait_ticks' = millis - lo
        BY <3>1, <3>2, <1>1, <1>2, <1>3 DEF wait_ticks
      <3>4. millis < Radix => lo = 0
        <4> SUFFICES ASSUME millis < Radix PROVE lo = 0
          OBVIOUS
        <4>1. H * Radix = 0
          BY <1>1, SmallDelay, Borrow DEF H
        <4> QED BY <4>1, <3>1, <3>2, <1>1
      <3> QED BY <3>3, <3>4, <2>2, <1>1, <1>3 DEF Balanced
    <2> QED BY <2>1, <2>2
  <1>6. HalfStored' /\ LoadsAgree'
    BY <1>3 DEF HalfStored, LoadsAgree
  <1> QED
    BY <1>4, <1>5, <1>6 DEF TimerInv

(* The invariant is inductive: every step of the main loop in the timer    *)
(* functions, and every interrupt, preserves it.                           *)
LEMMA TimerNextInv == TimerInv /\ [TimerNext]_timerVars => TimerInv'
  <1> SUFFICES ASSUME TimerInv, [TimerNext]_timerVars PROVE TimerInv'
    OBVIOUS
  <1>1. CASE UNCHANGED timerVars
    BY <1>1 DEF timerVars, TimerInv, TimerTypeOK, Balanced, HalfStored,
                LoadsAgree, wait_ticks
  <1> QED
    BY <1>1, TickInv, LoadInv, StoreFirstInv, StoreSecondInv DEF TimerNext

(* When the timer is found expired, the limbs show how much was missed.    *)
LEMMA TimerInvImplies == TimerInv => ExpiryAlmostExact
  <1> SUFFICES ASSUME TimerInv, tpc = "expired"
               PROVE  /\ ticks <= millis
                      /\ ticks + Radix > millis
                      /\ millis < Radix => ticks = millis
    BY DEF ExpiryAlmostExact
  <1>1. wait_ticks = lo
    <2>1. hi = 0 /\ hi * Radix = 0 /\ lo \in Int
      BY Borrow, RadixAssumption DEF TimerInv, LoadsAgree, TimerTypeOK
    <2> QED BY <2>1 DEF wait_ticks
  <1>2. /\ millis \in Nat /\ ticks \in Nat /\ lo \in 0 .. Radix - 1
        /\ ~LowFirst \/ millis < Radix => lo = 0
    BY DelaysAreNat DEF TimerInv, TimerTypeOK, LoadsAgree
  <1>3. /\ ticks + lo <= millis
        /\ ticks + lo + Radix > millis
        /\ LowFirst \/ millis < Radix => ticks + lo = millis
    BY <1>1 DEF TimerInv, Balanced
  <1> QED
    BY <1>2, <1>3, RadixAssumption, OrderAssumption

(* For every radix, either byte order and all delays: whenever             *)
(* timer_is_expired answers yes, the interrupt has counted the delay set   *)
(* last, except for at most Radix - 1 ticks of a delay of Radix or more.   *)
THEOREM TimerSafe == TimerSpec => [](TimerInv /\ ExpiryAlmostExact)
  <1>1. TimerSpec => []TimerInv
    BY TimerInitInv, TimerNextInv, PTL DEF TimerSpec
  <1> QED
    BY <1>1, TimerInvImplies, PTL

-----------------------------------------------------------------------------
(* The pin functions keep the pins and the cylinder in their types.        *)
LEMMA PinsTyped ==
    ASSUME PinTypeOK, PinWrite \/ loccSetup
    PROVE  PinTypeOK'
  <1> USE DEF PinWrite, loccSetup, wakeup_locc, open_locc, powerdown_locc,
              powerup_locc
  <1>1. io' \in {"HIGH", "LOW", "FLOAT"}
    BY DEF PinTypeOK
  <1>2. cylinder' \in {"asleep", "awake", "open"}
    BY DEF PinTypeOK, CylinderHears, CylinderFed
  <1>3. pin' \in {"release", "pull", "on", "low", "off", "done"}
    OBVIOUS
  <1>4. vcc' \in BOOLEAN
    <2>1. vcc' = vcc \/ vcc' = FALSE \/ vcc' = TRUE
      OBVIOUS
    <2> QED BY <2>1, Zenon DEF PinTypeOK
  <1> QED BY <1>1, <1>2, <1>3, <1>4 DEF PinTypeOK
=============================================================================
