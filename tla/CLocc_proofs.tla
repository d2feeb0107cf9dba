---------------------------- MODULE CLocc_proofs ----------------------------
(***************************************************************************)
(* Proofs about the main loop: it implements the opening cycle, and the    *)
(* cylinder opens only when the host has asked for it.                     *)
(***************************************************************************)
EXTENDS CLocc, LoccSteps_proofs, SequenceTheorems

(* The parser returns 0 or 1.                                              *)
LEMMA CommandRange == \A c : CommandOf(c) \in {0, 1}
  BY DEF CommandOf

(* Every iteration of the main loop is a step of the opening cycle.        *)
LEMMA LoopStepIsLoccStep == [LoopNext]_allVars => [Next]_vars
  <1> SUFFICES ASSUME [LoopNext]_allVars PROVE [Next]_vars
    OBVIOUS
  <1>1. ASSUME NEW c \in Bytes, Receive(c) PROVE Next
    BY <1>1, CommandRange DEF Receive, Next
  <1>2. CASE LoopSetup \/ NoByte \/ Proceed \/ LoopTick
    BY <1>2 DEF LoopSetup, NoByte, Proceed, LoopTick, Next
  <1>3. CASE UNCHANGED allVars
    BY <1>3 DEF allVars
  <1> QED BY <1>1, <1>2, <1>3 DEF LoopNext

(* So everything proved about LoccSteps holds of the main loop.            *)
LEMMA LoopImplementsLocc == LoopSafety => Safety
  <1>1. LoopInit => Init
    BY DEF LoopInit
  <1> QED BY <1>1, LoopStepIsLoccStep, PTL DEF LoopSafety, Safety

(* The history keeps the last three bytes handled.                         *)
LEMMA RememberNewest ==
    ASSUME InputTypeOK, NEW c \in Bytes, Remember(c)
    PROVE  /\ recent' \in Seq(Bytes) /\ Len(recent') <= 3 /\ recent' # <<>>
           /\ Len(recent') \in Nat /\ Len(recent) \in Nat
           /\ Len(recent') = IF Len(recent) < 3 THEN Len(recent) + 1 ELSE 3
           /\ recent'[Len(recent')] = c
           /\ Newest(1)' = c
           /\ Len(recent') >= 2 => Newest(2)' = Newest(1)
           /\ Len(recent') = 3 => Newest(3)' = Newest(2)
  <1> DEFINE old == IF Len(recent) < 3 THEN recent ELSE Tail(recent)
  <1>1. recent \in Seq(Bytes) /\ Len(recent) \in Nat /\ Len(recent) <= 3
    BY LenProperties DEF InputTypeOK
  <1>2. /\ old \in Seq(Bytes)
        /\ Len(old) = IF Len(recent) < 3 THEN Len(recent) ELSE 2
        /\ Len(old) >= 1 => old[Len(old)] = recent[Len(recent)]
        /\ Len(old) = 2 => old[1] = recent[Len(recent) - 1]
    <2>1. CASE Len(recent) < 3
      BY <2>1, <1>1, SMTT(30)
    <2>2. CASE Len(recent) = 3
      <3>1. recent # <<>>
        BY <2>2, EmptySeq
      <3>2. /\ Tail(recent) \in Seq(Bytes)
            /\ Len(Tail(recent)) = Len(recent) - 1
            /\ \A i \in 1 .. Len(Tail(recent)) :
                   Tail(recent)[i] = recent[i + 1]
        BY <3>1, <1>1, HeadTailProperties, Zenon
      <3>3. old = Tail(recent)
        BY <2>2
      <3> HIDE DEF old
      <3>4. old \in Seq(Bytes) /\ Len(old) = 2
        BY <2>2, <3>2, <3>3
      <3>5. \A i \in 1 .. Len(old) : old[i] = recent[i + 1]
        BY <3>2, <3>3, Zenon
      <3>6. 1 \in 1 .. Len(old) /\ 2 \in 1 .. Len(old)
        BY <3>4
      <3>7. old[1] = recent[1 + 1] /\ old[2] = recent[2 + 1]
        BY <3>5, <3>6, Zenon
      <3>8. old[1] = recent[2] /\ old[2] = recent[3]
        BY <3>7
      <3> QED BY <2>2, <3>4, <3>8
    <2> QED BY <2>1, <2>2, <1>1
  <1>3. recent' = Append(old, c)
    BY DEF Remember
  <1> HIDE DEF old
  <1>4. /\ recent' \in Seq(Bytes) /\ recent' # <<>>
        /\ Len(recent') = Len(old) + 1 /\ Len(old) \in Nat
        /\ \A n \in 1 .. Len(old) : recent'[n] = old[n]
        /\ recent'[Len(old) + 1] = c
    <2>1. old \in Seq(Bytes)
      BY <1>2, Zenon
    <2>2. Len(old) \in Nat
      BY <2>1, LenProperties, Zenon
    <2>3. /\ Append(old, c) \in Seq(Bytes) /\ Append(old, c) # <<>>
          /\ Len(Append(old, c)) = Len(old) + 1
          /\ \A n \in 1 .. Len(old) : Append(old, c)[n] = old[n]
          /\ Append(old, c)[Len(old) + 1] = c
      BY <2>1, <2>2
    <2> QED BY <1>3, <2>2, <2>3
  <1>5. Newest(1)' = c
    BY <1>4 DEF Newest
  <1>6. Len(recent') >= 2 => Newest(2)' = Newest(1)
    BY <1>1, <1>2, <1>4 DEF Newest
  <1>7. Len(recent') = 3 => Newest(3)' = Newest(2)
    <2> SUFFICES ASSUME Len(recent') = 3 PROVE Newest(3)' = Newest(2)
      OBVIOUS
    <2> DEFINE m == Len(old)  n == Len(recent')
    <2>0. n = m + 1 /\ m \in Nat /\ n = 3
      BY <1>4, Zenon
    <2> HIDE DEF m, n
    <2>1. m = 2 /\ 1 \in 1 .. m
      BY <2>0
    <2>2. recent'[1] = recent[Len(recent) - 1]
      BY <1>2, <1>4, <2>1, Zenon DEF m
    <2> QED BY <1>1, <2>2 DEF Newest
  <1> QED BY <1>1, <1>2, <1>4, <1>5, <1>6, <1>7

(* handle_user_input keeps its state in its types, and is ready to take a  *)
(* command only after a newline, an 'h' or an 'i'.                         *)
LEMMA InputStep ==
    ASSUME InputTypeOK, CommandAtLineStart, NEW c \in Bytes,
           handle_user_input(c)
    PROVE  InputTypeOK' /\ CommandAtLineStart'
  <1> USE DEF WAIT_FOR_NEWLINE, WAIT_FOR_CMD_CHAR, WAIT_FOR_LED_NUMBER,
              WAIT_FOR_LED_VALUE
  <1>1. /\ recent' \in Seq(Bytes) /\ Len(recent') <= 3
        /\ recent' # <<>> /\ Newest(1)' = c
    BY RememberNewest DEF handle_user_input
  <1>2. led_states' \in [0 .. 2 -> 0 .. 1]
    BY DEF handle_user_input, AwaitNewline, AwaitCommand, AwaitLedNumber,
           AwaitLedValue, set_led, InputTypeOK
  <1>3. InputTypeOK'
    BY <1>1, <1>2 DEF handle_user_input, AwaitNewline, AwaitCommand,
       AwaitLedNumber, AwaitLedValue, InputTypeOK
  <1>4. p_state' = WAIT_FOR_CMD_CHAR => c \in {"newline", "h", "i"}
    BY DEF handle_user_input, AwaitNewline, AwaitCommand, AwaitLedNumber,
           AwaitLedValue
  <1> QED BY <1>1, <1>3, <1>4 DEF CommandAtLineStart

(* The invariant of the parser is inductive.                               *)
LEMMA ParserStep ==
    ASSUME ParserInv, NEW c \in Bytes, handle_user_input(c)
    PROVE  ParserInv'
  <1> USE DEF WAIT_FOR_NEWLINE, WAIT_FOR_CMD_CHAR, WAIT_FOR_LED_NUMBER,
              WAIT_FOR_LED_VALUE
  <1>0. InputTypeOK /\ Remember(c)
    BY DEF ParserInv, handle_user_input
  <1>1. InputTypeOK' /\ CommandAtLineStart'
    BY InputStep DEF ParserInv
  <1>2. /\ Len(recent') \in Nat /\ Len(recent) \in Nat /\ recent' # <<>>
        /\ Len(recent') = IF Len(recent) < 3 THEN Len(recent) + 1 ELSE 3
        /\ Newest(1)' = c
        /\ Len(recent') >= 2 => Newest(2)' = Newest(1)
        /\ Len(recent') = 3 => Newest(3)' = Newest(2)
    BY <1>0, RememberNewest
  <1>3. p_state' = WAIT_FOR_LED_NUMBER => c = "l"
    BY DEF handle_user_input, AwaitNewline, AwaitCommand, AwaitLedNumber,
           AwaitLedValue
  <1>4. p_state' = WAIT_FOR_LED_VALUE =>
            p_state = WAIT_FOR_LED_NUMBER /\ cmd_target' = c
    BY DEF handle_user_input, AwaitNewline, AwaitCommand, AwaitLedNumber,
           AwaitLedValue
  <1>5. recent # <<>> => Len(recent) >= 1
    BY <1>0, EmptySeq DEF InputTypeOK
  <1>6. ThreeNewlinesResync'
    <2> SUFFICES ASSUME Len(recent') = 3,
                        \A k \in 1 .. 3 : Newest(k)' = "newline"
                 PROVE  p_state' = WAIT_FOR_CMD_CHAR
      BY DEF ThreeNewlinesResync
    <2>1. c = "newline" /\ Newest(1) = "newline" /\ Newest(2) = "newline"
      BY <1>2
    <2>2. p_state \in {WAIT_FOR_NEWLINE, WAIT_FOR_CMD_CHAR}
      BY <2>1 DEF ParserInv, InputTypeOK
    <2> QED BY <2>1, <2>2 DEF handle_user_input, AwaitNewline, AwaitCommand,
                              AwaitLedNumber, AwaitLedValue
  <1> QED BY <1>1, <1>2, <1>3, <1>4, <1>5, <1>6 DEF ParserInv

(* An LED changes only at the end of a complete LED command for it.        *)
LEMMA LedStep ==
    ASSUME ParserInv, NEW c \in Bytes, handle_user_input(c), NEW n \in 0 .. 2,
           led_states'[n] # led_states[n]
    PROVE  /\ Len(recent) >= 2 /\ Newest(2) = "l"
           /\ MinusZero(Newest(1)) = n
           /\ led_states'[n] = IF recent'[Len(recent')] = "0" THEN 1 ELSE 0
           /\ \A k \in (0 .. 2) \ {n} : led_states'[k] = led_states[k]
  <1>0. InputTypeOK /\ Remember(c)
    BY DEF ParserInv, handle_user_input
  <1>1. recent'[Len(recent')] = c
    BY <1>0, RememberNewest
  <1>2. AwaitLedValue(c)
    BY DEF handle_user_input, AwaitNewline, AwaitCommand, AwaitLedNumber
  <1>3. MinusZero(cmd_target) \in 0 .. 255 /\ (MinusZero(c) = 0 <=> c = "0")
    BY DEF MinusZero
  <1>4. /\ MinusZero(cmd_target) = n
        /\ led_states' = [led_states EXCEPT ![n] =
                              IF MinusZero(c) = 0 THEN 1 ELSE 0]
    <2> DEFINE target == MinusZero(cmd_target)
               bit == IF MinusZero(c) = 0 THEN 1 ELSE 0
    <2>1. target \in 0 .. 255
      BY <1>3
    <2>2. led_states' = IF target < 3 THEN [led_states EXCEPT ![target] = bit]
                                      ELSE led_states
      BY <1>2 DEF AwaitLedValue, set_led
    <2> HIDE DEF target, bit
    <2>3. target = n /\ led_states' = [led_states EXCEPT ![target] = bit]
      BY <1>0, <2>1, <2>2 DEF InputTypeOK
    <2> QED BY <2>3 DEF target, bit
  <1>5. Len(recent) >= 2 /\ Newest(2) = "l" /\ Newest(1) = cmd_target
    BY <1>2 DEF ParserInv, AwaitLedValue
  <1> QED BY <1>0, <1>1, <1>3, <1>4, <1>5 DEF InputTypeOK

(* Whatever bytes the parser gets, its state agrees with the last of them. *)
THEOREM ParserInvariant == InputSpec => []ParserInv
  <1>1. InputInit => ParserInv
    BY EmptySeq DEF InputInit, ParserInv, InputTypeOK, CommandAtLineStart,
       ThreeNewlinesResync, WAIT_FOR_NEWLINE, WAIT_FOR_CMD_CHAR,
       WAIT_FOR_LED_NUMBER, WAIT_FOR_LED_VALUE
  <1>2. ParserInv /\ [InputNext]_inputVars => ParserInv'
    <2> SUFFICES ASSUME ParserInv, [InputNext]_inputVars PROVE ParserInv'
      OBVIOUS
    <2>1. CASE InputNext
      BY <2>1, ParserStep DEF InputNext
    <2>2. CASE UNCHANGED inputVars
      BY <2>2 DEF inputVars, ParserInv, InputTypeOK, CommandAtLineStart,
                  ThreeNewlinesResync, Newest
    <2> QED BY <2>1, <2>2
  <1> QED BY <1>1, <1>2, PTL DEF InputSpec

(* Three newlines bring the parser back in step with the host's lines.     *)
THEOREM ParserResyncs == InputSpec => []ThreeNewlinesResync
  <1>1. ParserInv => ThreeNewlinesResync
    BY DEF ParserInv
  <1> QED BY <1>1, ParserInvariant, PTL

(* A command is taken only where one may begin.                            *)
THEOREM ParserTakesCommands == InputSpec => []CommandAtLineStart
  <1>1. ParserInv => CommandAtLineStart
    BY DEF ParserInv
  <1> QED BY <1>1, ParserInvariant, PTL

(* An LED is switched only by a complete command for that LED.             *)
THEOREM ParserSwitchesLeds == InputSpec => LedsFollowCommands
  <1>1. ParserInv /\ [InputNext]_inputVars =>
            [\A n \in 0 .. 2 : led_states'[n] # led_states[n] =>
                /\ Len(recent) >= 2 /\ Newest(2) = "l"
                /\ MinusZero(Newest(1)) = n
                /\ led_states'[n] = IF recent'[Len(recent')] = "0" THEN 1 ELSE 0
                /\ \A k \in (0 .. 2) \ {n} : led_states'[k] = led_states[k]
            ]_inputVars
    BY LedStep DEF InputNext
  <1> QED BY <1>1, ParserInvariant, PTL DEF InputSpec, LedsFollowCommands

(* The invariant of the main loop holds initially.                         *)
LEMMA LoopInitInv == LoopInit => LoopInv
  <1> SUFFICES ASSUME LoopInit PROVE LoopInv
    OBVIOUS
  <1>1. LoccInv
    BY LoccInitInv DEF LoopInit
  <1>2. InputTypeOK /\ CommandAtLineStart
    BY DEF LoopInit, InputInit, InputTypeOK, CommandAtLineStart,
       WAIT_FOR_NEWLINE, WAIT_FOR_CMD_CHAR
  <1>3. asked \in BOOLEAN /\ is_locking = FALSE /\ host = "ready"
    BY Zenon DEF LoopInit, Init
  <1> QED
    BY <1>1, <1>2, <1>3 DEF LoopInv, LoopTypeOK, LoccInv, SequencerInv,
       RepliesTellState

(* A command byte the parser accepts is one the host meant as a command.   *)
LEMMA AcceptedIsAsked ==
    ASSUME CommandAtLineStart, NEW c, CommandOf(c) = 1
    PROVE  Asks(c)
  BY DEF CommandAtLineStart, CommandOf, Asks

(* An iteration that handles a byte preserves the invariant.               *)
LEMMA ReceiveInv ==
    ASSUME LoopInv, LoccInv', NEW c \in Bytes, Receive(c)
    PROVE  LoopInv'
  <1>1. InputTypeOK' /\ CommandAtLineStart'
    BY InputStep DEF LoopInv, LoopTypeOK, Receive
  <1>2. asked \in BOOLEAN /\ is_locking \in BOOLEAN /\ is_locking' \in BOOLEAN
    BY DEF LoopInv, LoopTypeOK, LoccInv, SequencerInv, TypeOK
  <1>3. CASE CommandOf(c) = 1
    <2>1. asked' = TRUE /\ is_locking' = TRUE
      BY <1>2, <1>3, AcceptedIsAsked
      DEF Receive, LoopHead, start_locking, LoopInv
    <2>2. host' = "busy"
      BY <1>2, <1>3
      DEF Receive, LoopInv, RepliesTellState, HostCounts, Echo, Acknowledgement
    <2>3. asked' \in BOOLEAN
      BY <2>1, Zenon
    <2> QED BY <2>1, <2>2, <2>3, <1>1
            DEF LoopInv, LoopTypeOK, LoccInv, SequencerInv, RepliesTellState
  <1>4. CASE CommandOf(c) = 0
    <2>1. is_locking' = is_locking /\ host' = host
      BY <1>4
      DEF Receive, LoopHead, start_locking, LoopInv, RepliesTellState,
          HostCounts, Echo, Acknowledgement
    <2>2. asked' \in BOOLEAN /\ (asked => asked')
      BY Zenon DEF Receive
    <2> QED BY <2>1, <2>2, <1>1, <1>2
            DEF LoopInv, LoopTypeOK, LoccInv, SequencerInv, RepliesTellState
  <1> QED BY <1>3, <1>4, CommandRange

(* A cycle ends, and the host is told, only when do_next_locc_step returns *)
(* with the sequencer back at step 0.                                      *)
LEMMA ProceedInv ==
    ASSUME LoopInv, LoccInv', Proceed
    PROVE  LoopInv'
  <1>1. is_locking = TRUE /\ is_locking' \in BOOLEAN
    BY Zenon DEF LoopInv, LoccInv, SequencerInv, TypeOK, CycleUnderWay, Proceed,
       LockingStep, PollFirst, PollSecond, do_locc_step, StepPins, StepWaits,
       SetSecond, Return
  <1>2. InputTypeOK' /\ CommandAtLineStart'
    BY DEF LoopInv, LoopTypeOK, Proceed, inputVars, InputTypeOK,
       CommandAtLineStart, Newest
  <1>3. CASE is_locking'
    BY <1>1, <1>2, <1>3 DEF Proceed, hostVars, LoopInv, LoopTypeOK,
       LoccInv, SequencerInv, RepliesTellState
  <1>4. CASE ~is_locking'
    <2>1. asked' = FALSE /\ host' = "ready"
      BY <1>4 DEF Proceed
    <2>2. asked' \in BOOLEAN
      BY <2>1, Zenon
    <2> QED BY <2>1, <2>2, <1>2, <1>4
            DEF LoopInv, LoopTypeOK, LoccInv, SequencerInv, RepliesTellState
  <1> QED BY <1>1, <1>3, <1>4

(* The invariant of the main loop is inductive.                            *)
LEMMA LoopNextInv == LoopInv /\ [LoopNext]_allVars => LoopInv'
  <1> SUFFICES ASSUME LoopInv, [LoopNext]_allVars PROVE LoopInv'
    OBVIOUS
  <1>1. LoccInv'
    BY LoopStepIsLoccStep, LoccNextInv DEF LoopInv
  <1>2. ASSUME NEW c \in Bytes, Receive(c) PROVE LoopInv'
    BY <1>1, <1>2, ReceiveInv
  <1>3. CASE Proceed
    BY <1>1, <1>3, ProceedInv
  <1>4. CASE LoopSetup \/ NoByte \/ LoopTick \/ UNCHANGED allVars
    <2>1. UNCHANGED <<is_locking, inputVars, hostVars>>
      BY <1>4
      DEF LoopSetup, Setup, NoByte, LoopTick, LoopHead, start_locking, Tick, loopVars, vars, allVars
    <2> QED
      BY <2>1, <1>1 DEF LoopInv, LoopTypeOK, LoccInv, SequencerInv, inputVars,
         hostVars, InputTypeOK, CommandAtLineStart, Newest, RepliesTellState
  <1> QED BY <1>2, <1>3, <1>4 DEF LoopNext

(* For all constants and whatever the host sends: the types, the lock's    *)
(* invariant, and that a cycle is running only if the host asked for it.   *)
THEOREM LoopInvariant == LoopSafety => []LoopInv
  BY LoopInitInv, LoopNextInv, PTL DEF LoopSafety

(* The host that counts replies knows whether a cycle is running.          *)
THEOREM LoopRepliesTellState == LoopSafety => []RepliesTellState
  <1>1. LoopInv => RepliesTellState
    BY DEF LoopInv
  <1> QED BY <1>1, LoopInvariant, PTL

(* The main loop, too, is ready only with the door closed.                 *)
THEOREM LoopClosedWhenReady == LoopSafety => []ReadyMeansClosed
  BY LoopImplementsLocc, LoccClosedWhenReady, PTL

(* The main loop with its parser implements the safety part of the lock    *)
(* service, whatever bytes arrive.                                         *)
THEOREM LoopImplementsLock == LoopSafety => Lock!LockSafety
  BY LoopImplementsLocc, LoccImplementsLock, PTL

(* The cylinder opens only in a pin function, hence in a cycle that began  *)
(* with a command of the host.                                             *)
LEMMA OpeningStep ==
    ASSUME LoopInv, [LoopNext]_allVars
    PROVE  cylinder' = "open" /\ cylinder # "open" => asked
  <1>1. CASE is_locking
    BY <1>1 DEF LoopInv
  <1>2. CASE ~is_locking
    <2>1. pc \in {"setup", "loop"}
      BY <1>2 DEF LoopInv, LoccInv, SequencerInv, TypeOK, CycleUnderWay
    <2>2. CASE Setup
      BY <2>2 DEF Setup, loccSetup, powerup_locc, CylinderFed
    <2>3. CASE ~Setup
      <3>1. ~LockingStep
        BY <2>1, Zenon
        DEF LockingStep, PollFirst, PollSecond, do_locc_step, StepPins,
           StepWaits, SetSecond, Return
      <3>2. [LoopHead(0) \/ LoopHead(1) \/ Tick]_vars
        BY <2>3, <3>1, LoopStepIsLoccStep DEF Next
      <3> QED BY <3>2 DEF LoopHead, Tick, doorVars, pinVars, vars
    <2> QED BY <2>2, <2>3
  <1> QED BY <1>1, <1>2

(* Whatever bytes arrive, in whatever order: the cylinder opens only in a  *)
(* cycle the host has asked for since the last one was reported finished.  *)
THEOREM LoopOpensOnlyOnRequest == LoopSafety => OpensOnlyOnRequest
  <1>1. LoopInv /\ [LoopNext]_allVars
            => [cylinder' = "open" /\ cylinder # "open" => asked]_allVars
    BY OpeningStep
  <1> QED
    BY <1>1, LoopInvariant, PTL DEF LoopSafety, OpensOnlyOnRequest
=============================================================================
