# A TLA+ model of the c_locc firmware

The firmware runs on an AVR microcontroller between a router (the *host*, over
a USB serial port) and an electronic door cylinder. The host sends one-letter
commands; the firmware wakes the cylinder, sends it a telegram that opens it,
and later cuts its power, which closes it. It also scans a keypad and a
rotary-dial telephone and reports what it finds to the host.

## The parts of the system

| part | code | modules | status |
|---|---|---|---|
| wait timer | `locc.c`: `wait_ticks`, `set_wait_time`, `timer_is_expired`, `ISR(TIMER0_OVF_vect)` | WaitTimer | modelled, proved |
| cylinder pins | `locc.c`: `wakeup_locc`, `open_locc`, `powerdown_locc`, `powerup_locc` | Cylinder | modelled |
| opening cycle | `locc.c`: `start_locking`, `do_next_locc_step`, `do_locc_step` | LoccSteps, LockService | modelled, proved |
| reset and power loss | `setup`, `loccSetup` | LoccReset | modelled, proved |
| older lock interface | `locc.c`: `loccStartOpening`, `loccPoll`, `state_machine`, `loccPowerDown`, `loccPowerUp` | LegacyLocc, LockService | modelled, proved |
| telegram | `locc.c`: `sendCylinderTelegram` | Telegram, MCTelegram | modelled, proved |
| command parser | `c_locc.c`: `handle_user_input`, `set_led` | UserInput | modelled, proved |
| main loop | `c_locc.c`: `loop` | CLocc, DialPhone, Keypad, CdcSerial | in three compositions, partly |
| rotary dial | `dial.c`: `dial_scan` | Debounce, Dial, DialPhone | modelled, proved |
| keypad, shift register | `keypad.c`: `keypad_scan`; `c_locc.c`: `shiftreg_out` | Debounce, Keypad, MCKeypad | modelled, proved |
| USB serial port | `c_locc.c`: `usb_putc`; LUFA `CDCClassDevice.c` | CdcSerial, ByteChannel | modelled, proved |
| USB device core | LUFA `USBInterrupt_AVR8.c`, `DeviceStandardReq.c`, `Endpoint_AVR8.c` | UsbDevice | the part the port depends on |
| descriptors, delay helpers, ring buffers, `foo.py` | | | not modelled |

Proofs about module *M* are in *M*`_proofs`, with three exceptions where proofs
share lemmas: those about UserInput are in `CLocc_proofs`, those about LoccReset
in `LoccSteps_proofs`, and those about Keypad and DialPhone in `Debounce_proofs`.

The processor runs one main loop and interrupts. `loop` reads at most one byte
from the host, hands it to the parser, starts a cycle if the parser returns the
open command and none is running, takes one step of the running cycle if the
timer has expired, scans one keypad row and the dial, and shifts LEDs and row
selector out. At its end it lets the USB driver send off what is in the bank.
The timer interrupt decrements `wait_ticks` every millisecond. The USB interrupts
follow the state of the bus and handle control requests.

## The modules

**WaitTimer.** `wait_ticks` is a 32-bit variable on an 8-bit processor, accessed
by the main loop without disabling interrupts. The model splits it into two
limbs, `lo` (the lowest byte) and `hi` (the rest), and each access of the main
loop into two actions (`LoadFirst`/`LoadSecond`, `StoreFirst`/`StoreSecond`)
between which the interrupt `TIMER0_OVF` may run. Two limbs are enough because
every delay is below 2^16 and the upper two bytes are always zero. `LowFirst` is
the byte order of the build; both are covered. Of a loaded limb only its being
zero matters, so `rd` keeps that and no more. `millis` and `ticks` are history:
the delay set last, and the decrements since.

**Cylinder** has the pins and the functions that drive them. A tick or a reset may
fall between two writes to the pins, so `powerdown_locc` and `powerup_locc` are one
action for each write, with `pin` telling which comes next; the wake-up pulse, the
telegram and the beginning of `loccSetup`, of whose four writes only the one that
turns the pull-up on changes anything, are one each. The data line is high, low, or,
as an input without pull-up, floating. The cylinder is external: it wakes on the
pulse, opens on a telegram if it has been awake for 59 ticks, and closes and shuts
down without power, unless the data line is high, over which, as a comment in
`powerdown_locc` says, power leaks into it: then it may or may not.

**LoccSteps** adds the sequencer. `pc` is the main loop's position: `setup` (in
`loccSetup`, with interrupts still disabled), `loop` (the head, where a command
may start a cycle), `poll` (in `timer_is_expired`), `step` (at the switch of
`do_locc_step`), `pins` (in the function it calls), `set` (in `set_wait_time`),
`return`. `PinsOf`, `DelayOf` and `StepAfter` are the three columns of the switch
in `do_locc_step`. `cycle` is history: the first cycle after a reset is the only
one that no charging time precedes.

**LoccReset** lets the controller be reset in any state of LoccSteps. Everything
in memory is lost, the pins become inputs, `loccSetup` pulls the data line up and
powers the cylinder, and the cylinder, fed by its capacitor, keeps its state or
not. A reset may therefore leave it open with nothing scheduled to close it;
`CycleHealsReset` says that this lasts until the end of the next complete cycle
and no longer.

**LegacyLocc** is the interface whose calls in `c_locc.c` are commented out:
another state machine over the same counter and pins. Its caller is external; it
polls for ever and calls `loccPowerDown` and `loccPowerUp` in any state, as the
commented-out calls would, which look at none. `cut` is history: whether it has
cut the power in this cycle. The comments of `locc.c` tell two stories about how
the cylinder closes: "the lock will automatic close the opener" in `state_machine`
(line 203), and "switch of power for the lock (closes it and shuts it down)" in
`do_locc_step` (line 258). LegacyLocc has both, since in OPEN the firmware waits
for the first and in POWERDOWN does the second; LoccSteps, whose step 2 is to
"leave it open", has the second.

**LockService** is the abstract specification: ready, accepted, open, closed,
ready; a command during which somebody else cut the power may go from accepted to
closed. LoccSteps implements it under `phaseMap`, where nobody else does, and
LegacyLocc under `legacyPhase`.

**UserInput** is the parser, over the byte classes it tells apart; `recent`
remembers the last three bytes. **CLocc** composes it with LoccSteps: `Receive`
is an iteration with a byte from the host, `NoByte` one without, `Proceed` the
rest of the iteration when a cycle runs. `host` is what a host concludes that
counts the `O` (`Echo`, `Acknowledgement`) and `.` replies as they are sent; here
they arrive at once and none is lost.

**Debounce** is the counter that keypad and dial share. **Dial** is `dial_scan`;
**DialPhone** connects it to a telephone whose opening contacts chatter, and to
the opening cycle in the one way they affect each other: while `open_locc` sends
its telegram, for about 72 ms, nothing is scanned (`Blind`). A `usb_putc` that
waits for the host and a long control request stop the scans as well. For the dial
that is the same, as long as it is not wound up and run back in the meantime; a
stop as long as that is not modelled.
**Keypad** is `keypad_scan` with `shiftreg_out` and someone pressing keys.

**Telegram** sends a telegram as half-bits to a receiver that decodes them; the
value behind the array is a nondeterministic choice.

**UsbDevice** is LUFA's device core with the options this firmware is built with:
the interrupts for suspension, wake-up and the end of a bus reset, and the control
requests, which are handled in an interrupt that enables interrupts again and
waits for the host. A request is thus `Setup` and an action for what follows the
wait, for SetConfiguration two, because it stores the number (`SetNumber`) before
its status stage and the state after it. `isr` is the stack of requests under way,
since after a bus reset a new one may arrive inside an old one. `selected` is the
endpoint register that interrupts and main loop share. `OrderlyHost` restricts the
external host to requests that fit the device's configuration (`Expected`).

`USB_DeviceState` can be Configured without data endpoints: after a bus reset that
frees them, a wake-up, a new address, a suspension and another wake-up `Wake` finds
an address and no configuration, and chooses Configured. The model has this, and
no property excludes it; `SuccessMeansSent` and `CommandsTaken` hold all the same,
since the tests of the calls fail on an endpoint that is not there.

**CdcSerial** adds the calls of the main loop. Each access to an endpoint register
is an action of its own, so every interrupt may fall between any two of them, and
each acts on the endpoint selected at that moment. On the control endpoint a test
may turn out either way, and a read gives a value that is no byte of the host's
(`ret` = 0). The host sends packets of any length, zero included, into a free bank;
`ReceiveByte` reads them byte by byte (`Read_8`) and gives the bank back
(`ClearOUT`), and `HandOn` passes the byte to the parser. Bytes are numbered, so
that order and duplication can be seen. `Disturb` has the interrupts that empty a
bank; `kept` and `calm` are history: whether the bus was reset, or a bank emptied,
since the current call began.

**ByteChannel** is the abstract specification of one direction of the port: bytes
may be lost but come out in order and only once.

Operators whose comment begins with "Seeded bug" are deliberately wrong variants
of the definition that follows them. No specification uses them. Each shows
that a property is able to fail: put in the place of the right definition it
makes the model checker report a violation.

## The runs

| run | module | what it checks |
|---|---|---|
| `locc` | LoccReset | the cycle with the firmware's own delays, bytes in ascending order (as avr-gcc accesses them), one step for each write to the pins and resets at any point |
| `legacy` | LegacyLocc | the older interface with bytes in descending order, where a store can lose a borrow, and a caller that switches the power in any state; its refinement of LockService with liveness |
| `input` | UserInput | the parser on every sequence of byte classes |
| `loop` | CLocc | parser, cycle and interrupt together; the refinement of LockService with liveness |
| `dial` | DialPhone | digits and hook events, with telegrams sent at any time |
| `keypad` | MCKeypad | three keys, two of which share a row |
| `telegram` | MCTelegram | both telegrams of `locc.c`, the one that is sent and `statusTelegram`, which nothing sends, as a second example |
| `serial` | CdcSerial | the serial port against all USB interrupts; the refinement of ByteChannel in both directions |

Each passing run also checks the inductive invariant of its module, from which
the proofs derive the other safety properties and which includes the types of the
state: `ResetInv`, `LegacyInv`, `ParserInv`, `LoopInv`, `PhoneInv`, `KeypadInv`,
`TelegramInv`, `SerialInv`. Main properties:

- `ExpiryAlmostExact`: an expiry is reported at most 255 ticks early and never
  after more ticks than were asked for; delays below 256 are exact.
- `MinimumDwell`, `ChargedBeforeWake`, `LegacyDwell`: hence the telegram never
  comes before 59 ticks since the wake-up pulse, and no other step is early by 256
  ticks or more. A tick is a millisecond, but the first one may come at once: 59
  ticks are a little more than 58 ms at least.
- `CycleHealsReset`, `OpenWhenDue`: what holds across resets.
- `LeakOnlyAtPowerUp`: `powerdown_locc` never leaves the data line high without
  power, wherever it is interrupted, and it stays low until `powerup_locc`. That
  function raises the line before it switches the power on, and `loccSetup` pulls
  it up with the power off: the property names both, so it does not claim that
  nothing ever leaks.
- `ReadyMeansClosed`, `NoUnrequestedCycle`, `ImplementsLock`,
  `LegacyImplementsLock`: one opening per accepted command, closed and powered
  again before the next. In `LegacyInv`, `OpenInOpenOnly` says that even if the
  caller switches the power during a cycle the cylinder is open in OPEN only, and
  until POWERDOWN has cut its power.
- `OpensOnlyOnRequest`, `RepliesTellState`, `RequestsServed`: opening only on
  request, replies from which the host can tell whether a cycle runs, and every
  accepted request served.
- `ThreeNewlinesResync`, `CommandAtLineStart`, `LedsFollowCommands`: the parser.
- `DigitsFaithful`, `HookEventsTellPosition`: the dial. A rotation into which a
  telegram falls may be reported with a wrong digit, but as one digit, and the
  next one is right again. A digit whose scan also has a hook event is displaced by
  it, as in the code.
- `ReportsRealKeys`, `OncePerPress`, `DueKeyReported`: the keypad. A key whose hold
  time is over and that is down gets a report of a key of its row. Which key that
  is, if several are due, the property leaves open: the code reports the one in the
  last column, `keypad.h:31` says "the highest pressed digit", and for `8` and `0`
  these differ. The other keys are debounced without a report. Nor is a key
  reported that is pressed again within its hold time and kept down.
- `ReceivedInOrder`, `SelfClocking`, `TelegramDelivered`: the telegram. Time is
  counted in half-bits.
- `StrayOnlyAfterReset`: a call of the driver accesses the wrong endpoint only if
  the bus was reset during that call; every other interrupt restores the selection.
- `SuccessMeansSent`: what a result without error of `CDC_Device_SendByte` is
  worth, and `RepliesInOrder`, `CommandsInOrder` what arrives in any case.
- `CommandsTaken`: `CDC_Device_ReceiveByte` takes the bytes of a packet one by one,
  gives the bank back only when it is empty, and takes nothing else for a byte,
  unless a bank was emptied in that call. After a bus reset in the call it may: the
  read then goes to the control endpoint.
- `BankDrained`, `CommandsDrained`: neither bank of a port that is in use stays
  occupied, not even by a packet without bytes.

Four runs show where the code departs from what its comments or documents say:

| run | what the counterexample shows |
|---|---|
| `timer_exact` | `timer_is_expired` returns true with 255 ticks left |
| `dial_hook` | a hook movement shorter than the hold time is never reported |
| `telegram_length` | a ninth value, from behind the array, is sent after `openTelegram`, the one telegram the firmware sends |
| `send_returns` | `Endpoint_WaitUntilReady` does not return if the host goes away right after a bus reset: the suspend interrupt is still disabled, and the timeout counts frames that no longer come |

Smaller disagreements need no run. Step 2 of `do_locc_step` waits 15 s where its
comment says 10 s; the models take the code's value. The first line after a reset
is dropped, since the parser begins by waiting for a newline. Of two keys found in
one scan `keypad_scan` returns the one in the last column, where `keypad.h` says
the highest digit.

### Bounds

`locc` uses the real constants. `legacy` scales the timer to radix 16, with delays
in the proportions of the real ones: three within the low limb, one that takes
several borrows. `loop` scales it to radix 4 and delays of 3, 6 and 5: one
delay within the low limb, two beyond it, as in the firmware. `loop` leaves out
the byte classes `i`, `0`, `1` and `2`: `i` behaves as `h`, the digits choose
LEDs and are checked in `input`. `dial` and `keypad` scale hold times to 3 to 5
scans; the counters run through the same cases (above 1 or 2, at it, below).
`dial` lets contacts chatter for 3 scans, the shorter of their hold times, and the
dial make up to 10 pulses. This is the edge: with 4 scans TLC finds a pulse counted
twice. The hook keeps a position for at least the hold time, the condition that
`dial_hook` drops.
`serial` has banks of 2 bytes and 2 bytes in all, two of either direction or one of
each, so that a bank is empty, partly filled and full, a packet has no, one or two
bytes, and bytes overtaking or doubling each other could be seen. A host is orderly
there, and `MaxNest` is 1: control requests do not nest, since with each level the
states grow beyond reach. The proofs cover every bank size, number of bytes and
nesting depth, and a host that is not orderly.
In `legacy` the caller switches the power in every state. An early load of the
counter cannot happen with descending accesses; ascending ones are covered by
`locc`, and for the older interface by its proofs.
`send_returns` has a bank of one byte, so that the second one has to wait.
Deadlock is allowed only in the telegram runs, where a function returns.

### Fairness

`LoccSteps` and `CLocc` assume weak fairness of the main loop and of the timer
interrupt: `for(;;) loop();` never stops, each call it makes returns, and the
timer interrupt is enabled in `loccSetup` and never disabled. That the calls of
the USB driver return is an assumption about the host: `send_returns` shows when
they do not. The host owes no commands. `LegacyLocc` assumes that its
calls return and that its caller polls again and again, whatever other calls it
makes in between, which is strong fairness of `loccPoll`; `Keypad` assumes that
frames go on, `Telegram` that the function runs.

`SerialSpec` assumes that the main loop goes on while no control request is under
way, and that a host that has configured the device fetches the packets it is
offered. `AttentiveSpec` adds that the controller raises its suspend and wake-up
interrupts. Nothing is assumed about bus resets or control requests, so
`BankDrained` and `CommandsDrained` do not hold, and are not claimed, against a host
that makes control requests without end.

## What is proved

TLAPS checks the proofs for every value of the constants that satisfies the
assumptions (`Radix` above 1, delays below `Radix` squared, `AWAKETIME` below
`Radix`, delays positive, hold times above 1, banks of at least a byte). Every
safety property of the passing runs is stated by a theorem. Where a property needs
a hypothesis beyond these assumptions, the theorem has it and it is named below.

**Timer.** `TimerSafe`: `TimerSpec` implies `TimerInv` and `ExpiryAlmostExact`. The
property alone is not inductive. `Balanced` says that ticks counted and ticks
left add up to the delay, short of it only by a borrow lost in a descending
store; `HalfStored` says what holds in the middle of a store; `LoadsAgree`
what a first zero limb tells about the rest.

**Opening cycle.** `LoccInvariant`: `LoccInv` ties the position in the cycle to the
place in the timer functions, the delay set last, the pins and the cylinder. The
timer's invariant is reused by showing that every step of LoccSteps is a timer
step. `Reached` is the step whose writes to the pins are complete: inside
`powerdown_locc` the cylinder is still that of step 3, after its last write that of
step 4. `LoccImplementsLock`: every step maps to a LockService step or a stutter.

**Resets.** `ResetInvariant`: a reset leaves `SequencerInv`, the part of `LoccInv`
about the firmware's own state, intact; `CylinderAfterReset` is what remains of the
part about the cylinder, which may be found open or awake in the first cycle. From
it follow `ResetKeepsTimes` (`ExpiryAlmostExact`, `MinimumDwell`),
`ResetKeepsCharge` (`ChargedBeforeWake`), `ResetStartsNothing`
(`NoUnrequestedCycle`), `ResetHealed` (`CycleHealsReset`), `ResetOpensWhenDue`
(`OpenWhenDue`) and `ResetNoLeak` (`LeakOnlyAtPowerUp`).

**Older interface.** `LegacyInvariant`, `LegacyKeepsTimes` (`LegacyDwell`) and
`LegacyIsLock`, the safety part of `LegacyImplementsLock`, need no assumption about
when the caller switches the power. `HearsSignals` says that in a cycle in which it
does not cut it the cylinder is powered and awake when the telegram comes; without
it the refinement could not tell a failed command from a lost one.

**Parser.** `ParserInvariant`: `ParserInv` adds to the properties of the parser what
it has read of an LED command. `ParserResyncs`, `ParserTakesCommands` and
`ParserSwitchesLeds` state the three properties.

**Main loop.** Whatever the host sends, every step of the loop is one of the opening
cycle or leaves it alone (a lemma). What is proved of the cycle therefore holds of
the loop: `LoopClosedWhenReady`, `LoopImplementsLock`.
`LoopInvariant` adds the parser's invariant and what the host was told:
`LoopRepliesTellState`, `LoopOpensOnlyOnRequest`.

**Keypad.** `KeypadInvariant`: in `KeypadInv` the selector stands at the row, the
driven row is the one scanned next, and the counter of a reported key that is still
down has not run down to 0. Hence `KeypadReportsRealKeys`, `KeypadReportsOnce`.

**Dial.** `DigitsSafe` proves `DigitsFaithful` under `ChatterIsShort`: contacts
chatter no longer than their hold times, and a rotation has at most ten pulses.
`DigitsInv` compares each debounce counter with the age of its contact: while the
contact may chatter the counter lasts longer than the chatter (`Covers`), and it
has run out before the contact may open again (`Expires`). Then every pulse is
noticed exactly once, and `CountInv` says that `dial_counter` is behind the pulses
by the one not noticed yet. Scans missed while a telegram is sent (`blurred`) void
the claim about the digit, but not that about the dial contact: the rotation is
still reported once, and the counter still starts the next one from 0. `HookSafe`
proves `HookEventsTellPosition` under `HookIsSlow`: the hook keeps a position for
the hold time. `HookInv` says that only a movement not scanned yet is unreported.
The two are independent, and `PhoneInvariant` joins them; `PhoneTypeCorrect` needs
neither condition.

**Telegram.** `TelegramInvariant`: `TelegramInv` fixes the number of bits received
by the two loop counters, says that each is the bit of its place in what is sent,
and bounds how long the line may have been still. Hence `TelegramReceived`
(`ReceivedInOrder`) and `TelegramClocks` (`SelfClocking`), for every telegram and
every value behind it.

**Serial port.** `SerialSelects` (`StrayOnlyAfterReset`): in `SelectionInv` the
selection of the main loop is the register itself or, while requests are handled,
what the outermost of them will restore, unless the bus was reset in this call.
`SerialInvariant` and `AcceptedIsSent` (`SuccessMeansSent`) add `BankReady`: in an
undisturbed call a wait that ends well has seen the host empty the bank.
`CommandsAreTaken` (`CommandsTaken`) adds `PacketHeld`: in an undisturbed call the
packet that `ReceiveByte` has found stays there, has a byte when one is read and
none when the bank is given back. `RepliesKeepOrder`, `CommandsKeepOrder`: every
step, disturbed or not, maps to a ByteChannel step or a stutter. The queue of
replies is the bank followed by the byte `SendByte` is about to write, that of
commands the byte `ReceiveByte` has read followed by the bank. `ChannelKeepsOrder` shows what that means to a receiver, and
`RepliesNeverTwice`, `CommandsNeverTwice` carry it over to the port.

Only model-checked is liveness, which is out of the prover's reach:
`RequestsServed`, `DueKeyReported`, `TelegramDelivered`, `BankDrained`,
`CommandsDrained`, and the fairness in the refinements `ImplementsLock` and
`LegacyImplementsLock`, whose safety parts are `LoopImplementsLock` and
`LegacyIsLock`. Only proved are nested control requests.

## Not modelled, and assumptions

- **All parts in one loop.** The lock, the scans and the serial port are composed
  with the main loop separately. They share no variables; what one does to another
  is time, which the compositions allow for: a byte may arrive in any iteration of
  CLocc, scans may be missed in DialPhone, and calls of `usb_putc` come at any time
  in CdcSerial. `RepliesTellState` is about replies that arrive; which do is
  CdcSerial's subject.
- **The rest of LUFA.** `src/lufa` holds the whole library, of which this firmware
  builds a small part: other architectures, host mode, other device classes,
  bootloaders, demos and projects are not part of the program. By number of lines
  they are nearly all of `src`.
- **Control requests that only return data**, or are refused, change nothing the
  models have; `SetLineEncoding` with the old rate stands for them. Their waits in
  the interrupt delay the main loop, as all control requests do.
- **Halted endpoints.** Setting the halt feature makes the host stop fetching,
  and a wait that sees it gives up, as after a timeout; there is no state for it.
  Clearing it empties the bank and is modelled.
- **The first cycle** after power-on does not wait for the capacitor to charge:
  the code has no such wait, so there is nothing to state.
- **Contacts of the dial** chatter when they open and for at most the hold time,
  the condition under which `dial_scan` works and is proved; a measured dial could
  tell whether closing contacts chatter as well.
- The cylinder, the telephone, the receiver and the host are external; they are
  modelled from how the code uses them.
- Descriptors and options are constant tables; delay helpers are busy waits; the
  ring buffers are initialised and never used; `foo.py` is a terminal.
