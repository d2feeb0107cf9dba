SPECIFICATION PhoneSpec
CONSTANTS
    IMPULSE_HOLD = 3
    DIAL_HOLD = 4
    HANGUP_HOLD = 5
    CounterSize = 256
    Bounce = 2
    HookMin = 1
    MaxPulses = 10
INVARIANTS
    HookEventsTellPosition
