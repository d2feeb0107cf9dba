SPECIFICATION PhoneSpec
CONSTANTS
    IMPULSE_HOLD = 3
    DIAL_HOLD = 4
    HANGUP_HOLD = 5
    CounterSize = 256
    Bounce = 3
    HookMin = 5
    MaxPulses = 10
INVARIANTS
    PhoneInv
    DigitsFaithful
    HookEventsTellPosition
