CONSTANTS
    Calls = {p, q}
    NoNonce = NoNonce
    TTL = 1
    MaxTime = 0
    MaxForeign = 0
SPECIFICATION Spec
CHECK_DEADLOCK FALSE
PROPERTY
    OverlappingCallsApplied
