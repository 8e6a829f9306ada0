CONSTANTS
    Calls = {p, q, r}
    NoNonce = NoNonce
    TTL = 1
    MaxTime = 3
    MaxForeign = 1
SPECIFICATION Spec
SYMMETRY AnyOrder
CHECK_DEADLOCK FALSE
INVARIANT
    TypeOK
PROPERTY
    SerialCallsApplied
