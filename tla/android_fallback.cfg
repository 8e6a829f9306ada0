CONSTANTS
    Calls = {p, q, r}
    NoCall = NoCall
    NoNonce = NoNonce
    TTL = 1
    MaxTime = 2
    MaxForeign = 0
SPECIFICATION HSpec
CHECK_DEADLOCK FALSE
PROPERTY
    FallbackAfterTTL
