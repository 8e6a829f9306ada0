CONSTANTS
    Calls = {p, q, r}
    NoCall = NoCall
    NoNonce = NoNonce
    TTL = 0
    MaxTime = 1
    MaxForeign = 1
SPECIFICATION FairSpec
CHECK_DEADLOCK FALSE
INVARIANTS
    TypeOK
    NonceReachable
PROPERTIES
    EveryCallReturns
    CalmMeansApplied
