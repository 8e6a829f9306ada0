CONSTANTS
    Chains = {c1, c2}
    Addrs = {a1, a2}
    Keys = {k1}
    BadPoints = {}
    NoOwner = NoOwner
    h0 = h0
    Calls <- TwoCalls
    Batches <- TwoBatches
    Challenges <- TwoChallenges
    MaxBatchCalls = 2
    MaxNonce = 1
    MaxDepth = 5
    MaxSigned = 2
SPECIFICATION Spec
INVARIANTS
    EveryOutcomeSigned
    EffectsMatchLog
    LoginMeansLogin
PROPERTY
    LedgerImplemented
