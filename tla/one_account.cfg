CONSTANTS
    Chains = {c1}
    Addrs = {a1}
    Keys = {k1, k2}
    BadPoints = {bad}
    NoOwner = NoOwner
    h0 = h0
    Calls <- OneCalls
    Batches <- OneBatches
    Challenges <- OneChallenges
    MaxBatchCalls = 2
    MaxNonce = 2
    MaxDepth = 5
    MaxSigned = 3
SPECIFICATION Spec
INVARIANTS
    TypeOK
    GuardExact
    LogInNonceOrder
    OwnLogFirst
    EachNonceOneOutcome
    EveryOutcomeSigned
    EffectsMatchLog
    OwnerRebuildable
PROPERTY
    LedgerImplemented
