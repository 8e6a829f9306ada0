CONSTANTS
    Accounts = {a, x}
    Requests = {r1, r2, r3}
    Allowlist = {a}
    PerAccountBudgetWei = 18
    GlobalBudgetWei = 18
    PerAccountRequests = 2
    WindowMs = 1
    MaxTime = 1
    GasUses = {5}
    MaxGas = 10
    Prices = {1}
    MaxNonce = 1
    MaxRestarts = 1
    LostReplies = TRUE
    PriceRises = TRUE
SPECIFICATION FairSpec
CHECK_DEADLOCK FALSE
INVARIANTS
    RateLimited
    NothingReplaced
PROPERTY
    EveryRequestAnswered
