CONSTANTS
    Accounts = {a, b, x}
    Requests = {r1, r2, r3}
    Allowlist = {a, b}
    PerAccountBudgetWei = 11
    GlobalBudgetWei = 16
    PerAccountRequests = 2
    WindowMs = 1
    MaxTime = 2
    GasUses = {5, 20}
    MaxGas = 10
    Prices = {0, 1}
    MaxNonce = 1
    MaxRestarts = 0
    LostReplies = FALSE
    PriceRises = FALSE
SPECIFICATION Spec
SYMMETRY Posts
CHECK_DEADLOCK FALSE
INVARIANTS
    TypeOK
    BooksExact
    RateLimited
    NothingReplaced
    SpendingBounded
