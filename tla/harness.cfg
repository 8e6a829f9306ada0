CONSTANTS
    Chains = {devnode}
    Devnode = devnode
    Addrs <- TestNames
    Keys <- KeyPairs
    BadPoints = {}
    NoOwner = NoOwner
    Calls <- HarnessCalls
    Batches <- Nothing
    Challenges <- Nothing
    MaxBatchCalls = 2
    MaxNonce = 3
    MaxDepth = 3
    MaxSigned = 0
    MaxLines = 2
    MaxWords = 2
    MaxFaults = 2
SPECIFICATION HarnessSpec
INVARIANTS
    HarnessTypeOK
    PassMeansDone
    Isolated
    ExitTruthful
