SPECIFICATION Spec
CONSTANTS
    FieldPrime = 23
    OrderN = 17
    CurveB = 15
    GX = 1
    GY = 6
    WordSize = 32
    HalfOrder = 8
    Hashes = {0, 5, 20}
    NoOwner = NoOwner
    NoMsg = NoMsg
    MaxNonce = 1
INVARIANTS
    OwnerUsable
    OwnerSignaturesPass
    OneEncoding
