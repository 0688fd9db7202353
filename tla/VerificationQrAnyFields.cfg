CONSTANTS
    e1 = e1
    e2 = e2
    None = None
    DecodeErrors <- MCDecodeErrors
    ByteBits = 1
    PrefixSize = 2
    KeyLen = 1
    MinSecretLen = 1
    QrCapacity = 12
    MaxFlowLen = 4
    MaxFieldLen = 2
    Modes = {0, 2, 3}
    MaxGrids = 3
SPECIFICATION Spec
INVARIANT QrRoundTripAnyFields
CHECK_DEADLOCK FALSE
