SPECIFICATION MCSpec
CONSTANTS
    r1 = r1
    r2 = r2
    Requests <- AllRequests
    Guided <- One
    NumOutputs = 2
    MaxBeats = 1
    Faults <- AllFaults
    TokenBytes <- MCTokenBytes
    SpecialIds <- MCSpecialIds
    EosId = 1
    TextPrompts <- MCTextPrompts
    TextParams <- MCTextParams
    TextModelLen = 8
    InitialOffset = 2
INVARIANTS RequestsAreTracked TextIsRight
PROPERTIES ClientGoesOn
CHECK_DEADLOCK FALSE
