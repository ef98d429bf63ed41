SPECIFICATION Spec
CONSTANTS
    NanosPerMilli = 2
    TimeBits = 4
    NanoBits = 3
    StatusBits = 3
    Now = 5
    ZeroTime <- MCZeroTime
    EncMin <- MCEncMin
    EncMax = 9
    RESTInputs <- MCRESTInputs
    OTLPInputs <- MCOTLPInputs
CHECK_DEADLOCK FALSE
INVARIANTS
    WireFaithful
    UnencodableCause
    AttributePrecedence
    RESTRoundTrip
