SPECIFICATION FairSpec
CONSTANTS
    w1 = w1
    p1 = p1
    NoWriter = NoWriter
    Modes <- AllModes
    KeyRequired = FALSE
    Writers = {w1}
    Partitions = {p1}
    BatchSize = 2
    MaxRetries = 2
    PingAttempts = 1
    MaxFaults = 2
    MaxRevokes = 0
INVARIANTS
    TypeOK
    SentIsNotLost
    OTLPNeedsREST
    RowsPerEvent
PROPERTIES
    SentIsStored
    ClientEnds
