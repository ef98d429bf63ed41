SPECIFICATION FairSpec
CONSTANTS
    w1 = w1
    w2 = w2
    p1 = p1
    NoWriter = NoWriter
    Writers = {w1, w2}
    Partitions = {p1}
    Payloads = {"event"}
    BatchSize = 2
    MaxRetries = 2
    PingAttempts = 1
    MaxOffset = 2
    MaxFaults = 1
    MaxRevokes = 1
PROPERTIES
    EventuallyStored
    EventuallyCommitted
    ShutdownCompletes
