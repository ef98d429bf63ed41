SPECIFICATION Spec
CONSTANTS
    w1 = w1
    p1 = p1
    NoWriter = NoWriter
    Writers = {w1}
    Partitions = {p1}
    Payloads = {"event"}
    BatchSize = 2
    MaxRetries = 3
    PingAttempts = 1
    MaxOffset = 2
    MaxFaults = 1
    MaxRevokes = 0
INVARIANT ShutdownFlushes
