SPECIFICATION Spec
CONSTANTS
    w1 = w1
    p1 = p1
    p2 = p2
    NoWriter = NoWriter
    Writers = {w1}
    Partitions = {p1, p2}
    Payloads = {"event", "refused"}
    BatchSize = 3
    MaxRetries = 2
    PingAttempts = 2
    MaxOffset = 2
    MaxFaults = 2
    MaxRevokes = 1
SYMMETRY Symmetry
INVARIANTS
    IndInv
