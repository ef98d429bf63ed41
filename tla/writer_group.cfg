SPECIFICATION Spec
CONSTANTS
    w1 = w1
    w2 = w2
    p1 = p1
    NoWriter = NoWriter
    Writers = {w1, w2}
    Partitions = {p1}
    Payloads = {"event", "garbage"}
    BatchSize = 2
    MaxRetries = 2
    PingAttempts = 1
    MaxOffset = 3
    MaxFaults = 2
    MaxRevokes = 1
SYMMETRY Symmetry
INVARIANTS
    CommittedIsStored
    InFlightAccounted
    NeverSkipsPoison
    DuplicatesBounded
    MetricsHonest
PROPERTIES
    CommitMonotone
    ImplementsAtLeastOnce
