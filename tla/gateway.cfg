SPECIFICATION FairSpec
CONSTANTS
    r1 = r1
    r2 = r2
    Requests = {r1, r2}
    Inputs <- MCInputs
    MaxRecords = 2
    KeyRequired = TRUE
    MaxFaults = 2
INVARIANTS
    AckIsDurable
    RejectedLeavesNoTrace
    PublishedPrefix
    MetricsMatchReplies
    DrainedBeforeClose
PROPERTIES
    ClosedBusIsQuiet
    ShutdownCompletes
    EveryRequestEnds
