SPECIFICATION Spec
CONSTANTS
    Deadline = 3
    DefaultInterval = 12
    DefaultBatch = 6
    IntervalSettings <- MCIntervals
    BatchSettings <- MCBatches
INVARIANTS
    WaitBounded
    QuietFlushed
    TimerInv
