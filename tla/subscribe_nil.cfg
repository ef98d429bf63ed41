SPECIFICATION Spec
CONSTANTS
    t1 = t1
    Topics = {t1}
    MaxMessages = 1
    MaxCalls = 1
    MaxFaults = 1
    HandlerErrors = {"failure"}
    FetchErrors = {"fatal"}
CHECK_DEADLOCK FALSE
INVARIANT UntilCancelled
