SPECIFICATION FairSpec
CONSTANTS
    t1 = t1
    t2 = t2
    Topics = {t1, t2}
    MaxMessages = 2
    MaxCalls = 2
    MaxFaults = 2
    HandlerErrors = {"failure", "canceled"}
    FetchErrors = {"fatal", "timeout"}
CHECK_DEADLOCK FALSE
INVARIANTS
    CommittedIsHandled
    QuietAfterReturn
    ResultIsGenuine
PROPERTIES
    EndsWhenCancelled
    FailureStopsAll
    TopicsServed
