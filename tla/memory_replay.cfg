SPECIFICATION Spec
CONSTANTS
    m1 = m1
    m2 = m2
    h1 = h1
    t1 = t1
    Messages = {m1, m2}
    Handlers = {h1}
    Topics = {t1}
    Subscriptions <- OneTopic
    MaxFailures = 0
CHECK_DEADLOCK FALSE
INVARIANT ReplayFirst
