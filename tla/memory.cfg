SPECIFICATION PipeSpec
CONSTANTS
    m1 = m1
    m2 = m2
    h1 = h1
    h2 = h2
    t1 = t1
    t2 = t2
    Messages = {m1, m2}
    Handlers = {h1, h2}
    Topics = {t1, t2}
    Subscriptions <- MCSubscriptions
    MaxFailures = 4
SYMMETRY Symmetry
CHECK_DEADLOCK FALSE
INVARIANTS
    EachMessageOnce
    NothingSilentlyLost
