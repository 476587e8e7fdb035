\* A client hangs up while an event is being published.
CONSTANTS
    t1 = t1
    s1 = s1
    s2 = s2
    s3 = s3
    h1 = h1
    h2 = h2
    res = res
    NoResult = NoResult
    Task = {t1}
    Result = {res}
    Stream = {s1}
    Publisher = {h1}
    maxSubscribers = 1
    subscriberBufSize = 4
    MaxEvents = 2
    Hangups = {"stream"}
SPECIFICATION Spec
INVARIANTS NoPanic
CHECK_DEADLOCK FALSE
