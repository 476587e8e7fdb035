\* Two streams for one place; clients and workers hang up, readers may be stuck.
CONSTANTS
    t1 = t1
    s1 = s1
    s2 = s2
    s3 = s3
    h1 = h1
    h2 = h2
    res = res
    NoResult = NoResult
    Task = {t1}
    Result = {res}
    Stream = {s1, s2}
    Publisher = {h1, h2}
    maxSubscribers = 1
    subscriberBufSize = 2
    MaxEvents = 3
    Hangups = {"stream", "report"}
SPECIFICATION FairSpec
INVARIANT SubscriptionsSound
PROPERTIES PublisherNeverBlocked SubscriptionReleased TerminalEventEndsStream
CHECK_DEADLOCK FALSE
