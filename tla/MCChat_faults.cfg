SPECIFICATION FairSpec
CONSTANTS
    Requests = 2
    Ask <- MCAsk
    aiBuffer = 1
    outBuffer = 1
    Socket = 1
    MaxParts = 1
    maxReconnectAttempts = 1
    MaxTurns = 1
    MaxFaults = 2
CHECK_DEADLOCK FALSE
INVARIANT AnswerSaved
PROPERTIES GoroutinesReleased InputReturns
