SPECIFICATION Spec
CONSTANTS
    Requests = 2
    Ask <- MCAsk
    aiBuffer = 1
    outBuffer = 1
    Socket = 1
    MaxParts = 3
    maxReconnectAttempts = 0
    MaxTurns = 2
    MaxFaults = 0
CHECK_DEADLOCK FALSE
INVARIANTS AnswerFollowsQuestion ShownIsCollected
