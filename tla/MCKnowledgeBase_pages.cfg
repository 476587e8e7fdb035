SPECIFICATION Spec
CONSTANTS
    Text <- MCText
    Score <- MCScore
    Bm25Score <- MCBm25Score
    Tokens <- MCTokens
    Job <- MCJob
    Documents <- MCDocuments
    Resource = {"pdf", "audio"}
    User = {"u", "v"}
    Earlier <- MCEarlier
    MaxRetries = 1
    MaxFaults = 2
    Search <- MCSearch
    Requests <- MCRequests
    ResourceOrder <- MCOrder
    EarlierIndexes <- MCEarlierIndexes
    top_k_limit = 2
    cache_max_entries = 1
    rrf_k = 1
    max_context_tokens = 3
CHECK_DEADLOCK FALSE
INVARIANT EveryPageIndexed
