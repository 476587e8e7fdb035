SPECIFICATION FairSpec
CONSTANTS
    Req <- MCReq
    Scenario <- MCScenario
    Text = {1, 2}
    Raw <- MCRaw
    MaxChunks <- MCMaxChunks
    Found <- MCFound
    max_citations = 8
    rate_limit = 1
CHECK_DEADLOCK FALSE
INVARIANTS StreamWellFormed CitationsGrounded RememberedWasShown NextTurnRemembers
PROPERTY StreamContract
