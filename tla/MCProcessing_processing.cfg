CONSTANTS
    Weight <- MCWeight
    Scenario <- MCScenario
    OcrText <- MCOcrText
    Tags <- MCTags
    Entities <- MCEntities
    ocr_threshold = 2
    max_count = 2
    chunk_token_limit = 5
    overlap_tokens = 2
    section_length = 1000
SPECIFICATION FairSpec
INVARIANT ContentSearchable
INVARIANT SubtitlesFaithful
INVARIANT CleanedThroughout
INVARIANT SummaryReadsAll
INVARIANT DoneIsSaved
PROPERTY JobsEnd
