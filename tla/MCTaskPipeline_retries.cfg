\* One task uploaded and retried, two workers, no failed run retried by Celery.
CONSTANTS
    t1 = t1
    h1 = h1
    h2 = h2
    p1 = p1
    p2 = p2
    NoResult = 0
    Result = {1, 2}
    MaxRuns = 2
    Task = {t1}
    Resource = {t1}
    ResourceOf <- MCResourceOf
    AutoDispatch = {t1}
    Handler = {h1, h2}
    Proc = {p1, p2}
    MaxRetries = 3
    Faults = {}
    NetFaults = {}
    MaxFaults = 0
    MaxUploads = 1
    UserOverlap = FALSE
    Progress = {50}
    ReportInput <- WorkerReport
    ProgressInput = {50}
SPECIFICATION PipelineSpec
INVARIANTS FailedAfterAllAttempts
CHECK_DEADLOCK FALSE
