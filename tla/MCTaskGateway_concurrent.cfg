\* Two requests at a time on one task, every fault.
CONSTANTS
    t1 = t1
    t2 = t2
    r1 = r1
    h1 = h1
    h2 = h2
    res = res
    NoResult = NoResult
    Result = {res}
    Task = {t1}
    Resource = {r1}
    ResourceOf <- MCResourceOf
    AutoDispatch = {t1}
    Handler = {h1, h2}
    Faults = {"db", "resource", "minio", "crash"}
    ReportInput <- MCReportInput
    ProgressInput = {0, 50}
SPECIFICATION Spec
SYMMETRY Symmetry
INVARIANTS TypeOK RowCoherent CompletedWasStarted TaskHasResource
