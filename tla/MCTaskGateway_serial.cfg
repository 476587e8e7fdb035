\* One request at a time on two tasks of one resource, statements may fail.
CONSTANTS
    t1 = t1
    t2 = t2
    r1 = r1
    h1 = h1
    h2 = h2
    res = res
    NoResult = NoResult
    Result = {res}
    Task = {t1, t2}
    Resource = {r1}
    ResourceOf <- MCResourceOf
    AutoDispatch = {t1}
    Handler = {h1}
    Faults = {"db"}
    ReportInput <- MCReportInput
    ProgressInput = {0, 50}
SPECIFICATION Spec
INVARIANTS NoObjectLeak ResourceAgrees
PROPERTIES AbstractSpec
