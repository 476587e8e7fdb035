--------------------------- MODULE MCTaskGateway ---------------------------
(* Instances of TaskGateway for TLC.                                       *)
EXTENDS TaskGateway, TLC

CONSTANTS t1, t2, r1, h1, h2, res

(* An upload's task, and a second task created later for its resource.     *)
MCResourceOf == [t \in Task |-> r1]

MCReport(attempt) ==
    {[status |-> "running",   result |-> NoResult, error |-> FALSE, attempt |-> attempt],
     [status |-> "completed", result |-> res,      error |-> FALSE, attempt |-> attempt],
     [status |-> "failed",    result |-> NoResult, error |-> TRUE,  attempt |-> attempt]}

(* A worker's report carries its attempt; MarkRunning and friends do not.  *)
MCReportInput == MCReport(1) \cup {rep \in MCReport(NoAttempt) : rep.status = "running"}

Symmetry == Permutations(Handler)
=============================================================================
