------------------------------ MODULE TaskRow ------------------------------
(***************************************************************************)
(* The `tasks` row of the gateway and the pure rules the gateway applies   *)
(* to it: the status machine of task_service.go and the UPDATE statements  *)
(* of task_repository.go.  Timestamps are kept as "is it set"; the result  *)
(* and the error text are kept as "which payload" and "is there one".      *)
(***************************************************************************)
EXTENDS Integers

CONSTANTS
    Task,       \* task ids
    Result,     \* result payloads a worker may report
    NoResult    \* the NULL result column

ASSUME ResultAssumption == NoResult \notin Result

Status == {"pending", "running", "completed", "failed"}

(* The statuses the internal API accepts (binding oneof).                  *)
ReportStatus == {"running", "completed", "failed"}

(* An absent attempt_count in a status report (a nil *uint8).              *)
NoAttempt == -1

Row == [status      : Status,
        progress    : 0..100,
        retry_count : 0..255,
        result      : Result \cup {NoResult},
        error       : BOOLEAN,     \* error_message # ""
        started     : BOOLEAN,     \* started_at    # NULL
        finished    : BOOLEAN]     \* completed_at  # NULL

(* The row a new task is inserted with.                                    *)
NewRow == [status |-> "pending", progress |-> 0, retry_count |-> 0,
           result |-> NoResult, error |-> FALSE,
           started |-> FALSE, finished |-> FALSE]

(* An AI Service status report: the body of POST /internal/tasks/:id/status *)
Report == [status  : ReportStatus,
           result  : Result \cup {NoResult},
           error   : BOOLEAN,
           attempt : {NoAttempt} \cup 0..255]

-----------------------------------------------------------------------------
(* Mutant: a report may complete a task that never ran.                    *)
canTransition_FromPending(from, to) ==
    \/ from = "pending"   /\ to \in {"running", "completed"}
    \/ from = "running"   /\ to \in {"running", "completed", "failed"}
    \/ from = "failed"    /\ to = "running"

(* Mutant: a completed task accepts another running report.                *)
canTransition_Reopen(from, to) ==
    \/ from \in {"pending", "completed"} /\ to = "running"
    \/ from = "running"   /\ to \in {"running", "completed", "failed"}
    \/ from = "failed"    /\ to = "running"

(* Mutant: a running task refuses to be failed.                            *)
canTransition_NeverFails(from, to) ==
    \/ from = "pending"   /\ to = "running"
    \/ from = "running"   /\ to \in {"running", "completed"}
    \/ from = "failed"    /\ to = "running"

canTransition(from, to) ==
    \/ from = "pending"   /\ to = "running"
    \/ from = "running"   /\ to \in {"running", "completed", "failed"}
    \/ from = "failed"    /\ to = "running"

(* The progress a status report writes; a running report keeps the value   *)
(* that was READ with the row, which may be stale when it is written.      *)
reportProgress(status, seen) ==
    CASE status = "running"   -> seen
      [] status = "completed" -> 100
      [] OTHER                -> 0

(* Mutant: the result column is only overwritten when there is a result.   *)
UpdateStatus_KeepResult(row, status, progress, result, error) ==
    [row EXCEPT !.status   = status,
                !.progress = progress,
                !.result   = IF result = NoResult THEN @ ELSE result,
                !.error    = @ \/ error,
                !.started  = @ \/ status = "running",
                !.finished = @ \/ status \in {"completed", "failed"}]

(* The UPDATE of UpdateStatus: result is always written, error_message     *)
(* only when non-empty, the timestamps depending on the new status.        *)
UpdateStatus(row, status, progress, result, error) ==
    [status      |-> status,
     progress    |-> progress,
     retry_count |-> row.retry_count,
     result      |-> result,
     error       |-> row.error \/ error,
     started     |-> row.started \/ status = "running",
     finished    |-> row.finished \/ status \in {"completed", "failed"}]

(* Mutant: the variant with the attempt count forgets the result column.   *)
UpdateStatusWithAttempt_NoResult(row, status, progress, result, error, attempt) ==
    [UpdateStatus(row, status, progress, NoResult, error)
        EXCEPT !.retry_count = attempt]

UpdateStatusWithAttempt(row, status, progress, result, error, attempt) ==
    [UpdateStatus(row, status, progress, result, error)
        EXCEPT !.retry_count = attempt]

(* A manual retry clears everything but started_at.                        *)
ResetForRetry(row) == [NewRow EXCEPT !.started = row.started]

UpdateProgress(row, progress) == [row EXCEPT !.progress = progress]

(* What ProcessInternalStatusUpdate writes for a report, given the         *)
(* progress it read earlier.                                               *)
applyReport(row, rep, seen) ==
    IF rep.attempt # NoAttempt
    THEN UpdateStatusWithAttempt(row, rep.status, reportProgress(rep.status, seen),
                                 rep.result, rep.error, rep.attempt)
    ELSE UpdateStatus(row, rep.status, reportProgress(rep.status, seen),
                      rep.result, rep.error)

(* resources.status: 1 uploading, 2 processing, 3 completed, 4 failed;     *)
(* 0 stands for "no row" here.                                             *)
ResourceStatus == 0..4

(* Mutant: the labels are shifted by one.                                  *)
taskStatusToResourceStatus_Shifted(status) ==
    CASE status = "running"   -> 3
      [] status = "completed" -> 4
      [] status = "failed"    -> 5
      [] OTHER                -> 0

taskStatusToResourceStatus(status) ==
    CASE status = "running"   -> 2
      [] status = "completed" -> 3
      [] status = "failed"    -> 4
      [] OTHER                -> 0
=============================================================================
