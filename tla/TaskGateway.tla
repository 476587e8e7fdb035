---------------------------- MODULE TaskGateway ----------------------------
(***************************************************************************)
(* The gateway's task and resource rows and the HTTP handlers that change  *)
(* them: file upload, task creation, manual retry, and the status and      *)
(* progress reports of the AI service.  Every handler runs in a goroutine  *)
(* of its own and talks to MySQL one statement at a time, with no row lock *)
(* and no compare-and-set; each statement is one action here, so handlers  *)
(* of the same task interleave between a read and the write based on it.   *)
(*                                                                         *)
(* The callers are left open: any report may arrive at any time.           *)
(* TaskPipeline closes the system with the Celery workers.                 *)
(***************************************************************************)
EXTENDS TaskRow

CONSTANTS
    Resource,       \* resource ids
    ResourceOf,     \* the resource a task belongs to
    AutoDispatch,   \* the tasks of type media_parse or pdf_parse
    Handler,        \* request goroutines
    Faults          \* faults the environment may inject

ASSUME GatewayAssumption ==
    /\ ResourceOf \in [Task -> Resource]
    /\ AutoDispatch \subseteq Task
    /\ Faults \subseteq {"db",         \* a statement that the handler depends on fails
                       "resource",   \* the resource update of a report fails
                       "minio",      \* RemoveObject fails
                       "crash"}      \* the gateway process dies

VARIABLES
    created,    \* tasks whose row exists
    tasks,      \* the rows (NewRow while the task does not exist)
    resources,  \* resources.status, 0 when there is no row
    objects,    \* resources whose file is in the object store
    cooled,     \* has retryCooldown passed since the row's updated_at?
    handler     \* what every request goroutine is doing

gatewayVars == <<created, tasks, resources, objects, cooled, handler>>

Idle        == [op |-> "idle"]
UploadReq   == [op : {"upload"}, pc : {"resource", "task", "dispatch", "mark"},
                task : Task]
CreateReq   == [op : {"create"}, pc : {"dispatch"}, task : Task]
RetryReq    == [op : {"retry"}, pc : {"reset", "dispatch"}, task : Task]
StatusReq   == [op : {"status"}, pc : {"write", "resource", "publish"},
                task : Task, seen : Status, progress : 0..100, rep : Report]
ProgressReq == [op : {"progress"}, pc : {"write"}, task : Task, progress : 0..100]
Request     == {Idle} \cup UploadReq \cup CreateReq \cup RetryReq
                      \cup StatusReq \cup ProgressReq

TypeOK ==
    /\ created \in SUBSET Task
    /\ tasks \in [Task -> Row]
    /\ resources \in [Resource -> ResourceStatus]
    /\ objects \in SUBSET Resource
    /\ cooled \in [Task -> BOOLEAN]
    /\ handler \in [Handler -> Request]

Init ==
    /\ created = {}
    /\ tasks = [t \in Task |-> NewRow]
    /\ resources = [r \in Resource |-> 0]
    /\ objects = {}
    /\ cooled = [t \in Task |-> FALSE]
    /\ handler = [h \in Handler |-> Idle]

-----------------------------------------------------------------------------
At(h, op, pc) == handler[h].op = op /\ handler[h].pc = pc
Goto(h, pc)   == handler' = [handler EXCEPT ![h].pc = pc]
Return(h)     == handler' = [handler EXCEPT ![h] = Idle]
Begin(h, req) == /\ handler[h] = Idle
                 /\ handler' = [handler EXCEPT ![h] = req]

(* Every UPDATE of a row moves updated_at and so restarts the cooldown.    *)
WriteRow(t, row) == /\ tasks' = [tasks EXCEPT ![t] = row]
                    /\ cooled' = [cooled EXCEPT ![t] = FALSE]

-----------------------------------------------------------------------------
(* Mutant: the resource row is not created.                                *)
UploadPut_SkipResource(h, t) ==
    /\ t \notin created
    /\ resources[ResourceOf[t]] = 0 /\ ResourceOf[t] \notin objects
    /\ Begin(h, [op |-> "upload", pc |-> "task", task |-> t])
    /\ objects' = objects \cup {ResourceOf[t]}
    /\ UNCHANGED <<created, tasks, resources, cooled>>

(* FileService.Upload, after the validations: the object is stored first.  *)
UploadPut(h, t) ==
    /\ t \notin created
    /\ resources[ResourceOf[t]] = 0 /\ ResourceOf[t] \notin objects    \* a fresh uuid
    /\ Begin(h, [op |-> "upload", pc |-> "resource", task |-> t])
    /\ objects' = objects \cup {ResourceOf[t]}
    /\ UNCHANGED <<created, tasks, resources, cooled>>

UploadCreateResource(h) ==
    /\ At(h, "upload", "resource")
    /\ resources' = [resources EXCEPT ![ResourceOf[handler[h].task]] = 1]
    /\ Goto(h, "task")
    /\ UNCHANGED <<created, tasks, objects, cooled>>

(* The error of RemoveObject is ignored.                                   *)
RemoveObject(r) ==
    \/ objects' = objects \ {r}
    \/ "minio" \in Faults /\ UNCHANGED objects

UploadResourceFails(h) ==
    /\ "db" \in Faults
    /\ At(h, "upload", "resource")
    /\ RemoveObject(ResourceOf[handler[h].task])
    /\ Return(h)
    /\ UNCHANGED <<created, tasks, resources, cooled>>

InsertTask(t) ==
    /\ created' = created \cup {t}
    /\ WriteRow(t, NewRow)

UploadCreateTask(h) ==
    LET t == handler[h].task IN
    /\ At(h, "upload", "task")
    /\ InsertTask(t)
    /\ IF t \in AutoDispatch THEN Goto(h, "dispatch") ELSE Return(h)
    /\ UNCHANGED <<resources, objects>>

(* Mutant: the stored object is forgotten when the task insert fails.      *)
UploadTaskFails_NoRollback(h) ==
    /\ "db" \in Faults
    /\ At(h, "upload", "task")
    /\ Return(h)
    /\ UNCHANGED <<created, tasks, resources, objects, cooled>>

(* The object is removed; the resource row stays as it is.                 *)
UploadTaskFails(h) ==
    /\ "db" \in Faults
    /\ At(h, "upload", "task")
    /\ RemoveObject(ResourceOf[handler[h].task])
    /\ Return(h)
    /\ UNCHANGED <<created, tasks, resources, cooled>>

(* TaskDispatcher.Dispatch seen from its three callers: an upload goes on  *)
(* to mark the task failed, Create and Retry leave it pending.             *)
Dispatch(h, accepted) ==
    /\ handler[h].op \in {"upload", "create", "retry"}
    /\ handler[h].pc = "dispatch"
    /\ IF ~accepted /\ handler[h].op = "upload" THEN Goto(h, "mark") ELSE Return(h)
    /\ UNCHANGED <<created, tasks, resources, objects, cooled>>

(* Written without a look at the current status.                           *)
UploadMarkFailed(h) ==
    LET t == handler[h].task IN
    /\ At(h, "upload", "mark")
    /\ WriteRow(t, UpdateStatus(tasks[t], "failed", 0, NoResult, TRUE))
    /\ Return(h)
    /\ UNCHANGED <<created, resources, objects>>

-----------------------------------------------------------------------------
(* TaskService.Create for an existing resource.                            *)
CreateTask(h, t) ==
    /\ t \notin created
    /\ resources[ResourceOf[t]] # 0
    /\ \A g \in Handler : handler[g] # Idle => handler[g].task # t    \* a fresh uuid
    /\ InsertTask(t)
    /\ IF t \in AutoDispatch
       THEN Begin(h, [op |-> "create", pc |-> "dispatch", task |-> t])
       ELSE handler[h] = Idle /\ UNCHANGED handler
    /\ UNCHANGED <<resources, objects>>

-----------------------------------------------------------------------------
(* Mutant: any task may be retried.                                        *)
RetryRead_AnyStatus(h, t) ==
    /\ t \in created
    /\ cooled[t]
    /\ Begin(h, [op |-> "retry", pc |-> "reset", task |-> t])
    /\ UNCHANGED <<created, tasks, resources, objects, cooled>>

(* TaskService.Retry: the checks are made on a row read earlier than the   *)
(* reset.                                                                  *)
RetryRead(h, t) ==
    /\ t \in created
    /\ tasks[t].status \in {"failed", "completed"}
    /\ cooled[t]
    /\ Begin(h, [op |-> "retry", pc |-> "reset", task |-> t])
    /\ UNCHANGED <<created, tasks, resources, objects, cooled>>

RetryReset(h) ==
    LET t == handler[h].task IN
    /\ At(h, "retry", "reset")
    /\ WriteRow(t, ResetForRetry(tasks[t]))
    /\ IF t \in AutoDispatch THEN Goto(h, "dispatch") ELSE Return(h)
    /\ UNCHANGED <<created, resources, objects>>

-----------------------------------------------------------------------------
(* ProcessInternalStatusUpdate: read and check ...                         *)
StatusRead(h, t, rep) ==
    /\ t \in created
    /\ canTransition(tasks[t].status, rep.status)
    /\ Begin(h, [op |-> "status", pc |-> "write", task |-> t,
                 seen |-> tasks[t].status, progress |-> tasks[t].progress,
                 rep |-> rep])
    /\ UNCHANGED <<created, tasks, resources, objects, cooled>>

(* ... or reject (TASK_NOT_FOUND, INVALID_STATE_TRANSITION) ...            *)
StatusReject(h, t, rep) ==
    /\ handler[h] = Idle
    /\ t \notin created \/ ~canTransition(tasks[t].status, rep.status)
    /\ UNCHANGED gatewayVars

(* ... write unconditionally ...                                           *)
StatusWrite(h) ==
    LET t == handler[h].task IN
    /\ At(h, "status", "write")
    /\ WriteRow(t, applyReport(tasks[t], handler[h].rep, handler[h].progress))
    /\ Goto(h, "resource")
    /\ UNCHANGED <<created, resources, objects>>

(* Mutant: the resource is left alone when a task fails.                   *)
StatusResource_SkipFailed(h) ==
    LET r == ResourceOf[handler[h].task]
        s == handler[h].rep.status
    IN
    /\ At(h, "status", "resource")
    /\ \/ resources' = [resources EXCEPT
              ![r] = IF s = "failed" THEN @ ELSE taskStatusToResourceStatus(s)]
       \/ "resource" \in Faults /\ UNCHANGED resources
    /\ Goto(h, "publish")
    /\ UNCHANGED <<created, tasks, objects, cooled>>

(* ... carry the status over to the resource (an error is only logged) ... *)
StatusResource(h) ==
    LET r == ResourceOf[handler[h].task] IN
    /\ At(h, "status", "resource")
    /\ \/ resources' = [resources EXCEPT
              ![r] = taskStatusToResourceStatus(handler[h].rep.status)]
       \/ "resource" \in Faults /\ UNCHANGED resources
    /\ Goto(h, "publish")
    /\ UNCHANGED <<created, tasks, objects, cooled>>

(* ... then publish the event and, for a completed task, ask the AI        *)
(* service for a summary and for tags.  None of it changes a row.          *)
StatusPublish(h) ==
    /\ At(h, "status", "publish")
    /\ Return(h)
    /\ UNCHANGED <<created, tasks, resources, objects, cooled>>

-----------------------------------------------------------------------------
(* TaskService.UpdateProgress: only a running task, checked on a row read  *)
(* before the write.  A progress of 0 is refused by the request binding.   *)
ProgressRead(h, t, progress) ==
    /\ t \in created
    /\ progress # 0
    /\ tasks[t].status = "running"
    /\ Begin(h, [op |-> "progress", pc |-> "write", task |-> t, progress |-> progress])
    /\ UNCHANGED <<created, tasks, resources, objects, cooled>>

ProgressReject(h, t, progress) ==
    /\ handler[h] = Idle
    /\ t \notin created \/ tasks[t].status # "running" \/ progress = 0
    /\ UNCHANGED gatewayVars

ProgressWrite(h) ==
    LET t == handler[h].task IN
    /\ At(h, "progress", "write")
    /\ WriteRow(t, UpdateProgress(tasks[t], handler[h].progress))
    /\ Return(h)
    /\ UNCHANGED <<created, resources, objects>>

-----------------------------------------------------------------------------
(* A statement fails (or the request context is cancelled): the handlers   *)
(* that return the error, or only log it, stop there.                      *)
DbError(h) ==
    /\ "db" \in Faults
    /\ \/ At(h, "upload", "mark")
       \/ At(h, "retry", "reset")
       \/ At(h, "status", "write")
       \/ At(h, "progress", "write")
    /\ Return(h)
    /\ UNCHANGED <<created, tasks, resources, objects, cooled>>

CooldownElapses(t) ==
    /\ t \in created /\ ~cooled[t]
    /\ cooled' = [cooled EXCEPT ![t] = TRUE]
    /\ UNCHANGED <<created, tasks, resources, objects, handler>>

(* The gateway process dies and is restarted: every request is gone.       *)
GatewayCrash ==
    /\ "crash" \in Faults
    /\ handler' = [h \in Handler |-> Idle]
    /\ UNCHANGED <<created, tasks, resources, objects, cooled>>

-----------------------------------------------------------------------------
(* The steps of a handler that wait for nobody.                            *)
HandlerStep(h) ==
    \/ UploadCreateResource(h)
    \/ UploadResourceFails(h)
    \/ UploadCreateTask(h)
    \/ UploadTaskFails(h)
    \/ UploadMarkFailed(h)
    \/ RetryReset(h)
    \/ StatusWrite(h)
    \/ StatusResource(h)
    \/ StatusPublish(h)
    \/ ProgressWrite(h)
    \/ DbError(h)

UserRequest(h, t) ==
    \/ UploadPut(h, t)
    \/ CreateTask(h, t)
    \/ RetryRead(h, t)

CONSTANTS
    ReportInput,    \* the reports the environment sends, a subset of Report
    ProgressInput   \* the progress values it sends

(* Only a completed report carries a result (BaseAITask.on_success).       *)
ASSUME InputAssumption ==
    /\ ReportInput \subseteq Report
    /\ \A rep \in ReportInput : rep.result # NoResult => rep.status = "completed"
    /\ ProgressInput \subseteq 0..100

Next ==
    \/ \E h \in Handler :
        \/ HandlerStep(h)
        \/ \E accepted \in BOOLEAN : Dispatch(h, accepted)
        \/ \E t \in Task :
            \/ UserRequest(h, t)
            \/ \E rep \in ReportInput :
                  StatusRead(h, t, rep) \/ StatusReject(h, t, rep)
            \/ \E p \in ProgressInput :
                  ProgressRead(h, t, p) \/ ProgressReject(h, t, p)
    \/ \E t \in Task : CooldownElapses(t)
    \/ GatewayCrash

Spec == Init /\ [][Next]_gatewayVars

-----------------------------------------------------------------------------
(* PROPERTIES                                                              *)

Coherent(row) ==
    /\ row.result # NoResult => row.status = "completed"
    /\ row.status \in {"completed", "failed"} => row.finished
    /\ row.status = "running" => row.started
    /\ row.status = "pending" => ~row.error /\ ~row.finished /\ row.retry_count = 0

(* A row always tells one story, whatever the interleaving of handlers:    *)
(* only a completed task carries a result, a finished one has its          *)
(* completed_at, and a pending one (new or reset by Retry) carries neither *)
(* result, error, completed_at nor an attempt count of an earlier run.     *)
RowCoherent == \A t \in Task : Coherent(tasks[t])

(* A task is completed or processed only after a worker reported that it   *)
(* started, even when reports race with each other, with a retry or with   *)
(* the upload's own failure mark: no path skips "running".                 *)
CompletedWasStarted ==
    \A t \in created : tasks[t].status = "completed" => tasks[t].started

(* A task row never exists without its resource row: an upload creates     *)
(* them in that order and nothing else inserts a task for a missing one.   *)
TaskHasResource ==
    \A t \in created : resources[ResourceOf[t]] # 0

Uploading(r) ==
    \E h \in Handler : handler[h].op = "upload" /\ ResourceOf[handler[h].task] = r

(* A failed upload leaves no file behind: an object with no upload in      *)
(* flight belongs to a resource that has a row and at least one task       *)
(* (Upload's RemoveObject on both error paths).                            *)
NoObjectLeak ==
    \A r \in objects :
        Uploading(r) \/ (resources[r] # 0 /\ \E t \in created : ResourceOf[t] = r)

(* What the handlers implement when they do not overlap.                   *)
Abstract == INSTANCE TaskStatus WITH
    status <- [t \in Task |-> IF t \in created THEN tasks[t].status ELSE "none"]
AbstractSpec == Abstract!Spec

(* With one request at a time and resource updates that succeed, the       *)
(* status of a resource follows that of its only task; an upload that      *)
(* could not be dispatched leaves it at "uploading" beside a failed task.  *)
ResourceAgrees ==
    \A t \in created :
        (/\ \A h \in Handler : handler[h] = Idle
         /\ \A u \in created : ResourceOf[u] = ResourceOf[t] => u = t) =>
            LET r == resources[ResourceOf[t]] IN
            /\ tasks[t].status = "running"   => r = 2
            /\ tasks[t].status = "completed" => r = 3
            /\ tasks[t].status = "failed"    => r \in {1, 4}
            /\ tasks[t].status = "pending"   => r \in {1, 3, 4}
=============================================================================
