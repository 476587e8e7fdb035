-------------------------- MODULE TaskGatewayProofs --------------------------
(***************************************************************************)
(* Proofs about TaskGateway, for any number of tasks, resources, handlers  *)
(* and reports: with every fault, then for one request at a time.          *)
(***************************************************************************)
EXTENDS TaskGateway, TLAPS

-----------------------------------------------------------------------------
(* The operators on rows return rows.                                      *)

(* UpdateStatus yields a well-typed row.                                   *)
LEMMA UpdateStatusType ==
    ASSUME NEW row \in Row, NEW status \in Status, NEW progress \in 0..100,
           NEW result \in Result \cup {NoResult}, NEW error \in BOOLEAN
    PROVE  UpdateStatus(row, status, progress, result, error) \in Row
<1>1. /\ (row.error \/ error) \in BOOLEAN
      /\ (row.started \/ status = "running") \in BOOLEAN
      /\ (row.finished \/ status \in {"completed", "failed"}) \in BOOLEAN
  OBVIOUS
<1> QED
  BY <1>1 DEF UpdateStatus, Row

(* So does a report, whichever of the two UPDATEs it takes.                *)
LEMMA ApplyReportType ==
    ASSUME NEW row \in Row, NEW rep \in Report, NEW seen \in 0..100
    PROVE  applyReport(row, rep, seen) \in Row
<1> DEFINE prog == reportProgress(rep.status, seen)
           upd  == UpdateStatus(row, rep.status, prog, rep.result, rep.error)
<1>1. /\ rep.status \in Status /\ rep.status \in ReportStatus
      /\ rep.result \in Result \cup {NoResult} /\ rep.error \in BOOLEAN
      /\ rep.attempt # NoAttempt => rep.attempt \in 0..255
  BY DEF Report, ReportStatus, Status
<1>2. prog \in 0..100
  BY <1>1 DEF reportProgress, ReportStatus
<1>3. upd \in Row
  BY <1>1, <1>2, UpdateStatusType
<1>4. rep.attempt \in 0..255 => [upd EXCEPT !.retry_count = rep.attempt] \in Row
  BY <1>3 DEF Row
<1> QED
  BY <1>1, <1>3, <1>4 DEF applyReport, UpdateStatusWithAttempt
 
(* ResetForRetry, UpdateProgress and the initial row.                      *)
LEMMA OtherRowTypes ==
    /\ NewRow \in Row
    /\ \A row \in Row : ResetForRetry(row) \in Row
    /\ \A row \in Row, p \in 0..100 : UpdateProgress(row, p) \in Row
<1>1. NewRow \in Row
  BY DEF NewRow, Row, Status
<1>2. \A row \in Row : ResetForRetry(row) \in Row
  BY <1>1 DEF Row, ResetForRetry
<1>3. \A row \in Row, p \in 0..100 : UpdateProgress(row, p) \in Row
  BY DEF Row, UpdateProgress
<1> QED BY <1>1, <1>2, <1>3

-----------------------------------------------------------------------------
(* Facts about the handler table.                                          *)

(* The op of a request tells which of the record types it belongs to.      *)
LEMMA RequestShape ==
    ASSUME NEW q \in Request
    PROVE  /\ q.op = "upload" => q \in UploadReq
           /\ q.op = "create" => q \in CreateReq
           /\ q.op = "retry" => q \in RetryReq
           /\ q.op = "status" => q \in StatusReq
           /\ q.op = "progress" => q \in ProgressReq
           /\ q # Idle => q.task \in Task
BY DEF Request, Idle, UploadReq, CreateReq, RetryReq, StatusReq, ProgressReq

(* The pc of a request moves within its type.                              *)
LEMMA GotoType ==
    ASSUME TypeOK, NEW h \in Handler, NEW pc, Goto(h, pc),
           \/ handler[h].op = "upload" /\ pc \in {"task", "dispatch", "mark"}
           \/ handler[h].op = "retry" /\ pc = "dispatch"
           \/ handler[h].op = "status" /\ pc \in {"resource", "publish"}
    PROVE  handler' \in [Handler -> Request]
<1>1. handler[h] \in Request
  BY DEF TypeOK
<1>2. [handler[h] EXCEPT !.pc = pc] \in Request
  <2>1. CASE handler[h].op = "upload"
    <3>1. [handler[h] EXCEPT !.pc = pc] \in UploadReq
      BY <1>1, <2>1, RequestShape DEF UploadReq
    <3> QED BY <3>1 DEF Request
  <2>2. CASE handler[h].op = "retry"
    <3>1. [handler[h] EXCEPT !.pc = pc] \in RetryReq
      BY <1>1, <2>2, RequestShape DEF RetryReq
    <3> QED BY <3>1 DEF Request
  <2>3. CASE handler[h].op = "status"
    <3>1. [handler[h] EXCEPT !.pc = pc] \in StatusReq
      BY <1>1, <2>3, RequestShape DEF StatusReq
    <3> QED BY <3>1 DEF Request
  <2> QED BY <2>1, <2>2, <2>3
<1> QED
  BY <1>2 DEF TypeOK, Goto

(* A request that returns, or one that begins.                             *)
LEMMA ReturnType ==
    ASSUME TypeOK, NEW h \in Handler, Return(h)
    PROVE  handler' \in [Handler -> Request]
BY DEF TypeOK, Return, Request

LEMMA BeginType ==
    ASSUME TypeOK, NEW h \in Handler, NEW q \in Request, Begin(h, q)
    PROVE  handler' \in [Handler -> Request]
BY DEF TypeOK, Begin

(* WriteRow keeps the tables typed.                                        *)
LEMMA WriteRowType ==
    ASSUME TypeOK, NEW t \in Task, NEW row \in Row, WriteRow(t, row)
    PROVE  tasks' \in [Task -> Row] /\ cooled' \in [Task -> BOOLEAN]
BY DEF TypeOK, WriteRow

-----------------------------------------------------------------------------
(* Every step keeps the types.                                             *)
LEMMA TypeStep ==
    ASSUME TypeOK, [Next]_gatewayVars
    PROVE  TypeOK'
<1> USE GatewayAssumption
<1>1. ASSUME NEW h \in Handler, HandlerStep(h)
      PROVE  TypeOK'
  <2>0. handler[h] \in Request /\ (handler[h] # Idle => handler[h].task \in Task)
    BY RequestShape DEF TypeOK
  <2>t. ASSUME handler[h].op # "idle" PROVE handler[h].task \in Task
    BY <2>0, <2>t DEF Idle
  <2>1. CASE UploadCreateResource(h)
    <3>1. handler' \in [Handler -> Request]
      BY <2>1, GotoType DEF UploadCreateResource, At
    <3> QED BY <2>1, <2>t, <3>1 DEF UploadCreateResource, At, TypeOK, ResourceStatus
  <2>2. CASE UploadResourceFails(h)
    <3>1. handler' \in [Handler -> Request]
      BY <2>2, ReturnType DEF UploadResourceFails
    <3> QED BY <2>2, <3>1 DEF UploadResourceFails, RemoveObject, TypeOK
  <2>3. CASE UploadCreateTask(h)
    <3>1. handler' \in [Handler -> Request]
      BY <2>3, GotoType, ReturnType DEF UploadCreateTask, At
    <3>2. tasks' \in [Task -> Row] /\ cooled' \in [Task -> BOOLEAN]
      BY <2>3, <2>t, WriteRowType, OtherRowTypes DEF UploadCreateTask, InsertTask, At
    <3> QED BY <2>3, <2>t, <3>1, <3>2 DEF UploadCreateTask, InsertTask, At, TypeOK
  <2>4. CASE UploadTaskFails(h)
    <3>1. handler' \in [Handler -> Request]
      BY <2>4, ReturnType DEF UploadTaskFails
    <3> QED BY <2>4, <3>1 DEF UploadTaskFails, RemoveObject, TypeOK
  <2>5. CASE UploadMarkFailed(h)
    <3>1. handler' \in [Handler -> Request]
      BY <2>5, ReturnType DEF UploadMarkFailed
    <3>a. /\ tasks[handler[h].task] \in Row /\ "failed" \in Status /\ 0 \in 0..100
          /\ NoResult \in Result \cup {NoResult} /\ TRUE \in BOOLEAN
      BY <2>5, <2>t DEF UploadMarkFailed, At, TypeOK, Status
    <3>2. UpdateStatus(tasks[handler[h].task], "failed", 0, NoResult, TRUE) \in Row
      BY <3>a, UpdateStatusType, Zenon
    <3>3. tasks' \in [Task -> Row] /\ cooled' \in [Task -> BOOLEAN]
      BY <2>5, <2>t, <3>2, WriteRowType DEF UploadMarkFailed, At
    <3> QED BY <2>5, <3>1, <3>3 DEF UploadMarkFailed, TypeOK
  <2>6. CASE RetryReset(h)
    <3>1. handler' \in [Handler -> Request]
      BY <2>6, GotoType, ReturnType DEF RetryReset, At
    <3>2. tasks' \in [Task -> Row] /\ cooled' \in [Task -> BOOLEAN]
      BY <2>6, <2>t, WriteRowType, OtherRowTypes DEF RetryReset, At, TypeOK
    <3> QED BY <2>6, <3>1, <3>2 DEF RetryReset, TypeOK
  <2>7. CASE StatusWrite(h)
    <3>1. handler' \in [Handler -> Request]
      BY <2>7, GotoType DEF StatusWrite, At
    <3>2. handler[h].rep \in Report /\ handler[h].progress \in 0..100
      BY <2>0, <2>7, RequestShape DEF StatusWrite, At, StatusReq
    <3>3. applyReport(tasks[handler[h].task], handler[h].rep, handler[h].progress) \in Row
      BY <2>7, <2>t, <3>2, ApplyReportType DEF StatusWrite, At, TypeOK
    <3>4. tasks' \in [Task -> Row] /\ cooled' \in [Task -> BOOLEAN]
      BY <2>7, <2>t, <3>3, WriteRowType DEF StatusWrite, At
    <3> QED BY <2>7, <3>1, <3>4 DEF StatusWrite, TypeOK
  <2>8. CASE StatusResource(h)
    <3>1. handler' \in [Handler -> Request]
      BY <2>8, GotoType DEF StatusResource, At
    <3>2. taskStatusToResourceStatus(handler[h].rep.status) \in ResourceStatus
      BY DEF taskStatusToResourceStatus, ResourceStatus
    <3> QED BY <2>8, <3>1, <3>2 DEF StatusResource, TypeOK
  <2>9. CASE StatusPublish(h)
    <3>1. handler' \in [Handler -> Request]
      BY <2>9, ReturnType DEF StatusPublish
    <3> QED BY <2>9, <3>1 DEF StatusPublish, TypeOK
  <2>10. CASE ProgressWrite(h)
    <3>1. handler' \in [Handler -> Request]
      BY <2>10, ReturnType DEF ProgressWrite
    <3>2. handler[h].progress \in 0..100
      BY <2>0, <2>10, RequestShape DEF ProgressWrite, At, ProgressReq
    <3>3. tasks' \in [Task -> Row] /\ cooled' \in [Task -> BOOLEAN]
      BY <2>10, <2>t, <3>2, WriteRowType, OtherRowTypes DEF ProgressWrite, At, TypeOK
    <3> QED BY <2>10, <3>1, <3>3 DEF ProgressWrite, TypeOK
  <2>11. CASE DbError(h)
    <3>1. handler' \in [Handler -> Request]
      BY <2>11, ReturnType DEF DbError
    <3> QED BY <2>11, <3>1 DEF DbError, TypeOK
  <2> QED
    BY <1>1, <2>1, <2>2, <2>3, <2>4, <2>5, <2>6, <2>7, <2>8, <2>9, <2>10, <2>11
    DEF HandlerStep
<1>2. ASSUME NEW h \in Handler, NEW accepted \in BOOLEAN, Dispatch(h, accepted)
      PROVE  TypeOK'
  <2>1. handler' \in [Handler -> Request]
    BY <1>2, GotoType, ReturnType DEF Dispatch
  <2> QED BY <1>2, <2>1 DEF Dispatch, TypeOK
<1>3. ASSUME NEW h \in Handler, NEW t \in Task, UserRequest(h, t)
      PROVE  TypeOK'
  <2>1. CASE UploadPut(h, t)
    <3>1. [op |-> "upload", pc |-> "resource", task |-> t] \in Request
      BY DEF Request, UploadReq
    <3>2. handler' \in [Handler -> Request]
      BY <2>1, <3>1, BeginType DEF UploadPut
    <3> QED BY <2>1, <3>2 DEF UploadPut, TypeOK
  <2>2. CASE CreateTask(h, t)
    <3>1. [op |-> "create", pc |-> "dispatch", task |-> t] \in Request
      BY DEF Request, CreateReq
    <3>2. handler' \in [Handler -> Request]
      BY <2>2, <3>1, BeginType DEF CreateTask, TypeOK
    <3>3. tasks' \in [Task -> Row] /\ cooled' \in [Task -> BOOLEAN]
      BY <2>2, WriteRowType, OtherRowTypes DEF CreateTask, InsertTask
    <3> QED BY <2>2, <3>2, <3>3 DEF CreateTask, InsertTask, TypeOK
  <2>3. CASE RetryRead(h, t)
    <3>1. [op |-> "retry", pc |-> "reset", task |-> t] \in Request
      BY DEF Request, RetryReq
    <3>2. handler' \in [Handler -> Request]
      BY <2>3, <3>1, BeginType DEF RetryRead
    <3> QED BY <2>3, <3>2 DEF RetryRead, TypeOK
  <2> QED BY <1>3, <2>1, <2>2, <2>3 DEF UserRequest
<1>4. ASSUME NEW h \in Handler, NEW t \in Task, NEW rep \in ReportInput, StatusRead(h, t, rep)
      PROVE  TypeOK'
  <2>0. tasks[t].status \in Status /\ tasks[t].progress \in 0..100
    BY DEF TypeOK, Row
  <2>1. [op |-> "status", pc |-> "write", task |-> t, seen |-> tasks[t].status,
         progress |-> tasks[t].progress, rep |-> rep] \in Request
    BY <2>0, InputAssumption DEF Request, StatusReq
  <2>2. handler' \in [Handler -> Request]
    BY <1>4, <2>1, BeginType DEF StatusRead
  <2> QED BY <1>4, <2>2 DEF StatusRead, TypeOK
<1>5. ASSUME NEW h \in Handler, NEW t \in Task, NEW p \in ProgressInput, ProgressRead(h, t, p)
      PROVE  TypeOK'
  <2>1. [op |-> "progress", pc |-> "write", task |-> t, progress |-> p] \in Request
    BY InputAssumption DEF Request, ProgressReq
  <2>2. handler' \in [Handler -> Request]
    BY <1>5, <2>1, BeginType DEF ProgressRead
  <2> QED BY <1>5, <2>2 DEF ProgressRead, TypeOK
<1>6. ASSUME NEW t \in Task, CooldownElapses(t)
      PROVE  TypeOK'
  BY <1>6 DEF CooldownElapses, TypeOK
<1>7. CASE GatewayCrash
  BY <1>7 DEF GatewayCrash, TypeOK, Request
<1>8. CASE UNCHANGED gatewayVars
  BY <1>8 DEF gatewayVars, TypeOK
<1>9. ASSUME NEW h \in Handler, NEW t \in Task,
             \/ \E rep \in ReportInput : StatusReject(h, t, rep)
             \/ \E p \in ProgressInput : ProgressReject(h, t, p)
      PROVE  UNCHANGED gatewayVars
  BY <1>9 DEF StatusReject, ProgressReject
<1> QED
  BY <1>1, <1>2, <1>3, <1>4, <1>5, <1>6, <1>7, <1>8, <1>9 DEF Next

LEMMA TypeInit == Init => TypeOK
BY OtherRowTypes DEF Init, TypeOK, Request, ResourceStatus

(* The tables and the table of request goroutines keep their types.        *)
THEOREM TypeCorrect == Spec => []TypeOK
BY TypeInit, TypeStep, PTL DEF Spec
-----------------------------------------------------------------------------
(* THE INDUCTIVE INVARIANT                                                 *)

(* An upload that has stored its file and not yet inserted its task.       *)
Early(h) == handler[h].op = "upload" /\ handler[h].pc \in {"resource", "task"}

(* It is alone on its resource, whose object it holds, and its task does   *)
(* not exist yet: the insert cannot overwrite a row that is in use.        *)
UploadExclusive ==
    \A h \in Handler : Early(h) =>
        /\ handler[h].task \notin created
        /\ ResourceOf[handler[h].task] \in objects
        /\ handler[h].pc = "task" => resources[ResourceOf[handler[h].task]] # 0
        /\ \A g \in Handler :
              Early(g) /\ ResourceOf[handler[g].task] = ResourceOf[handler[h].task] => g = h

(* A report being processed is one that was received for an existing task, *)
(* and if it is about to complete the task, the task has been started: the *)
(* check was made on a row that may be stale, but started_at is never      *)
(* cleared.                                                                *)
ReportGrounded ==
    \A h \in Handler : handler[h].op = "status" =>
        /\ handler[h].task \in created
        /\ handler[h].rep \in ReportInput
        /\ handler[h].pc = "write" /\ handler[h].rep.status = "completed"
              => tasks[handler[h].task].started

(* Together with TypeOK, the inductive invariant of the gateway.           *)
SafetyInv == RowCoherent /\ CompletedWasStarted /\ TaskHasResource
                /\ UploadExclusive /\ ReportGrounded

(* What request h may become without disturbing the invariant.             *)
Harmless(q) ==
    /\ ~(q.op = "upload" /\ q.pc \in {"resource", "task"})
    /\ q.op = "status" =>
          /\ q.task \in created /\ q.rep \in ReportInput
          /\ q.pc = "write" /\ q.rep.status = "completed" => tasks[q.task].started

(* A step that only moves one request, to a harmless place.                *)
LEMMA MoveRequest ==
    ASSUME TypeOK, SafetyInv, NEW h \in Handler, NEW q, Harmless(q),
           handler' = [handler EXCEPT ![h] = q],
           UNCHANGED <<created, tasks, resources, objects>>
    PROVE  SafetyInv'
<1>1. /\ handler'[h] = q
      /\ \A g \in Handler : g # h => handler'[g] = handler[g]
  BY DEF TypeOK
<1>2. RowCoherent' /\ CompletedWasStarted' /\ TaskHasResource'
  BY DEF SafetyInv, RowCoherent, CompletedWasStarted, TaskHasResource
<1>3. UploadExclusive'
  BY <1>1 DEF SafetyInv, UploadExclusive, Early, Harmless
<1>4. ReportGrounded'
  BY <1>1 DEF SafetyInv, ReportGrounded, Harmless
<1> QED BY <1>2, <1>3, <1>4 DEF SafetyInv

(* A step that rewrites the row of one task and moves one request.         *)
LEMMA RewriteRow ==
    ASSUME TypeOK, SafetyInv, NEW h \in Handler, NEW q, Harmless(q),
           q.op = "status" => q.pc # "write",
           NEW t \in Task, NEW row \in Row, Coherent(row),
           tasks[t].started => row.started,
           t \in created /\ row.status = "completed" => row.started,
           tasks' = [tasks EXCEPT ![t] = row],
           handler' = [handler EXCEPT ![h] = q],
           UNCHANGED <<created, resources, objects>>
    PROVE  SafetyInv'
<1>1. /\ handler'[h] = q
      /\ \A g \in Handler : g # h => handler'[g] = handler[g]
      /\ tasks'[t] = row
      /\ \A u \in Task : u # t => tasks'[u] = tasks[u]
  BY DEF TypeOK
<1>2. RowCoherent'
  BY <1>1 DEF SafetyInv, RowCoherent
<1>3. CompletedWasStarted'
  BY <1>1 DEF SafetyInv, CompletedWasStarted, TypeOK
<1>4. TaskHasResource'
  BY DEF SafetyInv, TaskHasResource
<1>5. UploadExclusive'
  BY <1>1 DEF SafetyInv, UploadExclusive, Early, Harmless
<1>6. ReportGrounded'
  <2> SUFFICES ASSUME NEW g \in Handler, handler'[g].op = "status"
               PROVE  /\ handler'[g].task \in created'
                      /\ handler'[g].rep \in ReportInput
                      /\ handler'[g].pc = "write" /\ handler'[g].rep.status = "completed"
                            => tasks'[handler'[g].task].started
    BY DEF ReportGrounded
  <2>1. CASE g = h
    BY <1>1, <2>1 DEF Harmless
  <2>2. CASE g # h
    <3>1. handler'[g] = handler[g] /\ handler[g].task \in Task
      BY <1>1, <2>2 DEF SafetyInv, ReportGrounded, TypeOK
    <3> QED BY <1>1, <3>1 DEF SafetyInv, ReportGrounded
  <2> QED BY <2>1, <2>2
<1> QED BY <1>2, <1>3, <1>4, <1>5, <1>6 DEF SafetyInv

(* Inserting a task row that does not exist.                               *)
LEMMA InsertRow ==
    ASSUME TypeOK, SafetyInv, NEW h \in Handler, NEW q, Harmless(q), q.op # "status",
           NEW t \in Task, t \notin created, resources[ResourceOf[t]] # 0,
           \A g \in Handler : g # h /\ Early(g) => handler[g].task # t,
           InsertTask(t),
           handler' = [handler EXCEPT ![h] = q],
           UNCHANGED <<resources, objects>>
    PROVE  SafetyInv'
<1>1. /\ handler'[h] = q
      /\ \A g \in Handler : g # h => handler'[g] = handler[g]
      /\ tasks'[t] = NewRow
      /\ \A u \in Task : u # t => tasks'[u] = tasks[u]
      /\ created' = created \cup {t}
  BY DEF TypeOK, InsertTask, WriteRow
<1>2. RowCoherent'
  BY <1>1 DEF SafetyInv, RowCoherent, Coherent, NewRow
<1>3. CompletedWasStarted'
  BY <1>1 DEF SafetyInv, CompletedWasStarted, TypeOK, NewRow
<1>4. TaskHasResource'
  BY <1>1 DEF SafetyInv, TaskHasResource
<1>5. UploadExclusive'
  BY <1>1 DEF SafetyInv, UploadExclusive, Early, Harmless
<1>6. ReportGrounded'
  BY <1>1 DEF SafetyInv, ReportGrounded, TypeOK
<1> QED BY <1>2, <1>3, <1>4, <1>5, <1>6 DEF SafetyInv

(* What the UPDATEs do to the coherence of a row and to started_at.        *)
LEMMA UpdateStatusCoherent ==
    ASSUME NEW row \in Row, NEW status \in ReportStatus, NEW progress,
           NEW result, NEW error \in BOOLEAN,
           result # NoResult => status = "completed"
    PROVE  LET new == UpdateStatus(row, status, progress, result, error)
           IN  /\ Coherent(new)
               /\ new.status = status
               /\ row.started => new.started
BY DEF UpdateStatus, Coherent, Row, ReportStatus

LEMMA ApplyReportCoherent ==
    ASSUME NEW row \in Row, NEW rep \in ReportInput, NEW seen \in 0..100
    PROVE  LET new == applyReport(row, rep, seen)
           IN  /\ Coherent(new)
               /\ new.status = rep.status
               /\ row.started => new.started
<1> DEFINE upd == UpdateStatus(row, rep.status, reportProgress(rep.status, seen),
                               rep.result, rep.error)
<1>1. rep \in Report /\ rep.status \in ReportStatus /\ rep.error \in BOOLEAN
  BY InputAssumption DEF Report
<1>2. Coherent(upd) /\ upd.status = rep.status /\ (row.started => upd.started)
  BY <1>1, InputAssumption, UpdateStatusCoherent
<1>3. upd.status # "pending"
  BY <1>1, <1>2 DEF ReportStatus
<1>4. CASE rep.attempt = NoAttempt
  BY <1>2, <1>4 DEF applyReport
<1>5. CASE rep.attempt # NoAttempt
  <2> DEFINE new == [upd EXCEPT !.retry_count = rep.attempt]
  <2>1. applyReport(row, rep, seen) = new
    BY <1>5 DEF applyReport, UpdateStatusWithAttempt
  <2>2. /\ new.status = upd.status /\ new.result = upd.result /\ new.started = upd.started
        /\ new.finished = upd.finished
    BY DEF UpdateStatus
  <2> HIDE DEF new, upd
  <2>3. Coherent(new)
    BY <1>2, <1>3, <2>2 DEF Coherent
  <2> QED BY <1>2, <2>1, <2>2, <2>3
<1> QED BY <1>4, <1>5

LEMMA OtherCoherent ==
    /\ \A row \in Row : /\ Coherent(ResetForRetry(row))
                        /\ ResetForRetry(row).status = "pending"
                        /\ ResetForRetry(row).started = row.started
    /\ \A row \in Row, p \in 0..100 :
          /\ Coherent(row) => Coherent(UpdateProgress(row, p))
          /\ UpdateProgress(row, p).status = row.status
          /\ UpdateProgress(row, p).started = row.started
<1>1. \A row \in Row : /\ Coherent(ResetForRetry(row))
                       /\ ResetForRetry(row).status = "pending"
                       /\ ResetForRetry(row).started = row.started
  BY DEF Coherent, ResetForRetry, NewRow, Row
<1>2. ASSUME NEW row \in Row, NEW p \in 0..100
      PROVE  /\ Coherent(row) => Coherent(UpdateProgress(row, p))
             /\ UpdateProgress(row, p).status = row.status
             /\ UpdateProgress(row, p).started = row.started
  BY DEF Coherent, UpdateProgress, Row
<1> QED BY <1>1, <1>2

(* Every step keeps the rest of the invariant.                             *)
LEMMA SafetyStep ==
    ASSUME TypeOK, SafetyInv, [Next]_gatewayVars
    PROVE  SafetyInv'
<1> USE GatewayAssumption
<1>0. Harmless(Idle)
  BY DEF Harmless, Idle
<1>1. ASSUME NEW h \in Handler, HandlerStep(h)
      PROVE  SafetyInv'
  <2> DEFINE t == handler[h].task
             to(pc) == [handler[h] EXCEPT !.pc = pc]
  <2>0. handler[h] \in Request
    BY DEF TypeOK
  <2>t. ASSUME handler[h].op # "idle" PROVE t \in Task /\ tasks[t] \in Row
    BY <2>0, <2>t, RequestShape DEF Idle, TypeOK
  <2>1. CASE UploadCreateResource(h)
    <3>1. /\ handler[h].op = "upload" /\ handler[h].pc = "resource" /\ t \in Task
          /\ Early(h) /\ handler[h] \in UploadReq
      BY <2>0, <2>1, <2>t, RequestShape DEF UploadCreateResource, At, Early
    <3>2. /\ handler'[h] = to("task")
          /\ \A g \in Handler : g # h => handler'[g] = handler[g]
          /\ to("task").op = "upload" /\ to("task").pc = "task" /\ to("task").task = t
      BY <2>1, <3>1 DEF UploadCreateResource, Goto, TypeOK, UploadReq
    <3>3. resources' = [resources EXCEPT ![ResourceOf[t]] = 1]
      BY <2>1 DEF UploadCreateResource
    <3>4. \A r \in Resource : resources[r] # 0 => resources'[r] # 0
      BY <3>3 DEF TypeOK
    <3>5. resources'[ResourceOf[t]] # 0
      BY <3>1, <3>3 DEF TypeOK
    <3>6. UNCHANGED <<created, tasks, objects>>
      BY <2>1 DEF UploadCreateResource
    <3>7. RowCoherent' /\ CompletedWasStarted'
      BY <3>6 DEF SafetyInv, RowCoherent, CompletedWasStarted
    <3>8. TaskHasResource'
      BY <3>4, <3>6 DEF SafetyInv, TaskHasResource, TypeOK
    <3>9. UploadExclusive'
      <4> SUFFICES ASSUME NEW g \in Handler, Early(g)'
                   PROVE  /\ handler'[g].task \notin created'
                          /\ ResourceOf[handler'[g].task] \in objects'
                          /\ handler'[g].pc = "task" => resources'[ResourceOf[handler'[g].task]] # 0
                          /\ \A f \in Handler :
                                Early(f)' /\ ResourceOf[handler'[f].task] = ResourceOf[handler'[g].task]
                                   => f = g
        BY DEF UploadExclusive
      <4>1. \A f \in Handler : Early(f)' => Early(f) /\ handler'[f].task = handler[f].task
        BY <3>1, <3>2 DEF Early
      <4>2. handler[g].task \in Task
        BY <4>1, RequestShape DEF TypeOK, Early, Idle
      <4>3. handler'[g].pc = "task" => resources'[ResourceOf[handler'[g].task]] # 0
        BY <3>1, <3>2, <3>4, <3>5, <4>1, <4>2 DEF SafetyInv, UploadExclusive
      <4> QED BY <3>6, <4>1, <4>3 DEF SafetyInv, UploadExclusive
    <3>10. ReportGrounded'
      BY <3>2, <3>6 DEF SafetyInv, ReportGrounded
    <3> QED BY <3>7, <3>8, <3>9, <3>10 DEF SafetyInv
  <2>2. CASE UploadResourceFails(h) \/ UploadTaskFails(h)
    <3>1. /\ Early(h) /\ t \in Task
          /\ handler'[h] = Idle
          /\ \A g \in Handler : g # h => handler'[g] = handler[g]
          /\ UNCHANGED <<created, tasks, resources>>
          /\ \A r \in objects : r # ResourceOf[t] => r \in objects'
      BY <2>2, <2>t DEF UploadResourceFails, UploadTaskFails, RemoveObject, Return, At, Early, TypeOK
    <3>2. RowCoherent' /\ CompletedWasStarted' /\ TaskHasResource'
      BY <3>1 DEF SafetyInv, RowCoherent, CompletedWasStarted, TaskHasResource
    <3>3. UploadExclusive'
      BY <3>1 DEF SafetyInv, UploadExclusive, Early, Idle
    <3>4. ReportGrounded'
      BY <3>1 DEF SafetyInv, ReportGrounded, Idle
    <3> QED BY <3>2, <3>3, <3>4 DEF SafetyInv
  <2>3. CASE UploadCreateTask(h)
    <3>1. /\ handler[h].op = "upload" /\ handler[h].pc = "task" /\ t \in Task
          /\ Early(h) /\ handler[h] \in UploadReq
      BY <2>0, <2>3, <2>t, RequestShape DEF UploadCreateTask, At, Early
    <3>2. PICK q \in {Idle, to("dispatch")} : handler' = [handler EXCEPT ![h] = q]
      BY <2>3 DEF UploadCreateTask, Goto, Return
    <3>3. Harmless(q) /\ q.op # "status"
      BY <1>0, <3>1, <3>2 DEF UploadReq, Harmless, Idle
    <3>4. t \notin created /\ resources[ResourceOf[t]] # 0
      BY <3>1 DEF SafetyInv, UploadExclusive
    <3>5. \A g \in Handler : g # h /\ Early(g) => handler[g].task # t
      BY <3>1 DEF SafetyInv, UploadExclusive
    <3> QED BY <2>3, <3>1, <3>2, <3>3, <3>4, <3>5, InsertRow DEF UploadCreateTask
  <2>4. CASE UploadMarkFailed(h)
    <3>1. t \in Task /\ tasks[t] \in Row /\ handler' = [handler EXCEPT ![h] = Idle]
      BY <2>4, <2>t DEF UploadMarkFailed, At, Return
    <3> DEFINE row == UpdateStatus(tasks[t], "failed", 0, NoResult, TRUE)
    <3>2. Coherent(row) /\ row.status = "failed" /\ (tasks[t].started => row.started)
      BY <3>1 DEF UpdateStatus, Coherent
    <3>a. /\ "failed" \in Status /\ 0 \in 0..100 /\ TRUE \in BOOLEAN
          /\ NoResult \in Result \cup {NoResult}
      BY DEF Status
    <3>3. row \in Row
      BY <3>1, <3>a, UpdateStatusType, Zenon
    <3>4. tasks' = [tasks EXCEPT ![t] = row] /\ UNCHANGED <<created, resources, objects>>
      BY <2>4 DEF UploadMarkFailed, WriteRow
    <3> HIDE DEF row
    <3> QED BY <1>0, <3>1, <3>2, <3>3, <3>4, RewriteRow DEF Idle
  <2>5. CASE RetryReset(h)
    <3>1. t \in Task /\ tasks[t] \in Row /\ handler[h] \in RetryReq
      BY <2>0, <2>5, <2>t, RequestShape DEF RetryReset, At
    <3>2. PICK q \in {Idle, to("dispatch")} : handler' = [handler EXCEPT ![h] = q]
      BY <2>5 DEF RetryReset, Goto, Return
    <3>3. Harmless(q) /\ q.op # "status"
      BY <1>0, <3>1, <3>2 DEF RetryReq, Harmless, Idle
    <3>4. tasks' = [tasks EXCEPT ![t] = ResetForRetry(tasks[t])]
          /\ UNCHANGED <<created, resources, objects>>
      BY <2>5 DEF RetryReset, WriteRow
    <3> DEFINE row == ResetForRetry(tasks[t])
    <3>5. /\ row \in Row /\ Coherent(row) /\ row.started = tasks[t].started
          /\ row.status # "completed"
      BY <3>1, OtherRowTypes, OtherCoherent
    <3> HIDE DEF row
    <3> QED BY <3>1, <3>2, <3>3, <3>4, <3>5, RewriteRow DEF row
  <2>6. CASE StatusWrite(h)
    <3>1. /\ t \in Task /\ tasks[t] \in Row /\ handler[h] \in StatusReq
          /\ handler[h].op = "status" /\ handler[h].pc = "write"
      BY <2>0, <2>6, <2>t, RequestShape DEF StatusWrite, At
    <3>2. /\ t \in created /\ handler[h].rep \in ReportInput
          /\ handler[h].rep.status = "completed" => tasks[t].started
      BY <3>1 DEF SafetyInv, ReportGrounded
    <3>3. handler' = [handler EXCEPT ![h] = to("resource")]
      BY <2>6 DEF StatusWrite, Goto
    <3>4. /\ to("resource").op = "status" /\ to("resource").pc = "resource"
          /\ to("resource").task = t /\ to("resource").rep = handler[h].rep
      BY <3>1 DEF StatusReq
    <3>5. Harmless(to("resource"))
      BY <3>2, <3>4 DEF Harmless
    <3> DEFINE row == applyReport(tasks[t], handler[h].rep, handler[h].progress)
    <3>6. handler[h].progress \in 0..100 /\ handler[h].rep \in Report
      BY <3>1 DEF StatusReq
    <3>7. row \in Row
      BY <3>1, <3>6, ApplyReportType
    <3>8. Coherent(row) /\ row.status = handler[h].rep.status /\ (tasks[t].started => row.started)
      BY <3>1, <3>2, <3>6, ApplyReportCoherent
    <3>9. tasks' = [tasks EXCEPT ![t] = row] /\ UNCHANGED <<created, resources, objects>>
      BY <2>6 DEF StatusWrite, WriteRow
    <3>10. row.status = "completed" => row.started
      BY <3>2, <3>8
    <3> HIDE DEF row, to
    <3> QED BY <3>1, <3>3, <3>4, <3>5, <3>7, <3>8, <3>9, <3>10, RewriteRow
  <2>7. CASE StatusResource(h)
    <3>1. /\ t \in Task /\ handler[h] \in StatusReq /\ handler[h].op = "status"
          /\ handler[h].rep.status \in ReportStatus
      BY <2>0, <2>7, <2>t, RequestShape DEF StatusResource, At, StatusReq, Report
    <3>2. taskStatusToResourceStatus(handler[h].rep.status) # 0
      BY <3>1 DEF taskStatusToResourceStatus, ReportStatus
    <3>3. \A r \in Resource : resources[r] # 0 => resources'[r] # 0
      BY <2>7, <3>2 DEF StatusResource, TypeOK
    <3>4. /\ handler'[h] = to("publish")
          /\ \A g \in Handler : g # h => handler'[g] = handler[g]
          /\ UNCHANGED <<created, tasks, objects>>
      BY <2>7 DEF StatusResource, Goto, TypeOK
    <3>5. /\ to("publish").op = "status" /\ to("publish").pc = "publish"
          /\ to("publish").task = t /\ to("publish").rep = handler[h].rep
      BY <3>1 DEF StatusReq
    <3>6. RowCoherent' /\ CompletedWasStarted'
      BY <3>4 DEF SafetyInv, RowCoherent, CompletedWasStarted
    <3>7. TaskHasResource'
      BY <3>3, <3>4 DEF SafetyInv, TaskHasResource, TypeOK
    <3>8. \A g \in Handler : Early(g)' => handler'[g] = handler[g] /\ handler[g].task \in Task
      <4> SUFFICES ASSUME NEW g \in Handler, Early(g)'
                   PROVE  handler'[g] = handler[g] /\ handler[g].task \in Task
        OBVIOUS
      <4> HIDE DEF to
      <4>1. handler'[g] = handler[g] /\ handler[g].op = "upload"
        BY <3>4, <3>5 DEF Early
      <4> QED BY <4>1, RequestShape DEF TypeOK, Idle
    <3>9. UploadExclusive'
      BY <3>3, <3>4, <3>8 DEF SafetyInv, UploadExclusive, Early
    <3>10. ReportGrounded'
      BY <3>1, <3>4, <3>5 DEF SafetyInv, ReportGrounded
    <3> QED BY <3>6, <3>7, <3>9, <3>10 DEF SafetyInv
  <2>8. CASE StatusPublish(h) \/ DbError(h)
    BY <1>0, <2>8, MoveRequest DEF StatusPublish, DbError, Return
  <2>9. CASE ProgressWrite(h)
    <3>1. /\ t \in Task /\ tasks[t] \in Row /\ handler[h].progress \in 0..100
          /\ handler' = [handler EXCEPT ![h] = Idle]
      BY <2>0, <2>9, <2>t, RequestShape DEF ProgressWrite, At, ProgressReq, Return
    <3> DEFINE row == UpdateProgress(tasks[t], handler[h].progress)
    <3>2. row \in Row /\ Coherent(row) /\ row.status = tasks[t].status
                      /\ row.started = tasks[t].started
      BY <3>1, OtherRowTypes, OtherCoherent DEF SafetyInv, RowCoherent
    <3>3. t \in created /\ row.status = "completed" => row.started
      BY <3>2 DEF SafetyInv, CompletedWasStarted
    <3>4. tasks' = [tasks EXCEPT ![t] = row] /\ UNCHANGED <<created, resources, objects>>
      BY <2>9 DEF ProgressWrite, WriteRow
    <3> HIDE DEF row
    <3> QED BY <1>0, <3>1, <3>2, <3>3, <3>4, RewriteRow DEF Idle
  <2> QED
    BY <1>1, <2>1, <2>2, <2>3, <2>4, <2>5, <2>6, <2>7, <2>8, <2>9 DEF HandlerStep
<1>2. ASSUME NEW h \in Handler, NEW accepted \in BOOLEAN, Dispatch(h, accepted)
      PROVE  SafetyInv'
  <2>1. /\ handler[h] \in UploadReq \cup CreateReq \cup RetryReq
        /\ handler[h].op # "status"
    BY <1>2, RequestShape DEF Dispatch, TypeOK
  <2>2. PICK q \in {Idle, [handler[h] EXCEPT !.pc = "mark"]} : handler' = [handler EXCEPT ![h] = q]
    BY <1>2 DEF Dispatch, Goto, Return
  <2>3. Harmless(q)
    BY <1>0, <2>1, <2>2 DEF Harmless, UploadReq, CreateReq, RetryReq
  <2> QED BY <1>2, <2>2, <2>3, MoveRequest DEF Dispatch
<1>3. ASSUME NEW h \in Handler, NEW t \in Task, UserRequest(h, t)
      PROVE  SafetyInv'
  <2>1. CASE UploadPut(h, t)
    <3> DEFINE q == [op |-> "upload", pc |-> "resource", task |-> t]
    <3>1. /\ handler'[h] = q
          /\ \A g \in Handler : g # h => handler'[g] = handler[g]
          /\ UNCHANGED <<created, tasks, resources>>
          /\ objects' = objects \cup {ResourceOf[t]}
          /\ t \notin created /\ ResourceOf[t] \notin objects
      BY <2>1 DEF UploadPut, Begin, TypeOK
    <3>2. RowCoherent' /\ CompletedWasStarted' /\ TaskHasResource'
      BY <3>1 DEF SafetyInv, RowCoherent, CompletedWasStarted, TaskHasResource
    <3>3. UploadExclusive'
      BY <3>1 DEF SafetyInv, UploadExclusive, Early
    <3>4. ReportGrounded'
      BY <3>1 DEF SafetyInv, ReportGrounded
    <3> QED BY <3>2, <3>3, <3>4 DEF SafetyInv
  <2>2. CASE CreateTask(h, t)
    <3>1. PICK q \in {Idle, [op |-> "create", pc |-> "dispatch", task |-> t]} :
               handler' = [handler EXCEPT ![h] = q]
      BY <2>2 DEF CreateTask, Begin, TypeOK
    <3>2. Harmless(q) /\ q.op # "status"
      BY <1>0, <3>1 DEF Harmless, Idle
    <3>3. \A g \in Handler : g # h /\ Early(g) => handler[g].task # t
      BY <2>2 DEF CreateTask, Early, Idle
    <3> QED BY <2>2, <3>1, <3>2, <3>3, InsertRow DEF CreateTask
  <2>3. CASE RetryRead(h, t)
    <3>1. Harmless([op |-> "retry", pc |-> "reset", task |-> t])
      BY DEF Harmless
    <3> QED BY <2>3, <3>1, MoveRequest DEF RetryRead, Begin
  <2> QED BY <1>3, <2>1, <2>2, <2>3 DEF UserRequest
<1>4. ASSUME NEW h \in Handler, NEW t \in Task, NEW rep \in ReportInput, StatusRead(h, t, rep)
      PROVE  SafetyInv'
  <2> DEFINE q == [op |-> "status", pc |-> "write", task |-> t, seen |-> tasks[t].status,
                   progress |-> tasks[t].progress, rep |-> rep]
  <2>1. t \in created /\ (rep.status = "completed" => tasks[t].status = "running")
    BY <1>4 DEF StatusRead, canTransition
  <2>2. rep.status = "completed" => tasks[t].started
    BY <2>1 DEF SafetyInv, RowCoherent, Coherent
  <2>3. Harmless(q)
    BY <2>1, <2>2 DEF Harmless
  <2>4. handler' = [handler EXCEPT ![h] = q] /\ UNCHANGED <<created, tasks, resources, objects>>
    BY <1>4 DEF StatusRead, Begin
  <2> HIDE DEF q
  <2> QED BY <2>3, <2>4, MoveRequest
<1>5. ASSUME NEW h \in Handler, NEW t \in Task, NEW p \in ProgressInput, ProgressRead(h, t, p)
      PROVE  SafetyInv'
  <2>1. Harmless([op |-> "progress", pc |-> "write", task |-> t, progress |-> p])
    BY DEF Harmless
  <2> QED BY <1>5, <2>1, MoveRequest DEF ProgressRead, Begin
<1>6. ASSUME UNCHANGED <<created, tasks, resources, objects, handler>>
      PROVE  SafetyInv'
  BY <1>6 DEF SafetyInv, RowCoherent, CompletedWasStarted, TaskHasResource, UploadExclusive,
              ReportGrounded, Early
<1>7. CASE GatewayCrash
  <2>1. \A h \in Handler : handler'[h] = Idle
    BY <1>7 DEF GatewayCrash
  <2>2. UploadExclusive' /\ ReportGrounded'
    BY <2>1 DEF UploadExclusive, ReportGrounded, Early, Idle
  <2>3. RowCoherent' /\ CompletedWasStarted' /\ TaskHasResource'
    BY <1>7 DEF GatewayCrash, SafetyInv, RowCoherent, CompletedWasStarted, TaskHasResource
  <2> QED BY <2>2, <2>3 DEF SafetyInv
<1>8. ASSUME NEW h \in Handler, NEW t \in Task,
             \/ \E rep \in ReportInput : StatusReject(h, t, rep)
             \/ \E p \in ProgressInput : ProgressReject(h, t, p)
      PROVE  UNCHANGED gatewayVars
  BY <1>8 DEF StatusReject, ProgressReject
<1>9. ASSUME NEW t \in Task, CooldownElapses(t)
      PROVE  UNCHANGED <<created, tasks, resources, objects, handler>>
  BY <1>9 DEF CooldownElapses
<1> QED
  BY <1>1, <1>2, <1>3, <1>4, <1>5, <1>6, <1>7, <1>8, <1>9 DEF Next, gatewayVars

(* SafetyInv holds initially, and so always.                               *)
LEMMA SafetyInit == Init => SafetyInv
BY DEF Init, SafetyInv, RowCoherent, Coherent, NewRow, CompletedWasStarted, TaskHasResource,
       UploadExclusive, Early, ReportGrounded, Idle

LEMMA GatewayInvariant == Spec => [](TypeOK /\ SafetyInv)
<1>1. TypeOK /\ SafetyInv /\ [Next]_gatewayVars => (TypeOK /\ SafetyInv)'
  BY TypeStep, SafetyStep
<1> QED BY <1>1, TypeInit, SafetyInit, PTL DEF Spec

(* Whatever the interleaving of handlers, failing statements and crashes,  *)
(* every row of the tasks table stays coherent.                            *)
THEOREM RowsCoherent == Spec => []RowCoherent
<1>1. SafetyInv => RowCoherent
  BY DEF SafetyInv
<1> QED BY <1>1, GatewayInvariant, PTL

(* A task is completed only if some worker reported it running before,     *)
(* although the check and the write of a report are separate statements.   *)
THEOREM CompletedAfterStart == Spec => []CompletedWasStarted
<1>1. SafetyInv => CompletedWasStarted
  BY DEF SafetyInv
<1> QED BY <1>1, GatewayInvariant, PTL

(* No task row without its resource row.                                   *)
THEOREM TasksHaveResources == Spec => []TaskHasResource
<1>1. SafetyInv => TaskHasResource
  BY DEF SafetyInv
<1> QED BY <1>1, GatewayInvariant, PTL

-----------------------------------------------------------------------------
(* NO OBJECT LEAKS                                                         *)

(* An upload past its insert has its task.                                 *)
LateUpload ==
    \A h \in Handler :
        handler[h].op = "upload" /\ handler[h].pc \in {"dispatch", "mark"}
            => handler[h].task \in created

LeakInv == LateUpload /\ NoObjectLeak

(* Steps that store and remove no file: an upload that ends has its task.  *)
LEMMA LeakFrame ==
    ASSUME TypeOK, LeakInv, TaskHasResource', UNCHANGED objects, created \subseteq created',
           \A r \in Resource : resources[r] # 0 => resources'[r] # 0,
           \A g \in Handler : handler[g].op = "upload" =>
                \/ handler'[g].op = "upload" /\ handler'[g].task = handler[g].task
                \/ handler[g].task \in created',
           LateUpload'
    PROVE  LeakInv'
<1>1. NoObjectLeak'
  <2> SUFFICES ASSUME NEW r \in objects'
               PROVE  Uploading(r)' \/ (resources'[r] # 0 /\ \E t \in created' : ResourceOf[t] = r)
    BY DEF NoObjectLeak
  <2>1. r \in objects /\ r \in Resource
    BY DEF TypeOK
  <2>2. CASE Uploading(r)
    BY <2>2 DEF Uploading, TaskHasResource
  <2>3. CASE resources[r] # 0 /\ \E t \in created : ResourceOf[t] = r
    BY <2>1, <2>3
  <2> QED BY <2>1, <2>2, <2>3 DEF LeakInv, NoObjectLeak
<1> QED BY <1>1 DEF LeakInv

(* ... in the form most handlers need: request h moves, no upload begins.  *)
LEMMA LeakMove ==
    ASSUME TypeOK, LeakInv, TaskHasResource', UNCHANGED objects, created \subseteq created',
           \A r \in Resource : resources[r] # 0 => resources'[r] # 0,
           NEW h \in Handler, NEW q, handler' = [handler EXCEPT ![h] = q],
           handler[h].op = "upload" =>
                \/ q.op = "upload" /\ q.task = handler[h].task
                \/ handler[h].task \in created',
           q.op = "upload" /\ q.pc \in {"dispatch", "mark"} => q.task \in created'
    PROVE  LeakInv'
<1>1. /\ handler'[h] = q
      /\ \A g \in Handler : g # h => handler'[g] = handler[g]
  BY DEF TypeOK
<1>2. LateUpload'
  BY <1>1 DEF LeakInv, LateUpload
<1> QED BY <1>1, <1>2, LeakFrame

LEMMA LeakStep ==
    ASSUME "minio" \notin Faults, "crash" \notin Faults,
           TypeOK, SafetyInv, SafetyInv', LeakInv, [Next]_gatewayVars
    PROVE  LeakInv'
<1> USE GatewayAssumption
<1>a. TaskHasResource'
  BY DEF SafetyInv
<1>b. ASSUME NEW h \in Handler, UNCHANGED <<objects, resources>>, created \subseteq created',
             handler' = [handler EXCEPT ![h] = Idle],
             handler[h].op = "upload" => handler[h].task \in created'
      PROVE  LeakInv'
  BY <1>a, <1>b, LeakMove DEF Idle
<1>c. ASSUME NEW h \in Handler, NEW q, q.op # "upload", handler[h] = Idle,
             handler' = [handler EXCEPT ![h] = q],
             UNCHANGED <<objects, resources>>, created \subseteq created'
      PROVE  LeakInv'
  <2>1. handler[h].op # "upload"
    BY <1>c DEF Idle
  <2> QED BY <1>a, <1>c, <2>1, LeakMove
<1>1. ASSUME NEW h \in Handler, HandlerStep(h)
      PROVE  LeakInv'
  <2> DEFINE to(pc) == [handler[h] EXCEPT !.pc = pc]
  <2>0. handler[h] \in Request
    BY DEF TypeOK
  <2>1. CASE UploadCreateResource(h)
    <3>1. handler[h] \in UploadReq /\ handler' = [handler EXCEPT ![h] = to("task")]
      BY <2>0, <2>1, RequestShape DEF UploadCreateResource, At, Goto
    <3>2. to("task").op = "upload" /\ to("task").task = handler[h].task /\ to("task").pc = "task"
      BY <3>1 DEF UploadReq
    <3>3. \A r \in Resource : resources[r] # 0 => resources'[r] # 0
      BY <2>1 DEF UploadCreateResource, TypeOK
    <3>4. UNCHANGED <<objects, created>>
      BY <2>1 DEF UploadCreateResource
    <3> HIDE DEF to
    <3> QED BY <1>a, <3>1, <3>2, <3>3, <3>4, LeakMove
  <2>2. CASE UploadResourceFails(h) \/ UploadTaskFails(h)
    <3>1. /\ handler'[h] = Idle
          /\ \A g \in Handler : g # h => handler'[g] = handler[g]
          /\ UNCHANGED <<created, resources>>
          /\ objects' = objects \ {ResourceOf[handler[h].task]}
      BY <2>2 DEF UploadResourceFails, UploadTaskFails, RemoveObject, Return, TypeOK
    <3>2. LateUpload'
      BY <3>1 DEF LeakInv, LateUpload, Idle
    <3>3. NoObjectLeak'
      BY <3>1 DEF LeakInv, NoObjectLeak, Uploading
    <3> QED BY <3>2, <3>3 DEF LeakInv
  <2>3. CASE UploadCreateTask(h)
    <3>1. /\ UNCHANGED <<objects, resources>>
          /\ created' = created \cup {handler[h].task}
          /\ handler[h] \in UploadReq
      BY <2>0, <2>3, RequestShape DEF UploadCreateTask, InsertTask, At
    <3>2. CASE Return(h)
      BY <1>b, <3>1, <3>2 DEF Return
    <3>3. CASE Goto(h, "dispatch")
      <4>1. to("dispatch").op = "upload" /\ to("dispatch").task = handler[h].task
        BY <3>1 DEF UploadReq
      <4>2. handler' = [handler EXCEPT ![h] = to("dispatch")]
        BY <3>3 DEF Goto
      <4> HIDE DEF to
      <4> QED BY <1>a, <3>1, <4>1, <4>2, LeakMove
    <3> QED BY <2>3, <3>2, <3>3 DEF UploadCreateTask
  <2>4. CASE UploadMarkFailed(h) \/ StatusPublish(h) \/ ProgressWrite(h) \/ DbError(h)
    <3>1. handler[h].op = "upload" => handler[h].task \in created
      BY <2>4 DEF UploadMarkFailed, StatusPublish, ProgressWrite, DbError, At, LeakInv, LateUpload
    <3> QED BY <1>b, <2>4, <3>1
            DEF UploadMarkFailed, StatusPublish, ProgressWrite, DbError, Return
  <2>5. CASE RetryReset(h)
    <3>1. handler[h] \in RetryReq /\ UNCHANGED <<objects, resources, created>>
      BY <2>0, <2>5, RequestShape DEF RetryReset, At
    <3>2. PICK q \in {Idle, to("dispatch")} : handler' = [handler EXCEPT ![h] = q]
      BY <2>5 DEF RetryReset, Goto, Return
    <3>3. q.op # "upload" /\ handler[h].op # "upload"
      BY <3>1, <3>2 DEF RetryReq, Idle
    <3> QED BY <1>a, <3>1, <3>2, <3>3, LeakMove
  <2>6. CASE StatusWrite(h) \/ StatusResource(h)
    <3>1. handler[h] \in StatusReq /\ UNCHANGED <<objects, created>>
      BY <2>0, <2>6, RequestShape DEF StatusWrite, StatusResource, At
    <3>2. PICK q \in {to("resource"), to("publish")} : handler' = [handler EXCEPT ![h] = q]
      BY <2>6 DEF StatusWrite, StatusResource, Goto
    <3>3. q.op # "upload" /\ handler[h].op # "upload"
      BY <3>1, <3>2 DEF StatusReq
    <3>4. taskStatusToResourceStatus(handler[h].rep.status) # 0
      BY <3>1 DEF StatusReq, Report, taskStatusToResourceStatus, ReportStatus
    <3>5. \A r \in Resource : resources[r] # 0 => resources'[r] # 0
      BY <2>6, <3>4 DEF StatusWrite, StatusResource, TypeOK
    <3> QED BY <1>a, <3>1, <3>2, <3>3, <3>5, LeakMove
  <2> QED
    BY <1>1, <2>1, <2>2, <2>3, <2>4, <2>5, <2>6 DEF HandlerStep
<1>2. ASSUME NEW h \in Handler, NEW accepted \in BOOLEAN, Dispatch(h, accepted)
      PROVE  LeakInv'
  <2>1. UNCHANGED <<objects, resources, created>>
    BY <1>2 DEF Dispatch
  <2>2. handler[h].op = "upload" => handler[h].task \in created
    BY <1>2 DEF Dispatch, LeakInv, LateUpload
  <2>3. CASE Return(h)
    BY <1>b, <2>1, <2>2, <2>3 DEF Return
  <2>4. CASE handler[h].op = "upload" /\ Goto(h, "mark")
    <3> DEFINE q == [handler[h] EXCEPT !.pc = "mark"]
    <3>1. q.op = "upload" /\ q.task = handler[h].task
      BY <2>4, RequestShape DEF TypeOK, UploadReq
    <3>2. handler' = [handler EXCEPT ![h] = q]
      BY <2>4 DEF Goto
    <3> HIDE DEF q
    <3> QED BY <1>a, <2>1, <2>2, <2>4, <3>1, <3>2, LeakMove
  <2> QED BY <1>2, <2>3, <2>4 DEF Dispatch
<1>3. ASSUME NEW h \in Handler, NEW t \in Task, UserRequest(h, t)
      PROVE  LeakInv'
  <2>1. CASE UploadPut(h, t)
    <3> DEFINE q == [op |-> "upload", pc |-> "resource", task |-> t]
    <3>1. /\ handler'[h] = q /\ handler[h] = Idle
          /\ \A g \in Handler : g # h => handler'[g] = handler[g]
          /\ UNCHANGED <<created, resources>>
          /\ objects' = objects \cup {ResourceOf[t]}
      BY <2>1 DEF UploadPut, Begin, TypeOK
    <3>2. LateUpload'
      BY <3>1 DEF LeakInv, LateUpload
    <3>3. NoObjectLeak'
      BY <3>1 DEF LeakInv, NoObjectLeak, Uploading, Idle
    <3> QED BY <3>2, <3>3 DEF LeakInv
  <2>2. CASE CreateTask(h, t)
    <3>1. PICK q \in {Idle, [op |-> "create", pc |-> "dispatch", task |-> t]} :
               handler' = [handler EXCEPT ![h] = q]
      BY <2>2 DEF CreateTask, Begin, TypeOK
    <3>2. handler[h] = Idle /\ q.op # "upload" /\ UNCHANGED <<objects, resources>>
          /\ created \subseteq created'
      BY <2>2, <3>1 DEF CreateTask, Begin, Idle, InsertTask
    <3> QED BY <1>c, <3>1, <3>2
  <2>3. CASE RetryRead(h, t)
    <3> DEFINE q == [op |-> "retry", pc |-> "reset", task |-> t]
    <3>1. q.op # "upload"
      OBVIOUS
    <3> QED BY <1>c, <2>3, <3>1 DEF RetryRead, Begin
  <2> QED BY <1>3, <2>1, <2>2, <2>3 DEF UserRequest
<1>4. ASSUME NEW h \in Handler, NEW t \in Task, NEW rep \in ReportInput, StatusRead(h, t, rep)
      PROVE  LeakInv'
  <2> DEFINE q == [op |-> "status", pc |-> "write", task |-> t, seen |-> tasks[t].status,
                   progress |-> tasks[t].progress, rep |-> rep]
  <2>1. q.op # "upload"
    OBVIOUS
  <2>2. handler' = [handler EXCEPT ![h] = q]
    BY <1>4 DEF StatusRead, Begin
  <2> HIDE DEF q
  <2> QED BY <1>c, <1>4, <2>1, <2>2 DEF StatusRead, Begin
<1>5. ASSUME NEW h \in Handler, NEW t \in Task, NEW p \in ProgressInput, ProgressRead(h, t, p)
      PROVE  LeakInv'
  <2> DEFINE q == [op |-> "progress", pc |-> "write", task |-> t, progress |-> p]
  <2>1. q.op # "upload"
    OBVIOUS
  <2> QED BY <1>c, <1>5, <2>1 DEF ProgressRead, Begin
<1>6. ASSUME UNCHANGED <<created, resources, objects, handler>>
      PROVE  LeakInv'
  BY <1>6 DEF LeakInv, LateUpload, NoObjectLeak, Uploading
<1>7. ASSUME GatewayCrash PROVE FALSE
  BY <1>7 DEF GatewayCrash
<1>8. ASSUME NEW h \in Handler, NEW t \in Task,
             \/ \E rep \in ReportInput : StatusReject(h, t, rep)
             \/ \E p \in ProgressInput : ProgressReject(h, t, p)
      PROVE  UNCHANGED gatewayVars
  BY <1>8 DEF StatusReject, ProgressReject
<1>9. ASSUME NEW t \in Task, CooldownElapses(t)
      PROVE  UNCHANGED <<created, resources, objects, handler>>
  BY <1>9 DEF CooldownElapses
<1> QED
  BY <1>1, <1>2, <1>3, <1>4, <1>5, <1>6, <1>7, <1>8, <1>9 DEF Next, gatewayVars

(* As long as the object store answers and the gateway does not crash, a   *)
(* failed upload leaves no file behind, however its statements fail and    *)
(* whatever else runs.                                                     *)
THEOREM NoLeak ==
    ASSUME "minio" \notin Faults, "crash" \notin Faults
    PROVE  Spec => []NoObjectLeak
<1>1. Init => LeakInv
  BY DEF Init, LeakInv, LateUpload, NoObjectLeak, Idle
<1>2. /\ TypeOK /\ SafetyInv /\ SafetyInv' /\ LeakInv /\ [Next]_gatewayVars => LeakInv'
  BY LeakStep
<1>3. LeakInv => NoObjectLeak
  BY DEF LeakInv
<1> QED BY <1>1, <1>2, <1>3, GatewayInvariant, PTL DEF Spec

-----------------------------------------------------------------------------
(* ONE REQUEST AT A TIME                                                   *)
(*                                                                         *)
(* A gateway whose requests do not overlap implements the documented status*)
(* machine (TaskStatus), and the status of a resource follows its task's.  *)
(* With two requests at once neither is true: TaskPipeline shows a         *)
(* completed task going back to running.                                   *)

statusOf == [t \in Task |-> IF t \in created THEN tasks[t].status ELSE "none"]

(* What a request has checked still holds when it writes.                  *)
Fresh(h) ==
    LET q == handler[h] IN
    /\ q.op = "upload" /\ q.pc \in {"dispatch", "mark"} =>
          q.task \in created /\ tasks[q.task].status = "pending"
    /\ q.op = "retry" /\ q.pc = "reset" =>
          q.task \in created /\ tasks[q.task].status \in {"failed", "completed"}
    /\ q.op = "status" /\ q.pc = "write" =>
          q.task \in created /\ canTransition(tasks[q.task].status, q.rep.status)

AllFresh == \A h \in Handler : Fresh(h)

(* A step that leaves rows and their existence alone is a stutter.         *)
LEMMA Stutter ==
    ASSUME UNCHANGED <<created, tasks>>
    PROVE  statusOf' = statusOf
BY DEF statusOf

(* Writing the row of an existing task changes that task's status only.    *)
LEMMA WriteMaps ==
    ASSUME TypeOK, NEW t \in created, NEW row \in Row, UNCHANGED created,
           tasks' = [tasks EXCEPT ![t] = row]
    PROVE  statusOf' = [statusOf EXCEPT ![t] = row.status] /\ statusOf[t] = tasks[t].status
BY DEF statusOf, TypeOK

LEMMA InsertMaps ==
    ASSUME TypeOK, NEW t \in Task, t \notin created, InsertTask(t)
    PROVE  Abstract!Appear(t)
<1>1. statusOf' = [statusOf EXCEPT ![t] = "pending"] /\ statusOf[t] = "none"
  BY DEF statusOf, TypeOK, InsertTask, WriteRow, NewRow
<1> QED BY <1>1 DEF Abstract!Appear, statusOf

(* Under one handler, every step keeps AllFresh and maps to an abstract    *)
(* step or to a stutter.                                                   *)
LEMMA RefinementStep ==
    ASSUME \A g, h \in Handler : g = h,
           TypeOK, SafetyInv, AllFresh, [Next]_gatewayVars
    PROVE  AllFresh' /\ [Abstract!Next]_statusOf
<1> USE GatewayAssumption
<1>f. ASSUME NEW h \in Handler, Fresh(h)'
      PROVE  AllFresh'
  BY <1>f DEF AllFresh
<1>i. ASSUME NEW h \in Handler, handler'[h] = Idle
      PROVE  AllFresh'
  <2>1. Fresh(h)'
    BY <1>i DEF Fresh, Idle
  <2> QED BY <2>1, <1>f
<1>s. ASSUME UNCHANGED <<created, tasks>>
      PROVE  [Abstract!Next]_statusOf
  BY <1>s, Stutter
<1>1. ASSUME NEW h \in Handler, HandlerStep(h)
      PROVE  AllFresh' /\ [Abstract!Next]_statusOf
  <2> DEFINE t == handler[h].task
             to(pc) == [handler[h] EXCEPT !.pc = pc]
  <2>0. handler[h] \in Request
    BY DEF TypeOK
  <2>g. ASSUME NEW pc, Goto(h, pc) PROVE handler'[h] = to(pc)
    BY <2>g DEF Goto, TypeOK
  <2>r. ASSUME Return(h) PROVE AllFresh'
    BY <2>r, <1>i DEF Return, TypeOK
  <2>1. CASE UploadCreateResource(h)
    <3>1. handler[h] \in UploadReq /\ handler'[h] = to("task") /\ UNCHANGED <<created, tasks>>
      BY <2>0, <2>1, <2>g, RequestShape DEF UploadCreateResource, At
    <3>2. to("task").op = "upload" /\ to("task").pc = "task"
      BY <3>1 DEF UploadReq
    <3>3. Fresh(h)'
      BY <3>1, <3>2 DEF Fresh
    <3> QED BY <1>f, <1>s, <3>1, <3>3
  <2>2. CASE UploadResourceFails(h) \/ UploadTaskFails(h) \/ StatusPublish(h) \/ DbError(h)
    BY <1>s, <2>2, <2>r DEF UploadResourceFails, UploadTaskFails, StatusPublish, DbError
  <2>3. CASE UploadCreateTask(h)
    <3>1. /\ handler[h] \in UploadReq /\ t \in Task /\ Early(h)
          /\ InsertTask(t)
      BY <2>0, <2>3, RequestShape DEF UploadCreateTask, At, Early, UploadReq
    <3>2. t \notin created
      BY <3>1 DEF SafetyInv, UploadExclusive
    <3>3. Abstract!Next
      BY <3>1, <3>2, InsertMaps DEF Abstract!Next
    <3>4. CASE Goto(h, "dispatch")
      <4>1. handler'[h] = to("dispatch") /\ to("dispatch").op = "upload" /\ to("dispatch").task = t
        BY <2>g, <3>1, <3>4 DEF UploadReq
      <4>2. t \in created' /\ tasks'[t].status = "pending"
        BY <3>1 DEF InsertTask, WriteRow, NewRow, TypeOK
      <4>3. Fresh(h)'
        BY <4>1, <4>2 DEF Fresh
      <4> QED BY <1>f, <3>3, <4>3
    <3>5. CASE Return(h)
      BY <2>r, <3>3, <3>5
    <3> QED BY <2>3, <3>4, <3>5 DEF UploadCreateTask
  <2>4. CASE UploadMarkFailed(h)
    <3>u. PICK u \in Task : u = t
      BY <2>0, <2>4, RequestShape DEF UploadMarkFailed, At, Idle
    <3>1. u \in created /\ tasks[u].status = "pending" /\ u \in Task
      BY <2>4, <3>u DEF UploadMarkFailed, At, AllFresh, Fresh, TypeOK
    <3> DEFINE row == UpdateStatus(tasks[u], "failed", 0, NoResult, TRUE)
    <3>2. row.status = "failed" /\ tasks' = [tasks EXCEPT ![u] = row] /\ UNCHANGED created
      BY <2>4, <3>u DEF UploadMarkFailed, WriteRow, UpdateStatus
    <3>a. /\ "failed" \in Status /\ 0 \in 0..100 /\ TRUE \in BOOLEAN /\ tasks[u] \in Row
          /\ NoResult \in Result \cup {NoResult}
      BY <3>1 DEF Status, TypeOK
    <3>b. row \in Row
      BY <3>a, UpdateStatusType, Zenon
    <3>3. statusOf' = [statusOf EXCEPT ![u] = "failed"] /\ statusOf[u] = "pending"
      <4> HIDE DEF row
      <4> QED BY <3>1, <3>2, <3>b, WriteMaps
    <3>4. Abstract!DispatchFails(u)
      BY <3>3 DEF Abstract!DispatchFails, statusOf
    <3>5. Abstract!Next
      BY <3>1, <3>4, Zenon DEF Abstract!Next
    <3>6. AllFresh'
      BY <2>4, <2>r DEF UploadMarkFailed
    <3> QED BY <3>5, <3>6
  <2>5. CASE RetryReset(h)
    <3>u. PICK u \in Task : u = t
      BY <2>0, <2>5, RequestShape DEF RetryReset, At, Idle
    <3>1. /\ u \in created /\ tasks[u].status \in {"failed", "completed"} /\ u \in Task
          /\ handler[h] \in RetryReq
      BY <2>0, <2>5, <3>u, RequestShape DEF RetryReset, At, AllFresh, Fresh, TypeOK
    <3> DEFINE row == ResetForRetry(tasks[u])
    <3>2. /\ row \in Row /\ row.status = "pending"
          /\ tasks' = [tasks EXCEPT ![u] = row] /\ UNCHANGED created
      BY <2>5, <3>1, <3>u, OtherRowTypes, OtherCoherent DEF RetryReset, WriteRow, TypeOK
    <3>3. statusOf' = [statusOf EXCEPT ![u] = "pending"] /\ statusOf[u] \in {"failed", "completed"}
      <4> HIDE DEF row
      <4> QED BY <3>1, <3>2, WriteMaps
    <3>4. Abstract!Retry(u)
      BY <3>3 DEF Abstract!Retry, statusOf
    <3>5. AllFresh'
      <4>1. CASE Goto(h, "dispatch")
        <5>1. handler'[h] = to("dispatch") /\ to("dispatch").op = "retry"
              /\ to("dispatch").pc = "dispatch"
          BY <2>g, <3>1, <4>1 DEF RetryReq
        <5>2. Fresh(h)'
          BY <5>1 DEF Fresh
        <5> QED BY <1>f, <5>2
      <4> QED BY <2>5, <2>r, <4>1 DEF RetryReset
    <3>6. Abstract!Next
      BY <3>1, <3>4, Zenon DEF Abstract!Next
    <3> QED BY <3>5, <3>6
  <2>6. CASE StatusWrite(h)
    <3>u. PICK u \in Task : u = t
      BY <2>0, <2>6, RequestShape DEF StatusWrite, At, Idle
    <3>1. /\ u \in created /\ u \in Task /\ handler[h] \in StatusReq
          /\ handler[h].rep \in ReportInput /\ handler[h].progress \in 0..100
          /\ canTransition(tasks[u].status, handler[h].rep.status)
      BY <2>0, <2>6, <3>u, RequestShape
      DEF StatusWrite, At, AllFresh, Fresh, TypeOK, SafetyInv, ReportGrounded, StatusReq
    <3> DEFINE row == applyReport(tasks[u], handler[h].rep, handler[h].progress)
               st  == handler[h].rep.status
    <3>2. tasks[u] \in Row
      BY <3>1 DEF TypeOK
    <3>a. handler[h].rep \in Report
      BY <3>1 DEF StatusReq
    <3>3. row \in Row /\ row.status = st
      BY <3>1, <3>2, <3>a, ApplyReportType, ApplyReportCoherent
    <3>4. tasks' = [tasks EXCEPT ![u] = row] /\ UNCHANGED created
      BY <2>6, <3>u DEF StatusWrite, WriteRow
    <3>5. statusOf' = [statusOf EXCEPT ![u] = st] /\ statusOf[u] = tasks[u].status
      <4> HIDE DEF row, st
      <4>1. statusOf' = [statusOf EXCEPT ![u] = row.status] /\ statusOf[u] = tasks[u].status
        BY <3>1, <3>3, <3>4, WriteMaps
      <4> QED BY <3>3, <4>1
    <3>6. Abstract!Start(u) \/ Abstract!Finish(u)
      <4>1. CASE st = "running"
        BY <3>1, <3>5, <4>1 DEF Abstract!Start, statusOf, canTransition
      <4>2. CASE st # "running"
        <5>1. st \in {"completed", "failed"} /\ tasks[u].status = "running"
          BY <3>1, <4>2 DEF canTransition
        <5> QED BY <3>5, <5>1 DEF Abstract!Finish, statusOf
      <4> QED BY <4>1, <4>2
    <3>7. /\ handler'[h] = to("resource") /\ to("resource").op = "status"
          /\ to("resource").pc = "resource"
      BY <2>6, <2>g, <3>1 DEF StatusWrite, StatusReq
    <3>8. Fresh(h)'
      BY <3>7 DEF Fresh
    <3>9. Abstract!Next
      BY <3>1, <3>6, Zenon DEF Abstract!Next
    <3> QED BY <1>f, <3>8, <3>9
  <2>7. CASE StatusResource(h)
    <3>1. handler[h] \in StatusReq /\ handler'[h] = to("publish") /\ UNCHANGED <<created, tasks>>
      BY <2>0, <2>7, <2>g, RequestShape DEF StatusResource, At
    <3>2. to("publish").op = "status" /\ to("publish").pc = "publish"
      BY <3>1 DEF StatusReq
    <3>3. Fresh(h)'
      BY <3>1, <3>2 DEF Fresh
    <3> QED BY <1>f, <1>s, <3>1, <3>3
  <2>8. CASE ProgressWrite(h)
    <3>1. handler[h] \in ProgressReq /\ t \in Task /\ tasks[t] \in Row
      BY <2>0, <2>8, RequestShape DEF ProgressWrite, At, TypeOK, ProgressReq
    <3>2. \A u \in Task : tasks'[u].status = tasks[u].status
      BY <2>8, <3>1 DEF ProgressWrite, WriteRow, UpdateProgress, TypeOK, Row
    <3>3. statusOf' = statusOf
      BY <2>8, <3>2 DEF statusOf, ProgressWrite
    <3> QED BY <2>8, <2>r, <3>3 DEF ProgressWrite
  <2> QED
    BY <1>1, <2>1, <2>2, <2>3, <2>4, <2>5, <2>6, <2>7, <2>8 DEF HandlerStep
<1>2. ASSUME NEW h \in Handler, NEW accepted \in BOOLEAN, Dispatch(h, accepted)
      PROVE  AllFresh' /\ [Abstract!Next]_statusOf
  <2>1. UNCHANGED <<created, tasks>>
    BY <1>2 DEF Dispatch
  <2>2. CASE Return(h)
    BY <1>i, <1>s, <2>1, <2>2 DEF Return, TypeOK
  <2>3. CASE handler[h].op = "upload" /\ handler[h].pc = "dispatch" /\ Goto(h, "mark")
    <3> DEFINE q == [handler[h] EXCEPT !.pc = "mark"]
    <3>1. q.op = "upload" /\ q.task = handler[h].task
      BY <2>3, RequestShape DEF TypeOK, UploadReq
    <3>2. handler'[h] = q
      BY <2>3 DEF Goto, TypeOK
    <3> HIDE DEF q
    <3>3. Fresh(h)'
      BY <2>1, <2>3, <3>1, <3>2 DEF AllFresh, Fresh
    <3> QED BY <1>f, <1>s, <2>1, <3>3
  <2> QED BY <1>2, <2>2, <2>3 DEF Dispatch
<1>3. ASSUME NEW h \in Handler, NEW t \in Task, UserRequest(h, t)
      PROVE  AllFresh' /\ [Abstract!Next]_statusOf
  <2>1. CASE UploadPut(h, t)
    <3>1. Fresh(h)'
      BY <2>1 DEF UploadPut, Begin, TypeOK, Fresh
    <3> QED BY <1>f, <1>s, <2>1, <3>1 DEF UploadPut
  <2>2. CASE CreateTask(h, t)
    <3>1. Abstract!Next
      BY <2>2, InsertMaps DEF CreateTask, Abstract!Next
    <3>2. Fresh(h)'
      BY <2>2 DEF CreateTask, Begin, TypeOK, Fresh, Idle
    <3> QED BY <1>f, <3>1, <3>2
  <2>3. CASE RetryRead(h, t)
    <3>1. Fresh(h)'
      BY <2>3 DEF RetryRead, Begin, TypeOK, Fresh
    <3> QED BY <1>f, <1>s, <2>3, <3>1 DEF RetryRead
  <2> QED BY <1>3, <2>1, <2>2, <2>3 DEF UserRequest
<1>4. ASSUME NEW h \in Handler, NEW t \in Task, NEW rep \in ReportInput, StatusRead(h, t, rep)
      PROVE  AllFresh' /\ [Abstract!Next]_statusOf
  <2> DEFINE q == [op |-> "status", pc |-> "write", task |-> t, seen |-> tasks[t].status,
                   progress |-> tasks[t].progress, rep |-> rep]
  <2>1. handler'[h] = q /\ UNCHANGED <<created, tasks>> /\ t \in created
        /\ canTransition(tasks[t].status, rep.status)
    BY <1>4 DEF StatusRead, Begin, TypeOK
  <2>2. q.op = "status" /\ q.task = t /\ q.rep = rep
    OBVIOUS
  <2> HIDE DEF q
  <2>3. Fresh(h)'
    BY <2>1, <2>2 DEF Fresh, canTransition
  <2> QED BY <1>f, <1>s, <2>1, <2>3
<1>5. ASSUME NEW h \in Handler, NEW t \in Task, NEW p \in ProgressInput, ProgressRead(h, t, p)
      PROVE  AllFresh' /\ [Abstract!Next]_statusOf
  <2>1. Fresh(h)'
    BY <1>5 DEF ProgressRead, Begin, TypeOK, Fresh
  <2> QED BY <1>f, <1>s, <1>5, <2>1 DEF ProgressRead
<1>6. ASSUME UNCHANGED <<created, tasks, handler>>
      PROVE  AllFresh' /\ [Abstract!Next]_statusOf
  BY <1>6, <1>s DEF AllFresh, Fresh, canTransition
<1>7. CASE GatewayCrash
  <2>1. AllFresh'
    BY <1>7 DEF GatewayCrash, AllFresh, Fresh, Idle
  <2> QED BY <1>7, <1>s, <2>1 DEF GatewayCrash
<1>8. ASSUME NEW h \in Handler, NEW t \in Task,
             \/ \E rep \in ReportInput : StatusReject(h, t, rep)
             \/ \E p \in ProgressInput : ProgressReject(h, t, p)
      PROVE  UNCHANGED gatewayVars
  BY <1>8 DEF StatusReject, ProgressReject
<1>9. ASSUME NEW t \in Task, CooldownElapses(t)
      PROVE  UNCHANGED <<created, tasks, handler>>
  BY <1>9 DEF CooldownElapses
<1> QED
  BY <1>1, <1>2, <1>3, <1>4, <1>5, <1>6, <1>7, <1>8, <1>9 DEF Next, gatewayVars

(* A gateway that serves one request at a time implements the documented   *)
(* status machine, under failing statements, failed dispatches and crashes *)
(* between any two statements.                                             *)
THEOREM SerialGatewayImplementsTaskStatus ==
    ASSUME \A g, h \in Handler : g = h
    PROVE  Spec => AbstractSpec
<1>1. Init => AllFresh /\ Abstract!Init
  BY DEF Init, AllFresh, Fresh, Idle, Abstract!Init
<1>2. TypeOK /\ SafetyInv /\ AllFresh /\ [Next]_gatewayVars => AllFresh' /\ [Abstract!Next]_statusOf
  BY RefinementStep
<1>3. AbstractSpec <=> Abstract!Init /\ [][Abstract!Next]_statusOf
  BY DEF AbstractSpec, Abstract!Spec, statusOf
<1> QED BY <1>1, <1>2, <1>3, GatewayInvariant, PTL DEF Spec

-----------------------------------------------------------------------------
(* RESOURCES FOLLOW THEIR TASKS                                            *)

(* The resource statuses that go with a task's.                            *)
Follows(r, status) ==
    /\ status = "running"   => r = 2
    /\ status = "completed" => r = 3
    /\ status = "failed"    => r \in {1, 4}
    /\ status = "pending"   => r \in {1, 3, 4}

(* The only task of its resource.                                          *)
Sole(t) == \A u \in created : ResourceOf[u] = ResourceOf[t] => u = t

(* A report has been written to the row of t and not yet to its resource.  *)
CarryingOver(h, t) == At(h, "status", "resource") /\ handler[h].task = t

SoleFollows(t) ==
    Sole(t) => \/ Follows(resources[ResourceOf[t]], tasks[t].status)
               \/ \E h \in Handler : CarryingOver(h, t)

(* What the request under way has done to the tables: an upload's resource *)
(* is there and still uploading, a report's status is in the task's row.   *)
Underway(h) ==
    /\ handler[h].op = "upload" =>
          resources[ResourceOf[handler[h].task]] = IF handler[h].pc = "resource" THEN 0 ELSE 1
    /\ At(h, "status", "resource") =>
          tasks[handler[h].task].status = handler[h].rep.status

(* Between the two writes of a report its resource lags behind; a resource *)
(* without a task is still uploading.                                      *)
AgreeInv ==
    /\ \A t \in created : SoleFollows(t)
    /\ \A r \in Resource : (\A t \in created : ResourceOf[t] # r) => resources[r] \in {0, 1}
    /\ \A h \in Handler : Underway(h)

(* A step that leaves the tables alone.                                    *)
LEMMA AgreeMove ==
    ASSUME \A g, h \in Handler : g = h,
           TypeOK, AgreeInv, NEW h \in Handler, ~At(h, "status", "resource"),
           UNCHANGED <<created, resources>>,
           \A u \in Task : tasks'[u].status = tasks[u].status,
           Underway(h)'
    PROVE  AgreeInv'
<1>1. ASSUME NEW t \in created' PROVE SoleFollows(t)'
  <2>1. t \in created /\ SoleFollows(t)
    BY <1>1 DEF AgreeInv
  <2>2. ~CarryingOver(h, t) /\ \A g \in Handler : ~CarryingOver(g, t)
    BY DEF CarryingOver
  <2>3. tasks'[t].status = tasks[t].status
    BY <2>1 DEF TypeOK
  <2> QED
    BY <2>1, <2>2, <2>3 DEF SoleFollows, Sole
<1>2. \A g \in Handler : g = h
  OBVIOUS
<1> QED
  BY <1>1, <1>2 DEF AgreeInv

(* A step that writes the row of one task, or the one of its resource.     *)
LEMMA AgreeWrite ==
    ASSUME \A g, h \in Handler : g = h,
           TypeOK, AgreeInv, NEW h \in Handler, NEW t \in Task,
           At(h, "status", "resource") => handler[h].task = t,
           created' \in {created, created \cup {t}},
           \A u \in Task : u # t => tasks'[u].status = tasks[u].status,
           \A r \in Resource : r # ResourceOf[t] => resources'[r] = resources[r],
           t \in created' \/ \A u \in created : ResourceOf[u] # ResourceOf[t],
           t \in created' => SoleFollows(t)',
           t \notin created' => resources'[ResourceOf[t]] \in {0, 1},
           Underway(h)'
    PROVE  AgreeInv'
<1> USE GatewayAssumption
<1>1. ASSUME NEW u \in created' PROVE SoleFollows(u)'
  <2>1. CASE u = t
    BY <1>1, <2>1
  <2>2. CASE u # t /\ ResourceOf[u] = ResourceOf[t]
    <3>1. u \in created
      BY <1>1, <2>2
    <3>2. t \in created'
      BY <2>2, <3>1
    <3>3. ~Sole(u)'
      BY <2>2, <3>2 DEF Sole
    <3> QED
      BY <3>3 DEF SoleFollows
  <2>3. CASE u # t /\ ResourceOf[u] # ResourceOf[t]
    <3>1. u \in created /\ u \in Task /\ SoleFollows(u) /\ ResourceOf[u] \in Resource
      BY <1>1, <2>3 DEF AgreeInv, TypeOK
    <3>2. \A g \in Handler : ~CarryingOver(g, u)
      BY <2>3 DEF CarryingOver
    <3>3. Sole(u)' => Sole(u)
      BY DEF Sole
    <3>4. tasks'[u].status = tasks[u].status /\ resources'[ResourceOf[u]] = resources[ResourceOf[u]]
      BY <2>3, <3>1
    <3>5. Sole(u) => Follows(resources[ResourceOf[u]], tasks[u].status)
      BY <3>1, <3>2 DEF SoleFollows
    <3> QED
      BY <3>3, <3>4, <3>5 DEF SoleFollows
  <2> QED
    BY <2>1, <2>2, <2>3
<1>2. ASSUME NEW r \in Resource, \A u \in created' : ResourceOf[u] # r
      PROVE  resources'[r] \in {0, 1}
  <2>1. \A u \in created : ResourceOf[u] # r
    BY <1>2
  <2>2. CASE r = ResourceOf[t]
    BY <1>2, <2>2
  <2>3. CASE r # ResourceOf[t]
    BY <2>1, <2>3 DEF AgreeInv
  <2> QED
    BY <2>2, <2>3
<1>3. \A g \in Handler : g = h
  OBVIOUS
<1> QED
  BY <1>1, <1>2, <1>3 DEF AgreeInv

(* A request that begins or goes on with the tables as they are.           *)
LEMMA AgreeRequest ==
    ASSUME \A g, h \in Handler : g = h,
           TypeOK, AgreeInv, SafetyInv, NEW h \in Handler, NEW t \in Task,
           \/ \E accepted \in BOOLEAN : Dispatch(h, accepted)
           \/ UserRequest(h, t) /\ ~CreateTask(h, t)
           \/ \E rep \in ReportInput : StatusRead(h, t, rep)
           \/ \E p \in ProgressInput : ProgressRead(h, t, p)
    PROVE  AgreeInv'
<1> USE DEF Begin, TypeOK
<1>1. CASE \E accepted \in BOOLEAN : Dispatch(h, accepted)
  <2>1. /\ ~At(h, "status", "resource") /\ UNCHANGED <<created, tasks, resources>>
        /\ \/ handler'[h] = Idle
           \/ /\ handler[h].op = "upload" /\ handler[h].pc = "dispatch"
              /\ handler'[h] = [handler[h] EXCEPT !.pc = "mark"]
    BY <1>1 DEF Dispatch, At, Return, Goto
  <2>2. CASE handler'[h] = Idle
    BY <2>1, <2>2, AgreeMove DEF Idle, Underway, At
  <2>3. CASE handler[h].op = "upload" /\ handler[h].pc = "dispatch"
             /\ handler'[h] = [handler[h] EXCEPT !.pc = "mark"]
    <3>1. handler[h] \in UploadReq
      BY <2>3, RequestShape
    <3>2. handler'[h].pc = "mark" /\ handler'[h].task = handler[h].task
      BY <2>3, <3>1 DEF UploadReq
    <3>3. resources[ResourceOf[handler[h].task]] = 1
      BY <2>3 DEF AgreeInv, Underway
    <3>4. Underway(h)'
      BY <2>1, <3>2, <3>3 DEF Underway, At
    <3> QED
      BY <2>1, <3>4, AgreeMove
  <2> QED
    BY <2>1, <2>2, <2>3
<1>2. CASE UploadPut(h, t)
  <2>1. /\ handler'[h] = [op |-> "upload", pc |-> "resource", task |-> t]
        /\ UNCHANGED <<created, tasks, resources>> /\ handler[h] = Idle
        /\ resources[ResourceOf[t]] = 0
    BY <1>2 DEF UploadPut
  <2>2. handler'[h].pc = "resource" /\ handler'[h].task = t
    BY <2>1
  <2>3. Underway(h)'
    BY <2>1, <2>2 DEF Underway, At
  <2> QED
    BY <2>1, <2>3, AgreeMove DEF At, Idle
<1>3. CASE RetryRead(h, t) \/ (\E rep \in ReportInput : StatusRead(h, t, rep))
           \/ (\E p \in ProgressInput : ProgressRead(h, t, p))
  <2>1. /\ handler'[h].op # "upload" /\ handler'[h].pc # "resource" /\ handler[h] = Idle
        /\ UNCHANGED <<created, tasks, resources>>
    BY <1>3 DEF RetryRead, StatusRead, ProgressRead
  <2>2. Underway(h)'
    BY <2>1 DEF Underway, At
  <2> QED
    BY <2>1, <2>2, AgreeMove DEF At, Idle
<1> QED
  BY <1>1, <1>2, <1>3 DEF UserRequest

(* What a report's two writes and a retry do to a row that follows.        *)
LEMMA FollowsFacts ==
    /\ \A st \in ReportStatus : Follows(taskStatusToResourceStatus(st), st)
    /\ \A r, st : Follows(r, st) /\ st \in {"failed", "completed"} => Follows(r, "pending")
    /\ Follows(1, "pending") /\ Follows(1, "failed")
BY DEF Follows, ReportStatus, taskStatusToResourceStatus

(* The steps of a handler.                                                 *)
LEMMA AgreeHandlerStep ==
    ASSUME \A g, h \in Handler : g = h, "resource" \notin Faults,
           TypeOK, SafetyInv, AllFresh, AgreeInv,
           NEW h \in Handler, HandlerStep(h)
    PROVE  AgreeInv'
<1> USE GatewayAssumption
<1> DEFINE q == handler[h]
<1>1. q \in Request /\ \A pc : Goto(h, pc) => handler'[h] = [q EXCEPT !.pc = pc]
  BY DEF TypeOK, Goto
<1>2. Return(h) => handler'[h] = Idle /\ Underway(h)'
  BY DEF TypeOK, Return, Idle, Underway, At
<1>3. PICK t : t = q.task
  OBVIOUS
<1>4. q.op \notin {"idle"} => t \in Task /\ ResourceOf[t] \in Resource
  BY <1>1, <1>3, RequestShape DEF Idle
<1>5. Underway(h)
  BY DEF AgreeInv
<1>6. CASE UploadResourceFails(h) \/ UploadTaskFails(h) \/ StatusPublish(h) \/ DbError(h)
  <2>1. /\ ~At(h, "status", "resource") /\ UNCHANGED <<created, tasks, resources>> /\ Return(h)
    BY <1>6 DEF UploadResourceFails, UploadTaskFails, StatusPublish, DbError, At
  <2> QED
    BY <1>2, <2>1, AgreeMove
<1>7. CASE UploadCreateResource(h)
  <2>1. /\ q.op = "upload" /\ q.pc = "resource" /\ q \in UploadReq
        /\ resources' = [resources EXCEPT ![ResourceOf[t]] = 1]
        /\ handler'[h] = [q EXCEPT !.pc = "task"] /\ UNCHANGED <<created, tasks>>
    BY <1>1, <1>3, <1>7, RequestShape DEF UploadCreateResource, At
  <2>2. handler'[h].task = t /\ handler'[h].pc = "task"
    BY <1>3, <2>1 DEF UploadReq
  <2>3. resources[ResourceOf[t]] = 0
    BY <1>3, <1>5, <2>1 DEF Underway
  <2>4. \A u \in created : ResourceOf[u] # ResourceOf[t]
    BY <2>3 DEF SafetyInv, TaskHasResource
  <2>5. t \notin created'
    BY <2>1, <2>4
  <2>6. resources'[ResourceOf[t]] = 1 /\ \A r \in Resource : r # ResourceOf[t] => resources'[r] = resources[r]
    BY <1>4, <2>1 DEF TypeOK
  <2>7. ~At(h, "status", "resource") /\ \A u \in Task : u # t => tasks'[u].status = tasks[u].status
    BY <2>1 DEF At
  <2>8. Underway(h)'
    BY <2>1, <2>2, <2>6 DEF Underway, At
  <2> QED
    BY <1>4, <2>1, <2>4, <2>5, <2>6, <2>7, <2>8, AgreeWrite
<1>8. CASE UploadCreateTask(h)
  <2>1. /\ q.op = "upload" /\ q.pc = "task" /\ q \in UploadReq /\ InsertTask(t)
        /\ Goto(h, "dispatch") \/ Return(h)
        /\ UNCHANGED resources
    BY <1>1, <1>3, <1>8, RequestShape DEF UploadCreateTask, At
  <2>2. resources[ResourceOf[t]] = 1
    BY <1>3, <1>5, <2>1 DEF Underway
  <2>3. /\ created' = created \cup {t} /\ tasks'[t].status = "pending"
        /\ \A u \in Task : u # t => tasks'[u] = tasks[u]
    BY <1>4, <2>1 DEF InsertTask, WriteRow, NewRow, TypeOK
  <2>4. SoleFollows(t)'
    BY <2>1, <2>2, <2>3, FollowsFacts DEF SoleFollows
  <2>5. Underway(h)'
    <3>1. CASE Goto(h, "dispatch")
      <4>1. handler'[h] = [q EXCEPT !.pc = "dispatch"]
        BY <1>1, <3>1
      <4>2. handler'[h].op = "upload" /\ handler'[h].task = t /\ handler'[h].pc = "dispatch"
        BY <1>3, <2>1, <4>1 DEF UploadReq
      <4> QED
        BY <2>1, <2>2, <4>2 DEF Underway, At
    <3> QED
      BY <1>2, <2>1, <3>1
  <2>6. ~At(h, "status", "resource") /\ t \in created'
        /\ \A u \in Task : u # t => tasks'[u].status = tasks[u].status
    BY <2>1, <2>3 DEF At
  <2> QED
    BY <1>4, <2>1, <2>2, <2>3, <2>4, <2>5, <2>6, AgreeWrite
<1>9. CASE UploadMarkFailed(h)
  <2>1. /\ q.op = "upload" /\ q.pc = "mark" /\ Return(h) /\ UNCHANGED <<created, resources>>
        /\ tasks' = [tasks EXCEPT ![t] = UpdateStatus(tasks[t], "failed", 0, NoResult, TRUE)]
    BY <1>3, <1>9 DEF UploadMarkFailed, At, WriteRow
  <2>2. t \in created /\ resources[ResourceOf[t]] = 1
    BY <1>3, <1>5, <2>1 DEF Underway, AllFresh, Fresh
  <2>3. tasks'[t].status = "failed" /\ \A u \in Task : u # t => tasks'[u] = tasks[u]
    BY <1>4, <2>1 DEF TypeOK, UpdateStatus
  <2>4. SoleFollows(t)'
    BY <2>1, <2>2, <2>3, FollowsFacts DEF SoleFollows
  <2>5. ~At(h, "status", "resource") /\ t \in created'
        /\ \A u \in Task : u # t => tasks'[u].status = tasks[u].status
    BY <2>1, <2>2, <2>3 DEF At
  <2> QED
    BY <1>2, <1>4, <2>1, <2>4, <2>5, AgreeWrite
<1>10. CASE RetryReset(h)
  <2>1. /\ q.op = "retry" /\ q.pc = "reset" /\ q \in RetryReq /\ UNCHANGED <<created, resources>>
        /\ Goto(h, "dispatch") \/ Return(h)
        /\ tasks' = [tasks EXCEPT ![t] = ResetForRetry(tasks[t])]
    BY <1>1, <1>3, <1>10, RequestShape DEF RetryReset, At, WriteRow
  <2>2. t \in created /\ tasks[t].status \in {"failed", "completed"} /\ SoleFollows(t)
    BY <1>3, <2>1 DEF AgreeInv, AllFresh, Fresh
  <2>3. tasks'[t].status = "pending" /\ \A u \in Task : u # t => tasks'[u] = tasks[u]
    BY <1>4, <2>1 DEF TypeOK, ResetForRetry, NewRow
  <2>4. \A g \in Handler : ~CarryingOver(g, t)
    BY <2>1 DEF CarryingOver, At
  <2>5. SoleFollows(t)'
    BY <2>1, <2>2, <2>3, <2>4, FollowsFacts DEF SoleFollows, Sole
  <2>6. Underway(h)'
    <3>1. CASE Goto(h, "dispatch")
      <4>1. handler'[h].op = "retry"
        BY <1>1, <2>1, <3>1 DEF RetryReq
      <4> QED
        BY <4>1 DEF Underway, At
    <3> QED
      BY <1>2, <2>1, <3>1
  <2>7. ~At(h, "status", "resource") /\ t \in created'
        /\ \A u \in Task : u # t => tasks'[u].status = tasks[u].status
    BY <2>1, <2>2, <2>3 DEF At
  <2> QED
    BY <1>4, <2>1, <2>5, <2>6, <2>7, AgreeWrite
<1>11. CASE StatusWrite(h)
  <2>1. /\ q.op = "status" /\ q.pc = "write" /\ q \in StatusReq /\ UNCHANGED <<created, resources>>
        /\ handler'[h] = [q EXCEPT !.pc = "resource"]
        /\ tasks' = [tasks EXCEPT ![t] = applyReport(tasks[t], q.rep, q.progress)]
    BY <1>1, <1>3, <1>11, RequestShape DEF StatusWrite, At, WriteRow
  <2>2. t \in created /\ tasks[t] \in Row /\ q.rep \in Report /\ q.progress \in 0..100
        /\ q.rep \in ReportInput
    BY <1>3, <1>4, <2>1 DEF SafetyInv, ReportGrounded, StatusReq, TypeOK
  <2>3. applyReport(tasks[t], q.rep, q.progress).status = q.rep.status
    BY <2>2 DEF applyReport, UpdateStatus, UpdateStatusWithAttempt
  <2>4. tasks'[t].status = q.rep.status /\ \A u \in Task : u # t => tasks'[u] = tasks[u]
    BY <1>4, <2>1, <2>3 DEF TypeOK
  <2>5. /\ handler'[h].op = "status" /\ handler'[h].pc = "resource"
        /\ handler'[h].task = t /\ handler'[h].rep = q.rep
    BY <1>3, <2>1 DEF StatusReq
  <2>6. SoleFollows(t)'
    BY <2>4, <2>5 DEF SoleFollows, CarryingOver, At
  <2>7. ~At(h, "status", "resource") /\ t \in created'
        /\ \A u \in Task : u # t => tasks'[u].status = tasks[u].status
    BY <2>1, <2>2, <2>4 DEF At
  <2>8. Underway(h)'
    BY <2>4, <2>5 DEF Underway
  <2> QED
    BY <1>4, <2>1, <2>6, <2>7, <2>8, AgreeWrite
<1>12. CASE StatusResource(h)
  <2>1. /\ q.op = "status" /\ q.pc = "resource" /\ q \in StatusReq /\ UNCHANGED <<created, tasks>>
        /\ handler'[h] = [q EXCEPT !.pc = "publish"]
        /\ resources' = [resources EXCEPT ![ResourceOf[t]] = taskStatusToResourceStatus(q.rep.status)]
    BY <1>1, <1>3, <1>12, RequestShape DEF StatusResource, At
  <2>2. t \in created /\ q.rep.status \in ReportStatus
    BY <1>3, <2>1 DEF SafetyInv, ReportGrounded, StatusReq, Report
  <2>3. tasks[t].status = q.rep.status
    BY <1>3, <1>5, <2>1 DEF Underway, At
  <2>4. /\ resources'[ResourceOf[t]] = taskStatusToResourceStatus(q.rep.status)
        /\ \A r \in Resource : r # ResourceOf[t] => resources'[r] = resources[r]
    BY <1>4, <2>1 DEF TypeOK
  <2>5. SoleFollows(t)'
    BY <2>1, <2>2, <2>3, <2>4, FollowsFacts DEF SoleFollows
  <2>6. handler'[h].op = "status" /\ handler'[h].pc = "publish"
    BY <2>1 DEF StatusReq
  <2>7. Underway(h)'
    BY <2>6 DEF Underway, At
  <2>8. t \in created' /\ \A u \in Task : u # t => tasks'[u].status = tasks[u].status
    BY <2>1, <2>2
  <2> QED
    BY <1>3, <1>4, <2>1, <2>4, <2>5, <2>7, <2>8, AgreeWrite
<1>13. CASE ProgressWrite(h)
  <2>1. /\ q.op = "progress" /\ Return(h) /\ UNCHANGED <<created, resources>>
        /\ tasks' = [tasks EXCEPT ![t] = UpdateProgress(tasks[t], q.progress)]
    BY <1>3, <1>13 DEF ProgressWrite, At, WriteRow
  <2>2. tasks[t] \in Row
    BY <1>4, <2>1 DEF TypeOK
  <2>3. \A u \in Task : tasks'[u].status = tasks[u].status
    BY <1>4, <2>1, <2>2 DEF TypeOK, UpdateProgress, Row
  <2>4. ~At(h, "status", "resource")
    BY <2>1 DEF At
  <2> QED
    BY <1>2, <2>1, <2>3, <2>4, AgreeMove
<1> QED
  BY <1>6, <1>7, <1>8, <1>9, <1>10, <1>11, <1>12, <1>13 DEF HandlerStep

LEMMA AgreeStep ==
    ASSUME \A g, h \in Handler : g = h, "resource" \notin Faults, "crash" \notin Faults,
           TypeOK, SafetyInv, AllFresh, AgreeInv, [Next]_gatewayVars
    PROVE  AgreeInv'
<1> USE GatewayAssumption
<1>1. ASSUME NEW h \in Handler, NEW t \in Task, CreateTask(h, t) PROVE AgreeInv'
  <2>1. /\ t \notin created /\ created' = created \cup {t} /\ tasks'[t].status = "pending"
        /\ \A u \in Task : u # t => tasks'[u].status = tasks[u].status
        /\ resources[ResourceOf[t]] # 0 /\ UNCHANGED resources /\ handler[h] = Idle
    BY <1>1 DEF CreateTask, InsertTask, WriteRow, NewRow, TypeOK, Begin
  <2>2. Sole(t)' => \A u \in created : ResourceOf[u] # ResourceOf[t]
    BY <2>1 DEF Sole
  <2>3. Sole(t)' => resources[ResourceOf[t]] = 1
    BY <2>1, <2>2 DEF AgreeInv
  <2>4. SoleFollows(t)'
    BY <2>1, <2>3, FollowsFacts DEF SoleFollows
  <2>5. handler'[h].op \in {"idle", "create"}
    BY <1>1, <2>1 DEF CreateTask, Begin, TypeOK, Idle
  <2>6. Underway(h)' /\ ~At(h, "status", "resource")
    BY <2>1, <2>5 DEF Underway, At, Idle
  <2> QED
    BY <2>1, <2>4, <2>6, AgreeWrite
<1>2. ASSUME UNCHANGED <<created, tasks, resources, handler>> PROVE AgreeInv'
  BY <1>2 DEF AgreeInv, SoleFollows, Sole, CarryingOver, Underway, At
<1>3. ASSUME NEW h \in Handler, HandlerStep(h) PROVE AgreeInv'
  BY <1>3, AgreeHandlerStep
<1>4. ASSUME NEW h \in Handler, NEW accepted \in BOOLEAN, Dispatch(h, accepted) PROVE AgreeInv'
  <2>1. \E t : t \in Task
    BY <1>4, RequestShape DEF Dispatch, TypeOK, Idle
  <2> QED
    BY <1>4, <2>1, AgreeRequest
<1>5. ASSUME NEW h \in Handler, NEW t \in Task,
             \/ UserRequest(h, t)
             \/ \E rep \in ReportInput : StatusRead(h, t, rep)
             \/ \E p \in ProgressInput : ProgressRead(h, t, p)
      PROVE  AgreeInv'
  BY <1>1, <1>5, AgreeRequest
<1>6. ASSUME NEW h \in Handler, NEW t \in Task,
             \/ \E rep \in ReportInput : StatusReject(h, t, rep)
             \/ \E p \in ProgressInput : ProgressReject(h, t, p)
      PROVE  UNCHANGED <<created, tasks, resources, handler>>
  BY <1>6 DEF StatusReject, ProgressReject, gatewayVars
<1>7. ASSUME NEW t \in Task, CooldownElapses(t)
      PROVE  UNCHANGED <<created, tasks, resources, handler>>
  BY <1>7 DEF CooldownElapses
<1>8. ~GatewayCrash
  BY DEF GatewayCrash
<1> QED
  BY <1>2, <1>3, <1>4, <1>5, <1>6, <1>7, <1>8 DEF Next, gatewayVars

(* One request at a time, a resource row that can be written and a gateway *)
(* that stays up: at rest, the status of a resource is the one that its    *)
(* only task's status calls for, through failing statements, refused       *)
(* dispatches and retries (ProcessInternalStatusUpdate writes it second).  *)
THEOREM SerialResourcesAgree ==
    ASSUME \A g, h \in Handler : g = h, "resource" \notin Faults, "crash" \notin Faults
    PROVE  Spec => []ResourceAgrees
<1>1. Init => AllFresh /\ AgreeInv
  BY DEF Init, AllFresh, Fresh, Idle, AgreeInv, Underway, At
<1>2. TypeOK /\ SafetyInv /\ AllFresh /\ [Next]_gatewayVars => AllFresh'
  BY RefinementStep
<1>3. TypeOK /\ SafetyInv /\ AllFresh /\ AgreeInv /\ [Next]_gatewayVars => AgreeInv'
  BY AgreeStep
<1>4. AgreeInv => ResourceAgrees
  <2> SUFFICES ASSUME AgreeInv, NEW t \in created, \A h \in Handler : handler[h] = Idle, Sole(t)
               PROVE  Follows(resources[ResourceOf[t]], tasks[t].status)
    BY DEF ResourceAgrees, Follows, Sole
  <2>1. \A h \in Handler : ~CarryingOver(h, t)
    BY DEF CarryingOver, At, Idle
  <2> QED
    BY <2>1 DEF AgreeInv, SoleFollows
<1> QED
  BY <1>1, <1>2, <1>3, <1>4, GatewayInvariant, PTL DEF Spec
=============================================================================
