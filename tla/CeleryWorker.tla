---------------------------- MODULE CeleryWorker ----------------------------
(***************************************************************************)
(* The Celery side of the AI service: the broker queue, the prefork worker *)
(* processes and the two long-running tasks run_asr and run_pdf_parse with *)
(* their BaseAITask hooks.  A report to the gateway is a synchronous HTTP  *)
(* call with a 5 s timeout and no retry; the process waits for its answer  *)
(* before it goes on.  Who answers, and when a call times out, is left to  *)
(* the composition (TaskPipeline).                                         *)
(*                                                                         *)
(* Messages are acknowledged late and go back to the queue when their      *)
(* process is lost, so a run may start more than once.  No run is retried  *)
(* by Celery: the tasks are declared with autoretry_for=(), and the test   *)
(* that guards their own self.retry does not get that far (RunFails).      *)
(***************************************************************************)
EXTENDS TaskRow, Bags

CONSTANTS
    Proc,           \* worker processes
    MaxRetries,     \* BaseAITask.max_retries: what the tasks are meant to be retried
    MaxRuns         \* bound: how often one task is dispatched

ASSUME WorkerAssumption ==
    /\ MaxRetries \in Nat
    /\ MaxRuns \in Nat \ {0}
    /\ Result = 1..MaxRuns     \* a result is identified by the run it is of
    /\ NoResult = 0

(* A queued message.  run counts the dispatches of the task (a ghost: the  *)
(* code has no run identity).                                              *)
Job == [task : Task, run : 1..MaxRuns]

VARIABLES
    queue,              \* bag of messages in the broker
    proc,               \* what every process does with its message
    call,               \* the report every process waits on
    ended               \* ghost: the runs that are over, with their outcome

workerVars == <<queue, proc, call, ended>>

NoCall == [kind |-> "none"]
Free   == [pc |-> "free"]

WorkerInit ==
    /\ queue = EmptyBag
    /\ proc = [p \in Proc |-> Free]
    /\ call = [p \in Proc |-> NoCall]
    /\ ended = {}

Put(job)  == queue' = queue (+) SetToBag({job})

(* request.retries + 1, and no message is ever a retry.                    *)
_attempt_count == 1

(* The status reports the task bodies and hooks send.                      *)
WorkerReport ==
    LET attempt == {_attempt_count} IN
         [status : {"running"},   result : {NoResult}, error : {FALSE}, attempt : attempt]
    \cup [status : {"completed"}, result : Result,     error : {FALSE}, attempt : attempt]
    \cup [status : {"failed"},    result : {NoResult}, error : {TRUE},  attempt : attempt]

(* GatewayProgressReporter.mark_status and report_progress: post and wait; *)
(* next is where the task body goes on afterwards.                         *)
Report_(p, job, msg, next) ==
    /\ call' = [call EXCEPT ![p] = msg]
    /\ proc' = [proc EXCEPT ![p] = [pc |-> "wait", job |-> job, next |-> next]]

mark_status(p, job, status, result, error, next) ==
    Report_(p, job,
            [kind |-> "status", task |-> job.task,
             rep |-> [status |-> status, result |-> result, error |-> error,
                      attempt |-> _attempt_count]],
            next)

report_progress(p, job, progress, next) ==
    Report_(p, job, [kind |-> "progress", task |-> job.task, progress |-> progress], next)

(* The call is over, answered or not: errors are logged and swallowed.     *)
Resume(p) ==
    /\ proc[p].pc = "wait"
    /\ call' = [call EXCEPT ![p] = NoCall]
    /\ proc' = [proc EXCEPT ![p] =
                  IF @.next = "ack" THEN Free ELSE [pc |-> @.next, job |-> @.job]]
    /\ UNCHANGED <<queue, ended>>

-----------------------------------------------------------------------------
(* POST /asr and /pdf/parse: run_*.delay.                                  *)
Enqueue(t, run) ==
    /\ Put([task |-> t, run |-> run])
    /\ UNCHANGED <<proc, call, ended>>

(* A free process takes a message, in any order.                           *)
Fetch(p, job) ==
    /\ proc[p] = Free
    /\ BagIn(job, queue)
    /\ queue' = queue (-) SetToBag({job})
    /\ proc' = [proc EXCEPT ![p] = [pc |-> "start", job |-> job]]
    /\ UNCHANGED <<call, ended>>

(* Mutant: the running report is forgotten.                                *)
StartRun_Silent(p) ==
    /\ proc[p].pc = "start"
    /\ proc' = [proc EXCEPT ![p] = [pc |-> "work", job |-> proc[p].job]]
    /\ UNCHANGED <<queue, call, ended>>

(* The task body begins with a running report.                             *)
StartRun(p) ==
    /\ proc[p].pc = "start"
    /\ mark_status(p, proc[p].job, "running", NoResult, FALSE, "work")
    /\ UNCHANGED <<queue, ended>>

(* At most one progress report per execution (bound).                      *)
ReportProgress(p, progress) ==
    /\ proc[p].pc = "work"
    /\ report_progress(p, proc[p].job, progress, "worked")
    /\ UNCHANGED <<queue, ended>>

Working(p) == proc[p].pc \in {"work", "worked"}

End(job, ok) == ended' = ended \cup {[task |-> job.task, run |-> job.run, ok |-> ok]}

(* The document is produced; BaseAITask.on_success reports it.             *)
RunSucceeds(p) ==
    /\ Working(p)
    /\ End(proc[p].job, TRUE)
    /\ mark_status(p, proc[p].job, "completed", proc[p].job.run, FALSE, "ack")
    /\ UNCHANGED queue

(* The body fails.  Whatever run_pdf_parse raises is caught, and the test  *)
(* request.retries < request.max_retries asks Celery's request for an      *)
(* attribute only the task has: the AttributeError leaves the handler, and *)
(* neither the retry nor the body's own failed report (which would have    *)
(* set _failure_reported) is reached.  run_asr catches ModelLoadError      *)
(* only, which AsrService.process wraps in an error of its own.  Either    *)
(* way on_failure reports the task failed on its first attempt.            *)
RunFails(p) ==
    /\ Working(p)
    /\ End(proc[p].job, FALSE)
    /\ mark_status(p, proc[p].job, "failed", NoResult, TRUE, "ack")
    /\ UNCHANGED queue

(* Mutant: the loss of a process is reported as a failure of the task,     *)
(* whose message is delivered again all the same.                          *)
WorkerLost_Reported(p) ==
    /\ proc[p] # Free
    /\ Put(proc[p].job)
    /\ mark_status(p, proc[p].job, "failed", NoResult, TRUE, "ack")
    /\ UNCHANGED ended

(* The process dies; its unacknowledged message is delivered again and a   *)
(* fresh process replaces it.                                              *)
WorkerLost(p) ==
    /\ proc[p] # Free
    /\ Put(proc[p].job)
    /\ proc' = [proc EXCEPT ![p] = Free]
    /\ call' = [call EXCEPT ![p] = NoCall]
    /\ UNCHANGED ended

(* The hard time limit: the process is killed and the message acknowledged *)
(* (Celery's default for timeouts); no hook of the task runs.              *)
TimeLimit(p) ==
    /\ Working(p)
    /\ End(proc[p].job, FALSE)
    /\ proc' = [proc EXCEPT ![p] = Free]
    /\ UNCHANGED <<queue, call>>

(* The steps a process takes by itself.                                    *)
WorkerStep(p) == StartRun(p) \/ RunSucceeds(p) \/ RunFails(p)
=============================================================================
