---------------------------- MODULE TaskPipeline ----------------------------
(***************************************************************************)
(* The whole life of a parse task: the gateway's handlers (TaskGateway)    *)
(* composed with the Celery workers (CeleryWorker) over HTTP.  A dispatch  *)
(* enqueues a message; a worker's report occupies a gateway handler until  *)
(* it is answered.  The network may lose a report, answer it too late, or  *)
(* fail a dispatch before or after the AI service queued the message.      *)
(***************************************************************************)
EXTENDS TaskGateway, CeleryWorker, FiniteSets

CONSTANTS
    NetFaults,  \* subset of {"refused", "ambiguous", "loss", "timeout", "workerlost", "timelimit"}
    MaxFaults,  \* bound: how many such faults happen in one behaviour
    MaxUploads, \* bound: how many files are uploaded
    UserOverlap,\* may a task be retried while a retry of it is in flight?
    Progress    \* the progress values workers report

None == "none"
FaultKind == {"refused", "ambiguous", "loss", "timeout", "workerlost", "timelimit"}

ASSUME PipelineAssumption ==
    /\ NetFaults \subseteq FaultKind
    /\ MaxFaults \in Nat
    /\ MaxUploads \in Nat
    /\ UserOverlap \in BOOLEAN
    /\ AutoDispatch = Task
    /\ None \notin Handler

(* What the workers send is what the open gateway was specified for.       *)
ASSUME InterfaceAssumption ==
    /\ WorkerReport \subseteq ReportInput
    /\ Progress \subseteq ProgressInput

VARIABLES
    runs,       \* runs[t]: messages queued for t by dispatches (a ghost)
    taken,      \* taken[p]: the handler that serves p's call, or None
    late,       \* bag of reports whose sender has given up waiting
    denied,     \* the tasks some dispatch of which returned an error (a ghost)
    faults      \* faults so far

netVars == <<runs, taken, late, denied, faults>>
vars == <<gatewayVars, workerVars, netVars>>

PipelineInit ==
    /\ Init
    /\ WorkerInit
    /\ runs = [t \in Task |-> 0]
    /\ taken = [p \in Proc |-> None]
    /\ late = EmptyBag
    /\ denied = {}
    /\ faults = 0

Fault(kind) == kind \in NetFaults /\ faults < MaxFaults /\ faults' = faults + 1

(* A handler slot is free when its request is over and its caller has      *)
(* read the answer.                                                        *)
Accepting(h) == \A p \in Proc : taken[p] # h

-----------------------------------------------------------------------------
Retrying(t) == Cardinality({h \in Handler : handler[h].op = "retry" /\ handler[h].task = t})

(* The bounds on what users do.                                            *)
MayUpload(t) == Cardinality(objects \ {ResourceOf[t]}) < MaxUploads
MayRetry(t)  == runs[t] + Retrying(t) < MaxRuns


User(h, t) ==
    /\ Accepting(h)
    /\ UserOverlap \/ \A g \in Handler : ~(handler[g].op = "retry" /\ handler[g].task = t)
    /\ \/ MayUpload(t) /\ UploadPut(h, t)
       \/ MayRetry(t) /\ RetryRead(h, t)
    /\ UNCHANGED <<workerVars, netVars>>

GatewayStep(h) == HandlerStep(h) /\ UNCHANGED <<workerVars, netVars>>

Cooldown(t) == CooldownElapses(t) /\ UNCHANGED <<workerVars, netVars>>

(* The dispatch reaches the AI service or not, and its 202 reaches the     *)
(* gateway or not.  (MaxRuns is a bound that MayRetry has already kept.)   *)
DispatchQueued(h, accepted) ==
    LET t == handler[h].task IN
    /\ Dispatch(h, accepted)
    /\ runs[t] < MaxRuns
    /\ Enqueue(t, runs[t] + 1)
    /\ runs' = [runs EXCEPT ![t] = @ + 1]
    /\ IF accepted THEN UNCHANGED <<denied, faults>>
                   ELSE denied' = denied \cup {t} /\ Fault("ambiguous")
    /\ UNCHANGED <<taken, late>>

DispatchRefused(h) ==
    /\ Dispatch(h, FALSE)
    /\ denied' = denied \cup {handler[h].task}
    /\ Fault("refused")
    /\ UNCHANGED <<workerVars, runs, taken, late>>

(* A handler starts on a report: the row is read and the report accepted   *)
(* or rejected.                                                            *)
Handle(h, msg) ==
    \/ /\ msg.kind = "status"
       /\ StatusRead(h, msg.task, msg.rep) \/ StatusReject(h, msg.task, msg.rep)
    \/ /\ msg.kind = "progress"
       /\ \/ ProgressRead(h, msg.task, msg.progress)
          \/ ProgressReject(h, msg.task, msg.progress)

Deliver(h, p) ==
    /\ Accepting(h)
    /\ call[p] # NoCall /\ taken[p] = None
    /\ Handle(h, call[p])
    /\ taken' = [taken EXCEPT ![p] = h]
    /\ UNCHANGED <<workerVars, runs, late, denied, faults>>

DeliverLate(h) ==
    /\ Accepting(h)
    /\ \E msg \in BagToSet(late) :
          /\ Handle(h, msg)
          /\ late' = late (-) SetToBag({msg})
    /\ UNCHANGED <<workerVars, runs, taken, denied, faults>>

Answer(p) ==
    /\ taken[p] # None /\ handler[taken[p]] = Idle
    /\ Resume(p)
    /\ taken' = [taken EXCEPT ![p] = None]
    /\ UNCHANGED <<gatewayVars, runs, late, denied, faults>>

(* The sender gives up: the report may still be waiting or being handled.  *)
TimeOut(p) ==
    /\ Fault("timeout")
    /\ Resume(p)
    /\ taken' = [taken EXCEPT ![p] = None]
    /\ late' = IF taken[p] = None THEN late (+) SetToBag({call[p]}) ELSE late
    /\ UNCHANGED <<gatewayVars, runs, denied>>

(* The gateway cannot be reached: the report is gone.                      *)
Lose(p) ==
    /\ Fault("loss")
    /\ taken[p] = None
    /\ Resume(p)
    /\ UNCHANGED <<gatewayVars, runs, taken, late, denied>>

Lost(p) ==
    /\ Fault("workerlost")
    /\ WorkerLost(p)
    /\ taken' = [taken EXCEPT ![p] = None]
    /\ UNCHANGED <<gatewayVars, runs, late, denied>>

Killed(p) ==
    /\ Fault("timelimit")
    /\ TimeLimit(p)
    /\ UNCHANGED <<gatewayVars, runs, taken, late, denied>>

Worker(p) ==
    /\ \/ WorkerStep(p)
       \/ \E v \in Progress : ReportProgress(p, v)
    /\ UNCHANGED <<gatewayVars, netVars>>

Take(p) ==
    /\ \E job \in BagToSet(queue) : Fetch(p, job)
    /\ UNCHANGED <<gatewayVars, netVars>>

PipelineNext ==
    \/ \E h \in Handler :
        \/ GatewayStep(h)
        \/ \E accepted \in BOOLEAN : DispatchQueued(h, accepted)
        \/ DispatchRefused(h)
        \/ DeliverLate(h)
        \/ \E t \in Task : User(h, t)
        \/ \E p \in Proc : Deliver(h, p)
    \/ \E p \in Proc : Take(p) \/ Worker(p) \/ Answer(p) \/ TimeOut(p) \/ Lose(p) \/ Lost(p) \/ Killed(p)
    \/ \E t \in Task : Cooldown(t)

PipelineSpec == PipelineInit /\ [][PipelineNext]_vars

(* Handlers and processes are scheduled and HTTP calls are answered; no    *)
(* fairness for users or faults.                                           *)
Fairness ==
    /\ \A h \in Handler :
        /\ WF_vars(GatewayStep(h))
        /\ WF_vars(DispatchQueued(h, TRUE))
        /\ WF_vars(DeliverLate(h))
    /\ \A p \in Proc :
        /\ WF_vars(Take(p))
        /\ WF_vars(Worker(p))
        /\ WF_vars(Answer(p))
        /\ SF_vars(\E h \in Handler : Deliver(h, p))

FairPipeline == PipelineSpec /\ Fairness

-----------------------------------------------------------------------------
(* PROPERTIES                                                              *)

Quiet ==
    /\ queue = EmptyBag /\ late = EmptyBag
    /\ \A p \in Proc : proc[p] = Free
    /\ \A h \in Handler : handler[h] = Idle

(* As long as the network and the workers are reliable no dispatched task  *)
(* is left behind: when nothing is queued, running or in flight, the row   *)
(* of every dispatched task is terminal (so its owner can retry it) and    *)
(* tells the truth: completed exactly when the last run succeeded.         *)
NoTaskLeftBehind ==
    (faults = 0 /\ Quiet) => \A t \in Task : runs[t] > 0 =>
        /\ tasks[t].status \in {"completed", "failed"}
        /\ tasks[t].status = "completed"
              <=> [task |-> t, run |-> runs[t], ok |-> TRUE] \in ended

(* Without faults a completed row holds the result of the latest run,      *)
(* although reports carry no run identity: a retry is refused until the    *)
(* row is terminal, and a row is terminal only when its run is over, so    *)
(* that at most one process works on a task.                               *)
ResultIsCurrent ==
    faults = 0 =>
    /\ \A t \in Task : tasks[t].status = "completed" => tasks[t].result = runs[t]
    /\ \A p, q \in Proc :
          (Working(p) /\ Working(q) /\ proc[p].job.task = proc[q].job.task) => p = q

(* The documented automatic retries: a dispatched task is reported failed  *)
(* only after max_retries more attempts.  Violated: see RunFails.          *)
FailedAfterAllAttempts ==
    \A t \in Task : (runs[t] > 0 /\ tasks[t].status = "failed")
        => tasks[t].retry_count = MaxRetries + 1

(* Every dispatched task reaches a terminal status, unless a fault happens *)
(* on the way.                                                             *)
DispatchedTerminates ==
    \A t \in Task :
        (runs[t] > 0 /\ tasks[t].status = "pending")
            ~> (tasks[t].status \in {"completed", "failed"} \/ faults > 0)

(* What survives lost, late and repeated reports, lost workers and         *)
(* ambiguous dispatches: the result of a completed row is one that a run   *)
(* of this very task produced.                                             *)
ResultWasProduced ==
    \A t \in Task : tasks[t].status = "completed" =>
        [task |-> t, run |-> tasks[t].result, ok |-> TRUE] \in ended

(* Neither a lost, late or repeated report nor a dead worker invents an    *)
(* outcome: a failed row is one whose task a run really failed, or whose   *)
(* dispatch the gateway saw fail.                                          *)
FailureWasReal ==
    \A t \in Task : tasks[t].status = "failed" =>
        t \in denied \/ \E e \in ended : e.task = t /\ ~e.ok

(* The documented test "completed cannot go back to running".  Violated    *)
(* with two user requests at a time (UserOverlap = TRUE); see README.      *)
CompletedNotReopened ==
    [][\A t \in Task : tasks[t].status = "completed" => tasks'[t].status # "running"]_tasks
=============================================================================
