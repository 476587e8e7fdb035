------------------------- MODULE TaskPipelineProofs -------------------------
(***************************************************************************)
(* Proofs about TaskPipeline, for any number of tasks, request goroutines  *)
(* and worker processes: with every fault of the network, the workers and  *)
(* the database, then up to the first fault.                               *)
(***************************************************************************)
EXTENDS TaskPipeline, TaskGatewayProofs

-----------------------------------------------------------------------------
(* TYPES OF THE COMPOSED SYSTEM                                            *)

Executing == [pc : {"start", "work", "worked"}, job : Job]
Waiting   == [pc : {"wait"}, job : Job, next : {"work", "worked", "ack"}]
Process   == {Free} \cup Executing \cup Waiting

StatusMsg   == [kind : {"status"}, task : Task, rep : WorkerReport]
ProgressMsg == [kind : {"progress"}, task : Task, progress : Progress]
Message     == StatusMsg \cup ProgressMsg

Outcome == [task : Task, run : 1..MaxRuns, ok : BOOLEAN]

(* A process waits exactly while it has a call, and the call is about the  *)
(* task of its message.                                                    *)
CallsMatch ==
    \A p \in Proc :
        /\ call[p] # NoCall <=> proc[p].pc = "wait"
        /\ proc[p].pc = "wait" => call[p].task = proc[p].job.task

WorkerTypeOK ==
    /\ BagToSet(queue) \subseteq Job
    /\ proc \in [Proc -> Process]
    /\ call \in [Proc -> Message \cup {NoCall}]
    /\ ended \subseteq Outcome
    /\ CallsMatch

NetTypeOK ==
    /\ runs \in [Task -> 0..MaxRuns]
    /\ taken \in [Proc -> Handler \cup {None}]
    /\ BagToSet(late) \subseteq Message
    /\ denied \subseteq Task
    /\ faults \in Nat

PipelineTypeOK == TypeOK /\ WorkerTypeOK /\ NetTypeOK

(* What makes a report true: a run of the task that ended that way, among  *)
(* the outcomes E.                                                         *)
Backed(t, rep, E) ==
    /\ rep.status = "completed" => [task |-> t, run |-> rep.result, ok |-> TRUE] \in E
    /\ rep.status = "failed"    => \E e \in E : e.task = t /\ ~e.ok

(* The same for a message, for a request (an upload is about to write      *)
(* "failed" only for a task in D, the denied ones) and for a row.          *)
MsgBacked(m, E) == m.kind = "status" => Backed(m.task, m.rep, E)

ReqBacked(q, E, D) ==
    /\ q.op = "status" => Backed(q.task, q.rep, E)
    /\ q.op = "upload" /\ q.pc = "mark" => q.task \in D

RowBacked(t, row, E, D) ==
    /\ row.status = "completed" => [task |-> t, run |-> row.result, ok |-> TRUE] \in E
    /\ row.status = "failed"    => t \in D \/ \E e \in E : e.task = t /\ ~e.ok

(* Every report that is on its way or being processed is true, wherever it *)
(* has got to, and so is every "failed" an upload is about to write.       *)
ReportsBacked ==
    /\ \A p \in Proc : MsgBacked(call[p], ended)
    /\ \A m \in BagToSet(late) : MsgBacked(m, ended)
    /\ \A h \in Handler : ReqBacked(handler[h], ended, denied)

ProvenanceInv == ReportsBacked /\ ResultWasProduced /\ FailureWasReal

-----------------------------------------------------------------------------
(* Facts about bags of messages.                                           *)

(* Adding a message to a bag, taking one out, and starting with none.      *)
LEMMA BagFacts ==
    /\ \A B, x : BagToSet(B (+) SetToBag({x})) = BagToSet(B) \cup {x}
    /\ \A B, x : BagToSet(B (-) SetToBag({x})) \subseteq BagToSet(B)
    /\ BagToSet(EmptyBag) = {}
BY DEF BagToSet, SetToBag, EmptyBag, (+), (-)

(* The pc of a process and the kind of a message tell which record it is.  *)
LEMMA WorkerShapes ==
    /\ \A q \in Process :
          /\ q # Free => q.job \in Job
          /\ q.pc \in {"start", "work", "worked"} => q \in Executing
          /\ q.pc = "wait" => q \in Waiting
    /\ \A m \in Message :
          /\ m # NoCall /\ m.task \in Task
          /\ m.kind = "status" => m \in StatusMsg
          /\ m.kind = "progress" => m \in ProgressMsg
          /\ m.kind \in {"status", "progress"}
    /\ Free.pc \notin {"start", "work", "worked", "wait"}
BY DEF Process, Executing, Waiting, Free, Message, StatusMsg, ProgressMsg, NoCall

-----------------------------------------------------------------------------
(* THE WORKERS KEEP THEIR TYPES                                            *)

(* A process that posts a report and waits.                                *)
LEMMA PostType ==
    ASSUME WorkerTypeOK, NEW p \in Proc, NEW job \in Job, NEW msg \in Message,
           msg.task = job.task, NEW next \in {"work", "worked", "ack"},
           Report_(p, job, msg, next), BagToSet(queue') \subseteq Job, ended' \subseteq Outcome
    PROVE  WorkerTypeOK'
<1> DEFINE w == [pc |-> "wait", job |-> job, next |-> next]
<1>1. w \in Process /\ w.pc = "wait" /\ w.job = job
  BY DEF Process, Waiting
<1>2. proc' = [proc EXCEPT ![p] = w] /\ call' = [call EXCEPT ![p] = msg]
  BY DEF Report_
<1> HIDE DEF w
<1>3. proc' \in [Proc -> Process] /\ call' \in [Proc -> Message \cup {NoCall}]
  BY <1>1, <1>2 DEF WorkerTypeOK
<1>4. CallsMatch'
  BY <1>1, <1>2, WorkerShapes DEF WorkerTypeOK, CallsMatch
<1> QED BY <1>3, <1>4 DEF WorkerTypeOK

(* The body of a status report.                                            *)
LEMMA StatusReportType ==
    ASSUME NEW job \in Job
    PROVE  /\ [status |-> "running", result |-> NoResult, error |-> FALSE,
               attempt |-> _attempt_count] \in WorkerReport
           /\ [status |-> "completed", result |-> job.run, error |-> FALSE,
               attempt |-> _attempt_count] \in WorkerReport
           /\ [status |-> "failed", result |-> NoResult, error |-> TRUE,
               attempt |-> _attempt_count] \in WorkerReport
<1>1. job.run \in Result
  BY WorkerAssumption DEF Job
<1> QED BY <1>1 DEF WorkerReport

(* A status report, as on_success, on_failure and the task bodies send it. *)
LEMMA MarkType ==
    ASSUME WorkerTypeOK, NEW p \in Proc, NEW job \in Job, NEW rep \in WorkerReport,
           NEW next \in {"work", "worked", "ack"},
           Report_(p, job, [kind |-> "status", task |-> job.task, rep |-> rep], next),
           BagToSet(queue') \subseteq Job, ended' \subseteq Outcome
    PROVE  WorkerTypeOK'
<1> DEFINE msg == [kind |-> "status", task |-> job.task, rep |-> rep]
<1>1. msg \in Message /\ msg.task = job.task
  BY DEF Message, StatusMsg, Job
<1> HIDE DEF msg
<1> QED BY <1>1, PostType DEF msg

(* A process whose call is over goes where it said it would.               *)
LEMMA ResumeType ==
    ASSUME WorkerTypeOK, NEW p \in Proc, Resume(p)
    PROVE  WorkerTypeOK'
<1>0. proc[p] \in Waiting
  BY WorkerShapes DEF Resume, WorkerTypeOK
<1>1. PICK q \in {Free} \cup Executing : proc' = [proc EXCEPT ![p] = q]
  <2>1. [pc |-> proc[p].next, job |-> proc[p].job] \in Executing \/ proc[p].next = "ack"
    BY <1>0 DEF Waiting, Executing
  <2> QED BY <2>1 DEF Resume
<1>2. q \in Process /\ q.pc # "wait"
  BY <1>1 DEF Process, Executing, Free
<1>3. call' = [call EXCEPT ![p] = NoCall] /\ UNCHANGED <<queue, ended>>
  BY DEF Resume
<1>4. CallsMatch'
  BY <1>1, <1>2, <1>3 DEF WorkerTypeOK, CallsMatch
<1> QED BY <1>1, <1>2, <1>3, <1>4 DEF WorkerTypeOK

(* A process that is done with its message.                                *)
LEMMA ReleaseType ==
    ASSUME WorkerTypeOK, NEW p \in Proc, proc' = [proc EXCEPT ![p] = Free],
           \/ proc[p].pc # "wait" /\ UNCHANGED call
           \/ call' = [call EXCEPT ![p] = NoCall],
           BagToSet(queue') \subseteq Job, ended' \subseteq Outcome
    PROVE  WorkerTypeOK'
<1>1. Free \in Process /\ Free.pc # "wait"
  BY DEF Process, Free
<1>2. CallsMatch'
  BY <1>1 DEF WorkerTypeOK, CallsMatch
<1> QED BY <1>1, <1>2 DEF WorkerTypeOK

(* A message put into the queue or taken out of it.                        *)
LEMMA PutFact ==
    ASSUME NEW job, Put(job)
    PROVE  BagToSet(queue') = BagToSet(queue) \cup {job}
<1>1. queue' = queue (+) SetToBag({job})
  BY DEF Put
<1> QED BY <1>1, BagFacts

LEMMA FetchFact ==
    ASSUME NEW p, NEW job, Fetch(p, job)
    PROVE  BagToSet(queue') \subseteq BagToSet(queue)
<1>1. queue' = queue (-) SetToBag({job})
  BY DEF Fetch
<1> QED BY <1>1, BagFacts

(* The outcome of a run.                                                   *)
LEMMA EndType ==
    ASSUME NEW job \in Job, NEW ok \in BOOLEAN, ended \subseteq Outcome, End(job, ok)
    PROVE  ended' \subseteq Outcome
<1>1. [task |-> job.task, run |-> job.run, ok |-> ok] \in Outcome
  BY DEF Outcome, Job
<1> QED BY <1>1 DEF End

(* Every step of a worker process keeps the types of the AI service.       *)
LEMMA WorkerTypeStep ==
    ASSUME WorkerTypeOK, NEW p \in Proc, WorkerStep(p)
    PROVE  WorkerTypeOK'
<1> DEFINE job == proc[p].job
<1>a. proc[p] \in Process /\ BagToSet(queue) \subseteq Job /\ ended \subseteq Outcome
  BY DEF WorkerTypeOK
<1>b. proc[p].pc \in {"start", "work", "worked"} => job \in Job /\ proc[p].pc # "wait"
  BY <1>a, WorkerShapes DEF Executing
<1>c. Working(p) => job \in Job /\ proc[p].pc # "wait"
  BY <1>b DEF Working
<1>d. job \in Job /\ (End(job, TRUE) \/ End(job, FALSE)) => ended' \subseteq Outcome
  BY <1>a, EndType, Zenon
<1> HIDE DEF job
<1>1. CASE StartRun(p)
  <2>1. /\ job \in Job /\ UNCHANGED <<queue, ended>>
        /\ mark_status(p, job, "running", NoResult, FALSE, "work")
    BY <1>1, <1>b DEF StartRun, job
  <2> QED BY <1>a, <2>1, MarkType, StatusReportType DEF mark_status
<1>2. CASE RunSucceeds(p)
  <2>1. /\ job \in Job /\ UNCHANGED queue /\ End(job, TRUE)
        /\ mark_status(p, job, "completed", job.run, FALSE, "ack")
    BY <1>2, <1>c DEF RunSucceeds, job
  <2>2. ended' \subseteq Outcome
    BY <1>d, <2>1
  <2> QED BY <1>a, <2>1, <2>2, MarkType, StatusReportType DEF mark_status
<1>3. CASE RunFails(p)
  <2>1. /\ job \in Job /\ UNCHANGED queue /\ End(job, FALSE)
        /\ mark_status(p, job, "failed", NoResult, TRUE, "ack")
    BY <1>3, <1>c DEF RunFails, job
  <2>2. ended' \subseteq Outcome
    BY <1>d, <2>1
  <2> QED BY <1>a, <2>1, <2>2, MarkType, StatusReportType DEF mark_status
<1> QED
  BY <1>1, <1>2, <1>3 DEF WorkerStep

(* A progress report, a fetched message, a lost or killed process and a    *)
(* queued dispatch.                                                        *)
LEMMA WorkerOtherTypes ==
    ASSUME WorkerTypeOK
    PROVE  /\ \A p \in Proc, v \in Progress : ReportProgress(p, v) => WorkerTypeOK'
           /\ \A p \in Proc, job \in BagToSet(queue) : Fetch(p, job) => WorkerTypeOK'
           /\ \A p \in Proc : WorkerLost(p) => WorkerTypeOK'
           /\ \A p \in Proc : TimeLimit(p) => WorkerTypeOK'
           /\ \A t \in Task, n \in 1..MaxRuns : Enqueue(t, n) => WorkerTypeOK'
<1>a. BagToSet(queue) \subseteq Job /\ ended \subseteq Outcome
  BY DEF WorkerTypeOK
<1>1. ASSUME NEW p \in Proc, NEW v \in Progress, ReportProgress(p, v)
      PROVE  WorkerTypeOK'
  <2> DEFINE job == proc[p].job
             msg == [kind |-> "progress", task |-> job.task, progress |-> v]
  <2>1. job \in Job
    BY <1>1, WorkerShapes DEF ReportProgress, WorkerTypeOK, Free
  <2>2. msg \in Message /\ msg.task = job.task
    BY <2>1 DEF Message, ProgressMsg, Job
  <2>3. Report_(p, job, msg, "worked") /\ UNCHANGED <<queue, ended>>
    BY <1>1 DEF ReportProgress, report_progress
  <2> HIDE DEF job, msg
  <2> QED BY <1>a, <2>1, <2>2, <2>3, PostType
<1>2. ASSUME NEW p \in Proc, NEW job \in BagToSet(queue), Fetch(p, job)
      PROVE  WorkerTypeOK'
  <2> DEFINE q == [pc |-> "start", job |-> job]
  <2>1. q \in Process /\ q.pc # "wait" /\ proc[p].pc # "wait"
    BY <1>2, <1>a DEF Process, Executing, Fetch, Free
  <2>2. proc' = [proc EXCEPT ![p] = q] /\ UNCHANGED <<call, ended>>
    BY <1>2 DEF Fetch
  <2>3. BagToSet(queue') \subseteq Job
    BY <1>2, <1>a, FetchFact
  <2> HIDE DEF q
  <2>4. CallsMatch'
    BY <2>1, <2>2 DEF WorkerTypeOK, CallsMatch
  <2> QED BY <2>1, <2>2, <2>3, <2>4 DEF WorkerTypeOK
<1>3. ASSUME NEW p \in Proc, WorkerLost(p)
      PROVE  WorkerTypeOK'
  <2>1. proc[p].job \in Job
    BY <1>3, WorkerShapes DEF WorkerLost, WorkerTypeOK
  <2>2. BagToSet(queue') \subseteq Job
    BY <1>3, <1>a, <2>1, PutFact DEF WorkerLost
  <2> QED BY <1>3, <1>a, <2>2, ReleaseType DEF WorkerLost
<1>4. ASSUME NEW p \in Proc, TimeLimit(p)
      PROVE  WorkerTypeOK'
  <2>1. proc[p].job \in Job /\ proc[p].pc # "wait"
    BY <1>4, WorkerShapes DEF TimeLimit, Working, WorkerTypeOK, Free
  <2>2. ended' \subseteq Outcome
    BY <1>4, <1>a, <2>1, EndType, Zenon DEF TimeLimit
  <2> QED BY <1>4, <1>a, <2>1, <2>2, ReleaseType DEF TimeLimit
<1>5. ASSUME NEW t \in Task, NEW n \in 1..MaxRuns, Enqueue(t, n)
      PROVE  WorkerTypeOK'
  <2>1. [task |-> t, run |-> n] \in Job
    BY DEF Job
  <2>2. BagToSet(queue') \subseteq Job
    BY <1>5, <1>a, <2>1, PutFact DEF Enqueue
  <2> QED BY <1>5, <2>2 DEF Enqueue, WorkerTypeOK, CallsMatch
<1> QED BY <1>1, <1>2, <1>3, <1>4, <1>5

-----------------------------------------------------------------------------
(* THE COMPOSED SYSTEM RUNS THE GATEWAY AS IT WAS SPECIFIED                *)

(* Handling a message of a worker is one of the open gateway's steps.      *)
LEMMA HandleSim ==
    ASSUME NEW h \in Handler, NEW msg \in Message, Handle(h, msg)
    PROVE  Next
<1>1. CASE msg.kind = "status"
  <2>1. msg.task \in Task /\ msg.rep \in ReportInput
    BY <1>1, WorkerShapes, InterfaceAssumption DEF StatusMsg
  <2>2. PICK rep \in ReportInput : rep = msg.rep
    BY <2>1
  <2>3. PICK t \in Task : t = msg.task
    BY <2>1
  <2>4. StatusRead(h, t, rep) \/ StatusReject(h, t, rep)
    BY <1>1, <2>2, <2>3 DEF Handle
  <2> QED BY <2>4 DEF Next
<1>2. CASE msg.kind = "progress"
  <2>1. msg.task \in Task /\ msg.progress \in ProgressInput
    BY <1>2, WorkerShapes, InterfaceAssumption DEF ProgressMsg
  <2>2. PICK v \in ProgressInput : v = msg.progress
    BY <2>1
  <2>3. PICK t \in Task : t = msg.task
    BY <2>1
  <2>4. ProgressRead(h, t, v) \/ ProgressReject(h, t, v)
    BY <1>2, <2>2, <2>3 DEF Handle
  <2> QED BY <2>4 DEF Next
<1> QED BY <1>1, <1>2, WorkerShapes

(* Every step of the pipeline is a step of the gateway or leaves it alone. *)
LEMMA GatewaySim ==
    ASSUME PipelineTypeOK, [PipelineNext]_vars
    PROVE  [Next]_gatewayVars
<1>1. ASSUME NEW h \in Handler, GatewayStep(h) PROVE Next
  BY <1>1 DEF GatewayStep, Next
<1>2. ASSUME NEW h \in Handler, NEW accepted \in BOOLEAN, DispatchQueued(h, accepted) PROVE Next
  BY <1>2 DEF DispatchQueued, Next
<1>3. ASSUME NEW h \in Handler, DispatchRefused(h) PROVE Next
  <2>1. Dispatch(h, FALSE) /\ FALSE \in BOOLEAN
    BY <1>3 DEF DispatchRefused
  <2> QED BY <2>1, Zenon DEF Next
<1>4. ASSUME NEW h \in Handler, DeliverLate(h) PROVE Next
  <2>1. PICK msg \in BagToSet(late) : Handle(h, msg)
    BY <1>4 DEF DeliverLate
  <2>2. msg \in Message
    BY <2>1 DEF PipelineTypeOK, NetTypeOK
  <2> QED BY <2>1, <2>2, HandleSim
<1>5. ASSUME NEW h \in Handler, NEW t \in Task, User(h, t) PROVE Next
  BY <1>5 DEF User, Next, UserRequest
<1>6. ASSUME NEW h \in Handler, NEW p \in Proc, Deliver(h, p) PROVE Next
  <2>1. PICK msg \in Message : msg = call[p]
    BY <1>6 DEF Deliver, PipelineTypeOK, WorkerTypeOK
  <2> QED BY <1>6, <2>1, HandleSim DEF Deliver
<1>7. ASSUME NEW p \in Proc,
             \/ Take(p) \/ Worker(p) \/ Answer(p) \/ TimeOut(p)
             \/ Lose(p) \/ Lost(p) \/ Killed(p)
      PROVE  UNCHANGED gatewayVars
  BY <1>7 DEF Take, Worker, Answer, TimeOut, Lose, Lost, Killed
<1>8. ASSUME NEW t \in Task, Cooldown(t) PROVE Next
  BY <1>8 DEF Cooldown, Next
<1>9. CASE UNCHANGED vars
  BY <1>9 DEF vars
<1> QED
  BY <1>1, <1>2, <1>3, <1>4, <1>5, <1>6, <1>7, <1>8, <1>9 DEF PipelineNext

(* The workers and the network keep their types.                           *)
LEMMA PipelineTypeStep ==
    ASSUME PipelineTypeOK, [PipelineNext]_vars
    PROVE  PipelineTypeOK'
<1> USE DEF NetTypeOK
<1>a. WorkerTypeOK /\ NetTypeOK /\ TypeOK /\ None \in Handler \cup {None}
  BY DEF PipelineTypeOK
<1>b. WorkerTypeOK' /\ NetTypeOK' => PipelineTypeOK'
  BY <1>a, TypeStep, GatewaySim DEF PipelineTypeOK
<1>w. UNCHANGED workerVars => WorkerTypeOK'
  BY <1>a DEF workerVars, WorkerTypeOK, CallsMatch
<1>n. UNCHANGED netVars => NetTypeOK'
  BY <1>a DEF netVars
<1>1. ASSUME NEW h \in Handler, GatewayStep(h) \/ (\E t \in Task : User(h, t)) PROVE PipelineTypeOK'
  BY <1>1, <1>b, <1>w, <1>n DEF GatewayStep, User
<1>2. ASSUME NEW h \in Handler, NEW accepted \in BOOLEAN, DispatchQueued(h, accepted)
      PROVE  PipelineTypeOK'
  <2>1. /\ handler[h] # Idle /\ handler[h] \in Request
    BY <1>2, <1>a DEF DispatchQueued, Dispatch, Idle, TypeOK
  <2>2. PICK t \in Task : t = handler[h].task
    BY <2>1, RequestShape
  <2>3. PICK n \in 1..MaxRuns : n = runs[t] + 1
    BY <1>2, <1>a, <2>2, WorkerAssumption DEF DispatchQueued
  <2>4. Enqueue(t, n) /\ runs' = [runs EXCEPT ![t] = n] /\ UNCHANGED <<taken, late>>
        /\ denied' \subseteq denied \cup {t} /\ (faults' = faults \/ faults' = faults + 1)
    BY <1>2, <2>2, <2>3 DEF DispatchQueued, Fault
  <2>5. WorkerTypeOK'
    BY <1>a, <2>4, WorkerOtherTypes
  <2>6. NetTypeOK'
    BY <1>a, <2>4
  <2> QED BY <1>b, <2>5, <2>6
<1>3. ASSUME NEW h \in Handler, DispatchRefused(h) PROVE PipelineTypeOK'
  <2>1. handler[h] # Idle /\ handler[h] \in Request
    BY <1>3, <1>a DEF DispatchRefused, Dispatch, Idle, TypeOK
  <2>2. handler[h].task \in Task
    BY <2>1, RequestShape
  <2> QED BY <1>3, <1>a, <1>b, <1>w, <2>2 DEF DispatchRefused, Fault
<1>4. ASSUME NEW h \in Handler, DeliverLate(h) PROVE PipelineTypeOK'
  <2>1. PICK msg : late' = late (-) SetToBag({msg})
    BY <1>4 DEF DeliverLate
  <2>2. BagToSet(late') \subseteq BagToSet(late)
    BY <2>1, BagFacts
  <2> QED BY <1>4, <1>a, <1>b, <1>w, <2>2 DEF DeliverLate
<1>5. ASSUME NEW h \in Handler, NEW p \in Proc, Deliver(h, p) PROVE PipelineTypeOK'
  BY <1>5, <1>a, <1>b, <1>w DEF Deliver
<1>6. ASSUME NEW p \in Proc, Take(p) PROVE PipelineTypeOK'
  BY <1>6, <1>a, <1>b, <1>n, WorkerOtherTypes DEF Take
<1>7. ASSUME NEW p \in Proc, Worker(p) PROVE PipelineTypeOK'
  BY <1>7, <1>a, <1>b, <1>n, WorkerOtherTypes, WorkerTypeStep DEF Worker
<1>8. ASSUME NEW p \in Proc, Answer(p) \/ Lose(p) PROVE PipelineTypeOK'
  BY <1>8, <1>a, <1>b, ResumeType DEF Answer, Lose, Fault
<1>9. ASSUME NEW p \in Proc, TimeOut(p) PROVE PipelineTypeOK'
  <2>1. /\ WorkerTypeOK' /\ taken' = [taken EXCEPT ![p] = None] /\ UNCHANGED <<runs, denied>>
        /\ faults' = faults + 1
    BY <1>9, <1>a, ResumeType DEF TimeOut, Fault
  <2>2. call[p] \in Message
    BY <1>9, <1>a DEF TimeOut, Resume, WorkerTypeOK, CallsMatch
  <2>3. late' = late (+) SetToBag({call[p]}) \/ late' = late
    BY <1>9 DEF TimeOut
  <2>4. BagToSet(late (+) SetToBag({call[p]})) = BagToSet(late) \cup {call[p]}
    BY BagFacts
  <2>5. BagToSet(late') \subseteq Message
    BY <1>a, <2>2, <2>3, <2>4
  <2> QED BY <1>a, <1>b, <2>1, <2>5
<1>10. ASSUME NEW p \in Proc, Lost(p) \/ Killed(p) PROVE PipelineTypeOK'
  BY <1>10, <1>a, <1>b, WorkerOtherTypes DEF Lost, Killed, Fault
<1>11. ASSUME NEW t \in Task, Cooldown(t) PROVE PipelineTypeOK'
  BY <1>11, <1>b, <1>w, <1>n DEF Cooldown
<1>12. CASE UNCHANGED vars
  BY <1>12, <1>b, <1>w, <1>n DEF vars
<1> QED
  BY <1>1, <1>2, <1>3, <1>4, <1>5, <1>6, <1>7, <1>8, <1>9, <1>10, <1>11, <1>12 DEF PipelineNext

LEMMA PipelineTypeInit == PipelineInit => PipelineTypeOK
<1> SUFFICES ASSUME PipelineInit PROVE PipelineTypeOK
  OBVIOUS
<1>1. TypeOK
  BY TypeInit DEF PipelineInit
<1>2. WorkerTypeOK
  <2>1. Free \in Process /\ NoCall \in Message \cup {NoCall} /\ Free.pc # "wait"
    BY DEF Process, Free
  <2>2. CallsMatch
    BY <2>1 DEF PipelineInit, WorkerInit, CallsMatch
  <2> QED BY <2>1, <2>2, BagFacts DEF PipelineInit, WorkerInit, WorkerTypeOK
<1>3. NetTypeOK
  BY BagFacts, WorkerAssumption DEF PipelineInit, NetTypeOK
<1> QED BY <1>1, <1>2, <1>3 DEF PipelineTypeOK

(* Rows, requests, messages, processes and reports keep their types in the *)
(* composed system; in particular every report a worker sends is one the   *)
(* internal API accepts and fits the row's columns (retry_count is a       *)
(* uint8).                                                                 *)
THEOREM PipelineTypeCorrect == PipelineSpec => []PipelineTypeOK
BY PipelineTypeInit, PipelineTypeStep, PTL DEF PipelineSpec

(* The workers use the gateway within the interface it was verified for:   *)
(* the composed system implements the open gateway, so that every theorem  *)
(* about the gateway's rows holds of it, under all network and worker      *)
(* faults.                                                                 *)
THEOREM PipelineImplementsGateway == PipelineSpec => Spec
<1>1. PipelineInit => Init
  BY DEF PipelineInit
<1>2. PipelineTypeOK /\ [PipelineNext]_vars => [Next]_gatewayVars
  BY GatewaySim
<1> QED BY <1>1, <1>2, PipelineTypeCorrect, PTL DEF PipelineSpec, Spec

(* So no interleaving of late, repeated or lost reports with retries makes *)
(* a row incoherent, completes a task that was never started, or leaves a  *)
(* task without its resource.                                              *)
THEOREM PipelineRows == PipelineSpec => [](RowCoherent /\ CompletedWasStarted /\ TaskHasResource)
BY PipelineImplementsGateway, RowsCoherent, CompletedAfterStart, TasksHaveResources, PTL

-----------------------------------------------------------------------------
(* PROVENANCE                                                              *)

(* Outcomes are never forgotten, so what was true of a report stays true.  *)
LEMMA BackedStays ==
    ASSUME NEW E, NEW F, E \subseteq F, NEW C, NEW D, C \subseteq D
    PROVE  /\ \A m : MsgBacked(m, E) => MsgBacked(m, F)
           /\ \A q : ReqBacked(q, E, C) => ReqBacked(q, F, D)
           /\ \A t, row : RowBacked(t, row, E, C) => RowBacked(t, row, F, D)
<1>1. \A t, rep : Backed(t, rep, E) => Backed(t, rep, F)
  BY DEF Backed
<1>2. \A t, row : RowBacked(t, row, E, C) => RowBacked(t, row, F, D)
  BY DEF RowBacked
<1> QED BY <1>1, <1>2 DEF MsgBacked, ReqBacked

LEMMA ProvenanceRows ==
    ProvenanceInv <=> ReportsBacked /\ \A t \in Task : RowBacked(t, tasks[t], ended, denied)
BY DEF ProvenanceInv, ResultWasProduced, FailureWasReal, RowBacked

(* A step keeps provenance if everything it writes is backed.              *)
LEMMA ProvenanceFrame ==
    ASSUME ProvenanceInv, ended \subseteq ended', denied \subseteq denied',
           \A p \in Proc : call'[p] = call[p] \/ MsgBacked(call'[p], ended'),
           \A m \in BagToSet(late') : m \in BagToSet(late) \/ MsgBacked(m, ended'),
           \A h \in Handler : handler'[h] = handler[h] \/ ReqBacked(handler'[h], ended', denied'),
           \A t \in Task : tasks'[t] = tasks[t] \/ RowBacked(t, tasks'[t], ended', denied')
    PROVE  ProvenanceInv'
<1>1. ReportsBacked /\ \A t \in Task : RowBacked(t, tasks[t], ended, denied)
  BY ProvenanceRows
<1>2. /\ \A m : MsgBacked(m, ended) => MsgBacked(m, ended')
      /\ \A q : ReqBacked(q, ended, denied) => ReqBacked(q, ended', denied')
      /\ \A t, row : RowBacked(t, row, ended, denied) => RowBacked(t, row, ended', denied')
  BY BackedStays
<1>3. /\ \A p \in Proc : MsgBacked(call'[p], ended')
      /\ \A m \in BagToSet(late') : MsgBacked(m, ended')
      /\ \A h \in Handler : ReqBacked(handler'[h], ended', denied')
      /\ \A t \in Task : RowBacked(t, tasks'[t], ended', denied')
  BY <1>1, <1>2 DEF ReportsBacked
<1>4. ReportsBacked'
  BY <1>3 DEF ReportsBacked
<1>5. ResultWasProduced' /\ FailureWasReal'
  BY <1>3 DEF ResultWasProduced, FailureWasReal, RowBacked
<1> QED BY <1>4, <1>5 DEF ProvenanceInv

(* The row a report leaves behind tells what the report told.              *)
LEMMA UpdateStatusTells ==
    ASSUME NEW row \in Row, NEW status, NEW progress, NEW result, NEW error \in BOOLEAN
    PROVE  LET new == UpdateStatus(row, status, progress, result, error)
           IN  new.status = status /\ new.result = result
BY DEF UpdateStatus, Row

LEMMA ApplyReportTells ==
    ASSUME NEW row \in Row, NEW rep \in Report, NEW seen \in 0..100
    PROVE  LET new == applyReport(row, rep, seen)
           IN  /\ new.status = rep.status /\ new.result = rep.result
               /\ rep.attempt # NoAttempt => new.retry_count = rep.attempt
<1> DEFINE prog == reportProgress(rep.status, seen)
           upd  == UpdateStatus(row, rep.status, prog, rep.result, rep.error)
           new  == [upd EXCEPT !.retry_count = rep.attempt]
<1>1. /\ rep.status \in Status /\ rep.status \in ReportStatus
      /\ rep.result \in Result \cup {NoResult} /\ rep.error \in BOOLEAN
  BY DEF Report, ReportStatus, Status
<1>2. prog \in 0..100
  BY <1>1 DEF reportProgress, ReportStatus
<1>3. upd \in Row
  BY <1>1, <1>2, UpdateStatusType
<1>4. upd.status = rep.status /\ upd.result = rep.result
  BY <1>1, UpdateStatusTells
<1>5. /\ rep.attempt = NoAttempt => applyReport(row, rep, seen) = upd
      /\ rep.attempt # NoAttempt => applyReport(row, rep, seen) = new
  BY DEF applyReport, UpdateStatusWithAttempt
<1>6. /\ new.status = upd.status /\ new.result = upd.result
      /\ rep.attempt # NoAttempt => new.retry_count = rep.attempt
  <2> HIDE DEF upd
  <2> QED BY <1>3 DEF Row
<1> HIDE DEF new, upd
<1> QED BY <1>4, <1>5, <1>6

(* A step of request h that changes at most the row of its task.           *)
LEMMA ProvenanceRequest ==
    ASSUME PipelineTypeOK, ProvenanceInv, NEW h \in Handler, NEW q,
           handler' = [handler EXCEPT ![h] = q], ReqBacked(q, ended, denied'),
           UNCHANGED <<call, late, ended>>, denied \subseteq denied',
           \/ UNCHANGED tasks
           \/ \E t \in Task : \E row :
                 tasks' = [tasks EXCEPT ![t] = row] /\ RowBacked(t, row, ended, denied')
    PROVE  ProvenanceInv'
<1>1. \A g \in Handler : handler'[g] = handler[g] \/ ReqBacked(handler'[g], ended', denied')
  BY DEF PipelineTypeOK, TypeOK
<1>2. \A t \in Task : tasks'[t] = tasks[t] \/ RowBacked(t, tasks'[t], ended', denied')
  BY DEF PipelineTypeOK, TypeOK
<1> QED BY <1>1, <1>2, ProvenanceFrame

(* The steps of the gateway that wait for nobody.                          *)
LEMMA ProvenanceHandler ==
    ASSUME PipelineTypeOK, ProvenanceInv, NEW h \in Handler, HandlerStep(h),
           UNCHANGED <<call, late, ended, denied>>
    PROVE  ProvenanceInv'
<1> DEFINE to(pc) == [handler[h] EXCEPT !.pc = pc]
<1>a. /\ TypeOK /\ handler[h] \in Request /\ ReqBacked(handler[h], ended, denied)
      /\ \A t \in Task : RowBacked(t, tasks[t], ended, denied)
  BY ProvenanceRows DEF PipelineTypeOK, TypeOK, ProvenanceInv, ReportsBacked
<1>b. ASSUME handler[h].op # "idle" PROVE handler[h].task \in Task
  BY <1>a, <1>b, RequestShape DEF Idle
<1>c. ReqBacked(Idle, ended, denied')
  BY DEF ReqBacked, Idle
<1>i. ASSUME handler' = [handler EXCEPT ![h] = Idle], UNCHANGED tasks
      PROVE  ProvenanceInv'
  BY <1>c, <1>i, ProvenanceRequest
<1>w. ASSUME NEW t \in Task, NEW row, tasks' = [tasks EXCEPT ![t] = row], RowBacked(t, row, ended, denied'),
             NEW q, handler' = [handler EXCEPT ![h] = q], ReqBacked(q, ended, denied')
      PROVE  ProvenanceInv'
  BY <1>w, ProvenanceRequest
<1>1. CASE UploadCreateResource(h)
  <2>1. handler[h] \in UploadReq /\ handler' = [handler EXCEPT ![h] = to("task")]
    BY <1>a, <1>1, RequestShape DEF UploadCreateResource, At, Goto
  <2>2. ReqBacked(to("task"), ended, denied')
    BY <2>1 DEF ReqBacked, UploadReq
  <2> HIDE DEF to
  <2> QED BY <1>1, <2>1, <2>2, ProvenanceRequest DEF UploadCreateResource
<1>2. CASE UploadResourceFails(h) \/ UploadTaskFails(h) \/ StatusPublish(h) \/ DbError(h)
  BY <1>2, <1>i DEF UploadResourceFails, UploadTaskFails, StatusPublish, DbError, Return
<1>3. CASE UploadCreateTask(h)
  <2>1. handler[h] \in UploadReq /\ handler[h].task \in Task
    BY <1>a, <1>b, <1>3, RequestShape DEF UploadCreateTask, At
  <2>2. PICK q \in {Idle, to("dispatch")} : handler' = [handler EXCEPT ![h] = q]
    BY <1>3 DEF UploadCreateTask, Goto, Return
  <2>3. ReqBacked(q, ended, denied')
    BY <2>1, <2>2 DEF ReqBacked, UploadReq, Idle
  <2>4. RowBacked(handler[h].task, NewRow, ended, denied')
    BY DEF RowBacked, NewRow
  <2> QED BY <1>3, <1>w, <2>1, <2>2, <2>3, <2>4 DEF UploadCreateTask, InsertTask, WriteRow
<1>4. CASE UploadMarkFailed(h)
  <2> DEFINE t == handler[h].task
             row == UpdateStatus(tasks[t], "failed", 0, NoResult, TRUE)
  <2>1. t \in Task /\ t \in denied
    BY <1>a, <1>b, <1>4 DEF UploadMarkFailed, At, ReqBacked
  <2>2. tasks[t] \in Row
    BY <1>a, <2>1 DEF TypeOK
  <2>3. row.status = "failed"
    BY <2>2 DEF UpdateStatus, Row
  <2>4. tasks' = [tasks EXCEPT ![t] = row] /\ handler' = [handler EXCEPT ![h] = Idle]
    BY <1>4 DEF UploadMarkFailed, WriteRow, Return
  <2> HIDE DEF row
  <2>5. RowBacked(t, row, ended, denied')
    BY <2>1, <2>3 DEF RowBacked
  <2> HIDE DEF t
  <2> QED BY <1>c, <1>w, <2>1, <2>4, <2>5
<1>5. CASE RetryReset(h)
  <2>1. handler[h] \in RetryReq /\ handler[h].task \in Task
    BY <1>a, <1>b, <1>5, RequestShape DEF RetryReset, At
  <2>2. PICK q \in {Idle, to("dispatch")} : handler' = [handler EXCEPT ![h] = q]
    BY <1>5 DEF RetryReset, Goto, Return
  <2>3. ReqBacked(q, ended, denied')
    BY <2>1, <2>2 DEF ReqBacked, RetryReq, Idle
  <2>4. ResetForRetry(tasks[handler[h].task]).status = "pending"
    BY <1>a, <2>1, OtherCoherent DEF TypeOK
  <2>5. RowBacked(handler[h].task, ResetForRetry(tasks[handler[h].task]), ended, denied')
    BY <2>4 DEF RowBacked
  <2> QED BY <1>5, <1>w, <2>1, <2>2, <2>3, <2>5 DEF RetryReset, WriteRow
<1>6. CASE StatusWrite(h)
  <2> DEFINE t == handler[h].task
             row == applyReport(tasks[t], handler[h].rep, handler[h].progress)
  <2>1. handler[h] \in StatusReq /\ t \in Task
    BY <1>a, <1>b, <1>6, RequestShape DEF StatusWrite, At
  <2>2. handler' = [handler EXCEPT ![h] = to("resource")] /\ tasks' = [tasks EXCEPT ![t] = row]
    BY <1>6 DEF StatusWrite, Goto, WriteRow
  <2>3. Backed(t, handler[h].rep, ended)
    BY <1>a, <2>1 DEF ReqBacked, StatusReq
  <2>4. to("resource").op = "status" /\ to("resource").task = t /\ to("resource").rep = handler[h].rep
    BY <2>1 DEF StatusReq
  <2>5. ReqBacked(to("resource"), ended, denied')
    <3> HIDE DEF to
    <3> QED BY <2>3, <2>4 DEF ReqBacked
  <2>6. handler[h].rep \in Report /\ handler[h].progress \in 0..100 /\ tasks[t] \in Row
    BY <1>a, <2>1 DEF StatusReq, TypeOK
  <2>7. row.status = handler[h].rep.status /\ row.result = handler[h].rep.result
    BY <2>6, ApplyReportTells
  <2> HIDE DEF row, to
  <2>8. RowBacked(t, row, ended, denied')
    BY <2>3, <2>7 DEF RowBacked, Backed
  <2> HIDE DEF t
  <2> QED BY <1>w, <2>1, <2>2, <2>5, <2>8
<1>7. CASE StatusResource(h)
  <2>1. handler[h] \in StatusReq /\ handler' = [handler EXCEPT ![h] = to("publish")]
    BY <1>a, <1>7, RequestShape DEF StatusResource, At, Goto
  <2>2. /\ to("publish").op = "status" /\ to("publish").task = handler[h].task
        /\ to("publish").rep = handler[h].rep
    BY <2>1 DEF StatusReq
  <2> HIDE DEF to
  <2>3. ReqBacked(to("publish"), ended, denied')
    BY <1>a, <2>1, <2>2 DEF ReqBacked, StatusReq
  <2> QED BY <1>7, <2>1, <2>3, ProvenanceRequest DEF StatusResource
<1>8. CASE ProgressWrite(h)
  <2> DEFINE t == handler[h].task
             row == UpdateProgress(tasks[t], handler[h].progress)
  <2>1. t \in Task /\ tasks[t] \in Row
    BY <1>a, <1>b, <1>8 DEF ProgressWrite, At, TypeOK
  <2>2. row.status = tasks[t].status /\ row.result = tasks[t].result
    BY <2>1 DEF UpdateProgress, Row
  <2>3. tasks' = [tasks EXCEPT ![t] = row] /\ handler' = [handler EXCEPT ![h] = Idle]
    BY <1>8 DEF ProgressWrite, WriteRow, Return
  <2> HIDE DEF row
  <2>4. RowBacked(t, row, ended, denied')
    BY <1>a, <2>1, <2>2 DEF RowBacked
  <2> HIDE DEF t
  <2> QED BY <1>c, <1>w, <2>1, <2>3, <2>4
<1> QED
  BY <1>1, <1>2, <1>3, <1>4, <1>5, <1>6, <1>7, <1>8 DEF HandlerStep

(* A request begins on a report: the report was true when it was sent.     *)
LEMMA ProvenanceHandle ==
    ASSUME PipelineTypeOK, ProvenanceInv, NEW h \in Handler, NEW msg, Handle(h, msg),
           MsgBacked(msg, ended), UNCHANGED <<call, ended, denied>>,
           BagToSet(late') \subseteq BagToSet(late)
    PROVE  ProvenanceInv'
<1>1. \A g \in Handler : handler'[g] = handler[g] \/ ReqBacked(handler'[g], ended', denied')
  <2>1. CASE msg.kind = "status" /\ StatusRead(h, msg.task, msg.rep)
    <3> DEFINE q == [op |-> "status", pc |-> "write", task |-> msg.task,
                     seen |-> tasks[msg.task].status, progress |-> tasks[msg.task].progress,
                     rep |-> msg.rep]
    <3>1. handler' = [handler EXCEPT ![h] = q]
      BY <2>1 DEF StatusRead, Begin
    <3>2. ReqBacked(q, ended, denied)
      BY <2>1 DEF MsgBacked, ReqBacked
    <3> HIDE DEF q
    <3> QED BY <3>1, <3>2 DEF PipelineTypeOK, TypeOK
  <2>2. CASE msg.kind = "progress" /\ ProgressRead(h, msg.task, msg.progress)
    <3> DEFINE q == [op |-> "progress", pc |-> "write", task |-> msg.task,
                     progress |-> msg.progress]
    <3>1. handler' = [handler EXCEPT ![h] = q]
      BY <2>2 DEF ProgressRead, Begin
    <3>2. ReqBacked(q, ended, denied)
      BY DEF ReqBacked
    <3> HIDE DEF q
    <3> QED BY <3>1, <3>2 DEF PipelineTypeOK, TypeOK
  <2> QED BY <2>1, <2>2 DEF Handle, StatusReject, ProgressReject, gatewayVars
<1>2. UNCHANGED tasks
  BY DEF Handle, StatusRead, StatusReject, ProgressRead, ProgressReject, gatewayVars
<1> QED BY <1>1, <1>2, ProvenanceFrame

(* A process posts a report that is true.                                  *)
LEMMA ProvenancePost ==
    ASSUME PipelineTypeOK, ProvenanceInv, NEW p \in Proc, NEW msg,
           call' = [call EXCEPT ![p] = msg], MsgBacked(msg, ended'), ended \subseteq ended',
           UNCHANGED <<handler, tasks, denied, late>>
    PROVE  ProvenanceInv'
<1>1. \A q \in Proc : call'[q] = call[q] \/ MsgBacked(call'[q], ended')
  BY DEF PipelineTypeOK, WorkerTypeOK
<1> QED BY <1>1, ProvenanceFrame

(* A process sends "completed" and "failed" only when its run ended so.    *)
LEMMA ProvenanceWorker ==
    ASSUME PipelineTypeOK, ProvenanceInv, NEW p \in Proc, Worker(p)
    PROVE  ProvenanceInv'
<1> DEFINE job == proc[p].job
           msg(rep) == [kind |-> "status", task |-> job.task, rep |-> rep]
<1>a. UNCHANGED <<handler, tasks, denied, late>>
  BY DEF Worker, gatewayVars, netVars
<1>b. ASSUME NEW rep, call' = [call EXCEPT ![p] = msg(rep)], Backed(job.task, rep, ended'),
             ended \subseteq ended'
      PROVE  ProvenanceInv'
  <2>1. MsgBacked(msg(rep), ended')
    BY <1>b DEF MsgBacked
  <2> HIDE DEF msg
  <2> QED BY <1>a, <1>b, <2>1, ProvenancePost
<1>c. ASSUME NEW attempt PROVE
      Backed(job.task, [status |-> "running", result |-> NoResult, error |-> FALSE,
                        attempt |-> attempt], ended')
  BY DEF Backed
<1>1. CASE StartRun(p)
  BY <1>1, <1>b, <1>c DEF StartRun, mark_status, Report_
<1>2. CASE RunSucceeds(p)
  <2> DEFINE rep == [status |-> "completed", result |-> job.run, error |-> FALSE,
                     attempt |-> _attempt_count]
  <2>1. ended' = ended \cup {[task |-> job.task, run |-> job.run, ok |-> TRUE]}
    BY <1>2 DEF RunSucceeds, End
  <2>2. rep.result = job.run /\ rep.status = "completed"
    OBVIOUS
  <2>3. call' = [call EXCEPT ![p] = msg(rep)]
    BY <1>2 DEF RunSucceeds, mark_status, Report_
  <2> HIDE DEF rep
  <2>4. Backed(job.task, rep, ended')
    BY <2>1, <2>2 DEF Backed
  <2> HIDE DEF job, msg
  <2> QED BY <1>b, <2>1, <2>3, <2>4
<1>3. CASE RunFails(p)
  <2> DEFINE rep == [status |-> "failed", result |-> NoResult, error |-> TRUE,
                     attempt |-> _attempt_count]
  <2>1. ended' = ended \cup {[task |-> job.task, run |-> job.run, ok |-> FALSE]}
    BY <1>3 DEF RunFails, End
  <2>2. PICK e \in ended' : e.task = job.task /\ ~e.ok
    <3> DEFINE e == [task |-> job.task, run |-> job.run, ok |-> FALSE]
    <3>1. e.task = job.task /\ ~e.ok
      OBVIOUS
    <3> HIDE DEF job
    <3> QED BY <2>1, <3>1
  <2>3. call' = [call EXCEPT ![p] = msg(rep)]
    BY <1>3 DEF RunFails, mark_status, Report_
  <2>4. Backed(job.task, rep, ended')
    <3>1. rep.status = "failed"
      OBVIOUS
    <3> HIDE DEF rep, job
    <3> QED BY <2>2, <3>1 DEF Backed
  <2> HIDE DEF rep, job, msg
  <2> QED BY <1>b, <2>1, <2>3, <2>4
<1>4. ASSUME NEW v \in Progress, ReportProgress(p, v)
      PROVE  ProvenanceInv'
  <2> DEFINE m == [kind |-> "progress", task |-> job.task, progress |-> v]
  <2>1. call' = [call EXCEPT ![p] = m] /\ UNCHANGED ended
    BY <1>4 DEF ReportProgress, report_progress, Report_
  <2>2. MsgBacked(m, ended')
    BY DEF MsgBacked
  <2> HIDE DEF m
  <2> QED BY <1>a, <2>1, <2>2, ProvenancePost
<1> QED
  BY <1>1, <1>2, <1>3, <1>4 DEF Worker, WorkerStep

(* Every step of the pipeline keeps provenance.                            *)
LEMMA ProvenanceStep ==
    ASSUME PipelineTypeOK, ProvenanceInv, [PipelineNext]_vars
    PROVE  ProvenanceInv'
<1>a. /\ TypeOK /\ WorkerTypeOK /\ NetTypeOK /\ ReportsBacked
  BY DEF PipelineTypeOK, ProvenanceInv
<1>1. ASSUME NEW h \in Handler, GatewayStep(h) PROVE ProvenanceInv'
  BY <1>1, ProvenanceHandler DEF GatewayStep, workerVars, netVars
<1>2. ASSUME NEW h \in Handler, NEW accepted \in BOOLEAN, Dispatch(h, accepted),
             ~accepted => denied' = denied \cup {handler[h].task}, denied \subseteq denied',
             UNCHANGED <<call, ended, late>>
      PROVE  ProvenanceInv'
  <2>1. UNCHANGED tasks
    BY <1>2 DEF Dispatch
  <2>2. CASE handler' = [handler EXCEPT ![h] = Idle]
    <3>1. ReqBacked(Idle, ended, denied')
      BY DEF ReqBacked, Idle
    <3> QED BY <1>2, <2>1, <2>2, <3>1, ProvenanceRequest
  <2>3. CASE ~accepted /\ handler[h].op = "upload" /\ Goto(h, "mark")
    <3> DEFINE q == [handler[h] EXCEPT !.pc = "mark"]
    <3>1. q.op = "upload" /\ q.task = handler[h].task
      BY <1>a, <2>3, RequestShape DEF TypeOK, UploadReq
    <3>2. handler' = [handler EXCEPT ![h] = q]
      BY <2>3 DEF Goto
    <3> HIDE DEF q
    <3>3. ReqBacked(q, ended, denied')
      BY <1>2, <2>3, <3>1 DEF ReqBacked
    <3> QED BY <1>2, <2>1, <3>2, <3>3, ProvenanceRequest
  <2> QED BY <1>2, <2>2, <2>3 DEF Dispatch, Return
<1>3. ASSUME NEW h \in Handler, NEW accepted \in BOOLEAN, DispatchQueued(h, accepted)
      PROVE  ProvenanceInv'
  BY <1>2, <1>3 DEF DispatchQueued, Enqueue
<1>4. ASSUME NEW h \in Handler, DispatchRefused(h) PROVE ProvenanceInv'
  <2>1. /\ Dispatch(h, FALSE) /\ FALSE \in BOOLEAN
        /\ denied' = denied \cup {handler[h].task} /\ denied \subseteq denied'
        /\ UNCHANGED <<call, ended, late>>
    BY <1>4 DEF DispatchRefused, workerVars
  <2> QED BY <1>2, <2>1, Zenon
<1>5. ASSUME NEW h \in Handler, DeliverLate(h) PROVE ProvenanceInv'
  <2>1. PICK msg \in BagToSet(late) : Handle(h, msg) /\ late' = late (-) SetToBag({msg})
    BY <1>5 DEF DeliverLate
  <2>2. BagToSet(late') \subseteq BagToSet(late)
    BY <2>1, BagFacts
  <2>3. MsgBacked(msg, ended) /\ UNCHANGED <<call, ended, denied>>
    BY <1>5, <1>a DEF ReportsBacked, DeliverLate, workerVars
  <2> QED BY <2>1, <2>2, <2>3, ProvenanceHandle
<1>6. ASSUME NEW h \in Handler, NEW p \in Proc, Deliver(h, p) PROVE ProvenanceInv'
  <2>1. PICK msg : msg = call[p]
    OBVIOUS
  <2>2. Handle(h, msg) /\ MsgBacked(msg, ended) /\ UNCHANGED <<call, ended, denied, late>>
    BY <1>6, <1>a, <2>1 DEF ReportsBacked, Deliver, workerVars
  <2> QED BY <2>2, ProvenanceHandle
<1>7. ASSUME NEW h \in Handler, NEW t \in Task, User(h, t) PROVE ProvenanceInv'
  <2>1. PICK q \in UploadReq \cup RetryReq :
           q.pc # "mark" /\ handler' = [handler EXCEPT ![h] = q]
    <3>1. [op |-> "upload", pc |-> "resource", task |-> t] \in UploadReq
          /\ [op |-> "retry", pc |-> "reset", task |-> t] \in RetryReq
      BY DEF UploadReq, RetryReq
    <3> QED BY <1>7, <3>1 DEF User, UploadPut, RetryRead, Begin
  <2>2. ReqBacked(q, ended, denied')
    BY <2>1 DEF ReqBacked, UploadReq, RetryReq
  <2>3. UNCHANGED <<tasks, call, ended, late, denied>>
    BY <1>7 DEF User, UploadPut, RetryRead, workerVars, netVars
  <2> QED BY <2>1, <2>2, <2>3, ProvenanceRequest
<1>8. ASSUME NEW p \in Proc, Worker(p) PROVE ProvenanceInv'
  BY <1>8, ProvenanceWorker
<1>n. MsgBacked(NoCall, ended')
  BY DEF MsgBacked, NoCall
<1>9. ASSUME NEW p \in Proc, Answer(p) \/ Lose(p) \/ Lost(p) PROVE ProvenanceInv'
  <2>1. call' = [call EXCEPT ![p] = NoCall] /\ UNCHANGED <<ended, tasks, handler, late, denied>>
    BY <1>9 DEF Answer, Lose, Lost, Resume, WorkerLost, gatewayVars
  <2> QED BY <1>n, <2>1, ProvenancePost
<1>10. ASSUME NEW p \in Proc, TimeOut(p) PROVE ProvenanceInv'
  <2>1. call' = [call EXCEPT ![p] = NoCall] /\ UNCHANGED <<ended, tasks, handler, denied>>
    BY <1>10 DEF TimeOut, Resume, gatewayVars
  <2>2. \A q \in Proc : call'[q] = call[q] \/ MsgBacked(call'[q], ended')
    BY <1>a, <1>n, <2>1 DEF WorkerTypeOK
  <2>3. late' = late (+) SetToBag({call[p]}) \/ late' = late
    BY <1>10 DEF TimeOut
  <2>4. BagToSet(late (+) SetToBag({call[p]})) = BagToSet(late) \cup {call[p]}
    BY BagFacts
  <2>5. \A m \in BagToSet(late') : m \in BagToSet(late) \/ MsgBacked(m, ended')
    BY <1>a, <2>1, <2>3, <2>4 DEF ReportsBacked
  <2> QED BY <2>1, <2>2, <2>5, ProvenanceFrame
<1>11. ASSUME NEW p \in Proc, Killed(p) \/ Take(p) PROVE ProvenanceInv'
  <2>1. ended \subseteq ended' /\ UNCHANGED <<call, tasks, handler, late, denied>>
    BY <1>11 DEF Killed, TimeLimit, End, Take, Fetch, gatewayVars, netVars
  <2> QED BY <2>1, ProvenanceFrame
<1>12. ASSUME NEW t \in Task, Cooldown(t) PROVE ProvenanceInv'
  <2>1. UNCHANGED <<ended, call, tasks, handler, late, denied>>
    BY <1>12 DEF Cooldown, CooldownElapses, workerVars, netVars
  <2> QED BY <2>1, ProvenanceFrame
<1>13. CASE UNCHANGED vars
  <2>1. UNCHANGED <<ended, call, tasks, handler, late, denied>>
    BY <1>13 DEF vars, gatewayVars, workerVars, netVars
  <2> QED BY <2>1, ProvenanceFrame
<1> QED
  BY <1>1, <1>3, <1>4, <1>5, <1>6, <1>7, <1>8, <1>9, <1>10, <1>11, <1>12, <1>13
  DEF PipelineNext

LEMMA ProvenanceInit == PipelineInit => ProvenanceInv
<1> SUFFICES ASSUME PipelineInit PROVE ProvenanceInv
  OBVIOUS
<1>1. /\ \A p \in Proc : call[p] = NoCall
      /\ \A h \in Handler : handler[h] = Idle
      /\ \A t \in Task : tasks[t].status = "pending"
      /\ late = EmptyBag
  BY DEF PipelineInit, Init, WorkerInit, NewRow
<1>2. ReportsBacked
  BY <1>1, BagFacts DEF ReportsBacked, MsgBacked, ReqBacked, NoCall, Idle
<1>3. ResultWasProduced /\ FailureWasReal
  BY <1>1 DEF ResultWasProduced, FailureWasReal
<1> QED BY <1>2, <1>3 DEF ProvenanceInv

LEMMA ProvenanceInvariant == PipelineSpec => []ProvenanceInv
BY ProvenanceInit, ProvenanceStep, PipelineTypeCorrect, PTL DEF PipelineSpec

(* However reports are lost, delayed, repeated by redelivered messages or  *)
(* overtaken by retries, a completed row holds a result that a run of this *)
(* very task produced.                                                     *)
THEOREM ResultsProduced == PipelineSpec => []ResultWasProduced
<1>1. ProvenanceInv => ResultWasProduced
  BY DEF ProvenanceInv
<1> QED BY <1>1, ProvenanceInvariant, PTL

(* A failed row is never an invention: a run of the task failed, or the    *)
(* gateway saw its dispatch fail.                                          *)
THEOREM FailuresReal == PipelineSpec => []FailureWasReal
<1>1. ProvenanceInv => FailureWasReal
  BY DEF ProvenanceInv
<1> QED BY <1>1, ProvenanceInvariant, PTL

-----------------------------------------------------------------------------
(* UP TO THE FIRST FAULT                                                   *)
(*                                                                         *)
(* What the pipeline guarantees as long as the network delivers and        *)
(* workers survive, when statements succeed and a user waits for a retry   *)
(* to be answered before asking for another.  Runs of a task may still     *)
(* fail.                                                                   *)
(*                                                                         *)
(* Reports carry no run identity, so all of this rests on one fact: at any *)
(* time at most one party (a request about to dispatch, a queued message   *)
(* or a process at work) is entitled to move a task forward.               *)

Orderly == "db" \notin Faults /\ ~UserOverlap

(* A step with no fault in it or before it.                                *)
FaultFree == Orderly /\ faults \in Nat /\ faults' = 0

-----------------------------------------------------------------------------
(* THE INDUCTIVE INVARIANT                                                 *)

(* The processes whose report has at least been written to the row.        *)
written ==
    {p \in Proc : taken[p] # None /\ (handler[taken[p]] = Idle \/ handler[taken[p]].pc # "write")}

(* What a process in state pr with call c still has to do for its task:    *)
(* nothing ("tail": its final report is written) or the task's work        *)
(* ("main").                                                               *)
Role(pr, c, isWritten) ==
    IF pr = Free THEN "free"
    ELSE IF pr.pc = "wait" /\ c.kind = "status" /\ c.rep.status # "running" /\ isWritten
    THEN "tail"
    ELSE "main"

mains  == {p \in Proc : Role(proc[p], call[p], p \in written) = "main"}

(* The attempt is not yet reflected in the row.                            *)
fresh ==
    {p \in Proc : \/ proc[p].pc = "start"
                  \/ proc[p].pc = "wait" /\ proc[p].next = "work" /\ p \notin written}

(* The run has produced its result and says so.                            *)
finishing ==
    {p \in Proc : proc[p].pc = "wait" /\ call[p].kind = "status" /\ call[p].rep.status = "completed"}

(* The parties concerned with task t: messages, processes that work on it, *)
(* requests about to dispatch it, and retries.                             *)
Queued(t)      == {j \in BagToSet(queue) : j.task = t}
Mains(t)       == {p \in mains : proc[p].job.task = t}
Dispatchers(t) == {h \in Handler : /\ handler[h].op \in {"upload", "retry"}
                                   /\ handler[h].pc = "dispatch"
                                   /\ handler[h].task = t}
Retriers(t)    == {h \in Handler : handler[h].op = "retry" /\ handler[h].task = t}

Success(t, run) == [task |-> t, run |-> run, ok |-> TRUE]

(* A handler that serves a call works on that very report.                 *)
Serves(q, c) ==
    /\ q.task = c.task
    /\ \/ c.kind = "status" /\ q.op = "status" /\ q.rep = c.rep
       \/ c.kind = "progress" /\ q.op = "progress"

ServingInv ==
    /\ \A p \in Proc : taken[p] # None =>
          proc[p].pc = "wait" /\ (handler[taken[p]] = Idle \/ Serves(handler[taken[p]], call[p]))
    /\ \A p, q \in Proc : taken[p] # None /\ taken[p] = taken[q] => p = q
    /\ \A h \in Handler :
          handler[h].op \in {"status", "progress"} => \E p \in Proc : taken[p] = h
    /\ BagToSet(late) = {}
    /\ \A h \in Handler :
          handler[h].op # "create" /\ (handler[h].op = "upload" => handler[h].pc # "mark")

(* Where a process goes on after a report, and what the report says.       *)
WaitShape(pr, c) ==
    /\ c.kind = "progress" => pr.next = "worked"
    /\ c.kind = "status" /\ c.rep.status = "running" => pr.next = "work"
    /\ c.kind = "status" /\ c.rep.status = "completed" =>
          pr.next = "ack" /\ c.rep.result = pr.job.run
    /\ c.kind = "status" /\ c.rep.status = "failed" => pr.next = "ack"

CallShape == \A p \in Proc : proc[p].pc = "wait" => WaitShape(proc[p], call[p])

(* A queued message is the current run's.                                  *)
QueueOK(t, j) ==
    /\ queue[j] = 1
    /\ t \in created /\ j.run = runs[t]
    /\ tasks[t].status = "pending"
    /\ Success(t, j.run) \notin ended

(* A process at work executes the current run.                             *)
MainOK(t, p) ==
    /\ t \in created /\ proc[p].job.run = runs[t]
    /\ tasks[t].status = IF p \in fresh THEN "pending" ELSE "running"
    /\ p \notin finishing => Success(t, proc[p].job.run) \notin ended

(* A terminal row tells the outcome of the current run.                    *)
RowOK(t) ==
    /\ t \notin created => runs[t] = 0 /\ tasks[t].status = "pending"
    /\ tasks[t].status = "completed" => tasks[t].result = runs[t]
    /\ tasks[t].status = "failed" => Success(t, runs[t]) \notin ended
    /\ \A e \in ended : e.task = t => e.run <= runs[t]

(* A request finds the row as it left it.                                  *)
RequestsOK(t) ==
    /\ \A h \in Retriers(t) :
          /\ t \in created
          /\ handler[h].pc = "reset" => tasks[t].status \in {"completed", "failed"}
    /\ \A g, h \in Retriers(t) : g = h
    /\ Dispatchers(t) # {} => t \in created /\ tasks[t].status = "pending"

(* At most one party moves the task forward ...                            *)
Exclusive(t) ==
    /\ \A j, k \in Queued(t) : j = k
    /\ \A p, q \in Mains(t) : p = q
    /\ \A g, h \in Dispatchers(t) : g = h
    /\ Mains(t) = {} \/ Queued(t) = {}
    /\ Dispatchers(t) = {} \/ Queued(t) = {}
    /\ Dispatchers(t) = {} \/ Mains(t) = {}

(* ... and as long as the task is not terminal, there is one.              *)
Driven(t) == Queued(t) # {} \/ Mains(t) # {} \/ Dispatchers(t) # {}

TaskInv(t) ==
    /\ \A j \in Queued(t) : QueueOK(t, j)
    /\ \A p \in Mains(t) : MainOK(t, p)
    /\ RowOK(t)
    /\ RequestsOK(t)
    /\ Exclusive(t)
    /\ t \in created /\ tasks[t].status \in {"pending", "running"} => Driven(t)

TokenInv == \A t \in Task : TaskInv(t)

ReliableInv == ServingInv /\ CallShape /\ TokenInv


-----------------------------------------------------------------------------
(* FRAMES                                                                  *)

(* A process that a step leaves alone keeps its role.                      *)
LEMMA ProcsKept ==
    ASSUME NEW P \in SUBSET Proc,
           \A q \in P : /\ proc'[q] = proc[q] /\ call'[q] = call[q]
                        /\ q \in written' <=> q \in written
    PROVE  \A q \in P :
              /\ q \in mains' <=> q \in mains
              /\ q \in fresh' <=> q \in fresh
              /\ q \in finishing' <=> q \in finishing
              /\ \A t : q \in Mains(t)' <=> q \in Mains(t)
<1> SUFFICES ASSUME NEW q \in P
             PROVE  /\ q \in mains' <=> q \in mains
                    /\ q \in fresh' <=> q \in fresh
                    /\ q \in finishing' <=> q \in finishing
  BY DEF Mains
<1>1. q \in mains' <=> q \in mains
  BY DEF mains, Role
<1>2. q \in fresh' <=> q \in fresh
  BY DEF fresh
<1>3. q \in finishing' <=> q \in finishing
  BY DEF finishing
<1> QED BY <1>1, <1>2, <1>3

(* A step keeps the invariant of task t if it changes nothing that is      *)
(* about t, except that retries may end, and that a run of t may fail.     *)
Undisturbed(t) ==
    /\ Queued(t)' = Queued(t)
    /\ \A j \in Queued(t) : queue'[j] = queue[j]
    /\ Mains(t)' = Mains(t)
    /\ \A p \in Mains(t) :
          /\ proc'[p].job = proc[p].job
          /\ p \in fresh' <=> p \in fresh
          /\ p \in finishing => p \in finishing'
    /\ Dispatchers(t)' = Dispatchers(t)
    /\ Retriers(t)' \subseteq Retriers(t)
    /\ \A h \in Retriers(t)' : handler'[h].pc = handler[h].pc
    /\ t \in created' <=> t \in created
    /\ tasks'[t].status = tasks[t].status
    /\ tasks'[t].result = tasks[t].result
    /\ runs'[t] = runs[t]
    /\ \A e \in ended' \ ended : e.task = t => ~e.ok /\ e.run <= runs[t]

LEMMA TaskFrame ==
    ASSUME NEW t \in Task, TaskInv(t), Undisturbed(t)
    PROVE  TaskInv(t)'
<1> USE DEF Undisturbed
<1>s. \A n : Success(t, n) \notin ended => Success(t, n) \notin ended'
  <2>1. \A n : Success(t, n).task = t /\ Success(t, n).ok
    BY DEF Success
  <2> QED BY <2>1
<1>1. \A j \in Queued(t)' : QueueOK(t, j)'
  BY <1>s DEF TaskInv, QueueOK
<1>2. \A p \in Mains(t)' : MainOK(t, p)'
  BY <1>s DEF TaskInv, MainOK
<1>4. RowOK(t)'
  BY <1>s DEF TaskInv, RowOK
<1>5. RequestsOK(t)'
  BY DEF TaskInv, RequestsOK
<1>6. Exclusive(t)'
  BY DEF TaskInv, Exclusive
<1>7. (t \in created /\ tasks[t].status \in {"pending", "running"} => Driven(t))'
  BY DEF TaskInv, Driven
<1> QED BY <1>1, <1>2, <1>4, <1>5, <1>6, <1>7 DEF TaskInv

(* A request that is not being answered to a process, or that does not     *)
(* pass its write, leaves every process where it is.                       *)
Past(q) == q = Idle \/ q.pc # "write"

LEMMA WrittenKept ==
    ASSUME PipelineTypeOK, NEW h \in Handler, NEW q, handler' = [handler EXCEPT ![h] = q],
           UNCHANGED taken, (\A p \in Proc : taken[p] # h) \/ (Past(handler[h]) <=> Past(q))
    PROVE  written' = written
<1>1. \A g \in Handler \ {h} : handler'[g] = handler[g]
  BY DEF PipelineTypeOK, TypeOK
<1>2. handler'[h] = q
  BY DEF PipelineTypeOK, TypeOK
<1>3. \A p \in Proc : taken[p] \in Handler \cup {None}
  BY DEF PipelineTypeOK, NetTypeOK
<1>4. \A p \in Proc : p \in written' <=> p \in written
  BY <1>1, <1>2, <1>3 DEF written, Past
<1> QED BY <1>4 DEF written

(* Whether a progress report is written does not matter to any role.       *)
LEMMA RolesKept ==
    ASSUME PipelineTypeOK, CallShape, UNCHANGED <<proc, call>>,
           \A q \in Proc : (q \in written' <=> q \in written) \/ call[q].kind = "progress"
    PROVE  mains' = mains /\ fresh' = fresh /\ finishing' = finishing
<1>1. \A q \in Proc : call[q].kind = "progress" => proc[q].pc = "wait" /\ proc[q].next = "worked"
  BY DEF PipelineTypeOK, WorkerTypeOK, CallsMatch, CallShape, WaitShape, NoCall
<1>2. mains' = mains
  BY <1>1 DEF mains, Role
<1>3. fresh' = fresh /\ finishing' = finishing
  BY <1>1 DEF fresh, finishing
<1> QED BY <1>2, <1>3

(* A step of request h that is not about task u.                           *)
LEMMA RequestFrame ==
    ASSUME PipelineTypeOK, NEW h \in Handler, NEW q, handler' = [handler EXCEPT ![h] = q],
           UNCHANGED <<queue, proc, call, ended, runs>>,
           mains' = mains, fresh' = fresh, finishing' = finishing,
           NEW u \in Task,
           h \notin Dispatchers(u), h \notin Dispatchers(u)', h \notin Retriers(u)',
           u \in created' <=> u \in created,
           tasks'[u].status = tasks[u].status,
           tasks'[u].result = tasks[u].result
    PROVE  Undisturbed(u)
<1>1. \A g \in Handler \ {h} : handler'[g] = handler[g]
  BY DEF PipelineTypeOK, TypeOK
<1>2. Mains(u)' = Mains(u)
  BY DEF Mains
<1>3. Queued(u)' = Queued(u)
  BY DEF Queued
<1>4. Dispatchers(u)' = Dispatchers(u)
  BY <1>1 DEF Dispatchers
<1>5. Retriers(u)' \subseteq Retriers(u) /\ \A g \in Retriers(u)' : handler'[g].pc = handler[g].pc
  BY <1>1 DEF Retriers
<1> QED BY <1>2, <1>3, <1>4, <1>5 DEF Undisturbed

(* A step of process p that does not change what p is to task u.           *)
LEMMA ProcessFrame ==
    ASSUME PipelineTypeOK, NEW p \in Proc,
           \A q \in Proc \ {p} : /\ proc'[q] = proc[q] /\ call'[q] = call[q]
                                 /\ taken'[q] = taken[q],
           UNCHANGED <<created, tasks, handler, runs>>,
           NEW u \in Task,
           p \in Mains(u)' <=> p \in Mains(u),
           p \in Mains(u) => /\ proc'[p].job = proc[p].job
                             /\ p \in fresh' <=> p \in fresh
                             /\ p \in finishing => p \in finishing',
           Queued(u)' = Queued(u), \A j \in Queued(u) : queue'[j] = queue[j],
           \A e \in ended' \ ended : e.task = u => ~e.ok /\ e.run <= runs[u]
    PROVE  Undisturbed(u)
<1>1. \A q \in Proc \ {p} : q \in written' <=> q \in written
  BY DEF written
<1>2. \A q \in Proc \ {p} :
         /\ q \in fresh' <=> q \in fresh
         /\ q \in finishing' <=> q \in finishing
         /\ q \in Mains(u)' <=> q \in Mains(u)
  <2>1. Proc \ {p} \in SUBSET Proc
    OBVIOUS
  <2> QED BY <1>1, <2>1, ProcsKept
<1>3. Mains(u) \subseteq Proc /\ Mains(u)' \subseteq Proc
  BY DEF Mains, mains
<1>4. Mains(u)' = Mains(u)
  BY <1>2, <1>3
<1>5. /\ \A q \in Mains(u) :
          /\ proc'[q].job = proc[q].job
          /\ q \in fresh' <=> q \in fresh
          /\ q \in finishing => q \in finishing'
  BY <1>2, <1>3
<1>7. /\ Dispatchers(u)' = Dispatchers(u) /\ Retriers(u)' \subseteq Retriers(u)
      /\ \A h \in Retriers(u)' : handler'[h].pc = handler[h].pc
  BY DEF Dispatchers, Retriers
<1> QED BY <1>4, <1>5, <1>7 DEF Undisturbed

-----------------------------------------------------------------------------
(* WHO SERVES WHOM                                                         *)

(* A fault-free step is none of the fault actions.                         *)
LEMMA NoFaults ==
    ASSUME FaultFree, ServingInv
    PROVE  /\ \A kind : ~Fault(kind)
           /\ \A h \in Handler : ~DispatchRefused(h) /\ ~DeliverLate(h)
           /\ \A h \in Handler : /\ ~UploadResourceFails(h) /\ ~UploadTaskFails(h) /\ ~DbError(h)
                                 /\ ~UploadMarkFailed(h)
           /\ \A p \in Proc : ~TimeOut(p) /\ ~Lose(p) /\ ~Lost(p) /\ ~Killed(p)
<1>1. \A kind : ~Fault(kind)
  BY DEF FaultFree, Fault
<1>2. \A h \in Handler : ~DispatchRefused(h) /\ ~DeliverLate(h)
  BY <1>1 DEF DispatchRefused, DeliverLate, ServingInv
<1>3. \A h \in Handler : ~UploadResourceFails(h) /\ ~UploadTaskFails(h) /\ ~DbError(h)
  BY DEF UploadResourceFails, UploadTaskFails, DbError, FaultFree, Orderly
<1>4. \A h \in Handler : ~UploadMarkFailed(h)
  BY DEF UploadMarkFailed, At, ServingInv
<1>5. \A p \in Proc : ~TimeOut(p) /\ ~Lose(p) /\ ~Lost(p) /\ ~Killed(p)
  BY <1>1 DEF TimeOut, Lose, Lost, Killed
<1> QED BY <1>1, <1>2, <1>3, <1>4, <1>5

(* A request that goes on with the same report, or ends, is still the one  *)
(* its process waits for; a user's request serves no process.              *)
LEMMA ServingRequest ==
    ASSUME PipelineTypeOK, ServingInv, NEW h \in Handler, NEW q,
           handler' = [handler EXCEPT ![h] = q], UNCHANGED <<proc, call, taken, late>>,
           \/ q = Idle
           \/ \E p \in Proc : taken[p] = h /\ Serves(q, call[p])
           \/ /\ \A p \in Proc : taken[p] # h
              /\ q.op \in {"upload", "retry"} /\ (q.op = "upload" => q.pc # "mark")
    PROVE  ServingInv'
<1>1. \A g \in Handler \ {h} : handler'[g] = handler[g]
  BY DEF PipelineTypeOK, TypeOK
<1>2. handler'[h] = q
  BY DEF PipelineTypeOK, TypeOK
<1>3. \A p \in Proc : taken[p] \in Handler \cup {None}
  BY DEF PipelineTypeOK, NetTypeOK
<1>4. q = Idle => q.op = "idle"
  BY DEF Idle
<1>5. \A p \in Proc : taken[p] # None =>
          proc[p].pc = "wait" /\ (handler'[taken[p]] = Idle \/ Serves(handler'[taken[p]], call[p]))
  BY <1>1, <1>2, <1>3 DEF ServingInv
<1>6. \A g \in Handler :
         handler'[g].op \in {"status", "progress"} => \E p \in Proc : taken[p] = g
  BY <1>1, <1>2, <1>4 DEF ServingInv
<1>7. \A g \in Handler :
          handler'[g].op # "create" /\ (handler'[g].op = "upload" => handler'[g].pc # "mark")
  BY <1>1, <1>2, <1>4 DEF ServingInv, Serves
<1> QED BY <1>5, <1>6, <1>7 DEF ServingInv

(* A request that users make is not taken by any process.                  *)
LEMMA UserNotTaken ==
    ASSUME PipelineTypeOK, ServingInv, NEW h \in Handler, handler[h].op \in {"upload", "retry"}
    PROVE  \A p \in Proc : taken[p] # h
BY PipelineAssumption DEF ServingInv, Serves, Idle

(* What is left of the steps of a request when nothing fails.              *)
LEMMA GatewayMoves ==
    ASSUME PipelineTypeOK, ServingInv, FaultFree, NEW h \in Handler, GatewayStep(h)
    PROVE  /\ handler[h] # Idle /\ handler[h].task \in Task
           /\ UNCHANGED <<workerVars, netVars>>
           /\ \/ UploadCreateResource(h) /\ handler[h] \in UploadReq
              \/ UploadCreateTask(h) /\ handler[h] \in UploadReq
              \/ RetryReset(h) /\ handler[h] \in RetryReq
              \/ StatusWrite(h) /\ handler[h] \in StatusReq
              \/ StatusResource(h) /\ handler[h] \in StatusReq
              \/ StatusPublish(h) /\ handler[h] \in StatusReq
              \/ ProgressWrite(h) /\ handler[h] \in ProgressReq
<1>1. handler[h] \in Request /\ UNCHANGED <<workerVars, netVars>>
  BY DEF PipelineTypeOK, TypeOK, GatewayStep
<1>2. \/ UploadCreateResource(h) \/ UploadCreateTask(h) \/ RetryReset(h)
      \/ StatusWrite(h) \/ StatusResource(h) \/ StatusPublish(h) \/ ProgressWrite(h)
  BY NoFaults DEF GatewayStep, HandlerStep
<1>3. \/ UploadCreateResource(h) /\ handler[h].op = "upload"
      \/ UploadCreateTask(h) /\ handler[h].op = "upload"
      \/ RetryReset(h) /\ handler[h].op = "retry"
      \/ StatusWrite(h) /\ handler[h].op = "status"
      \/ StatusResource(h) /\ handler[h].op = "status"
      \/ StatusPublish(h) /\ handler[h].op = "status"
      \/ ProgressWrite(h) /\ handler[h].op = "progress"
  BY <1>2 DEF UploadCreateResource, UploadCreateTask, RetryReset, StatusWrite, StatusResource,
              StatusPublish, ProgressWrite, At
<1>4. handler[h] # Idle
  BY <1>3 DEF Idle
<1> QED BY <1>1, <1>3, <1>4, RequestShape

(* Moving the pc of a request changes nothing else of it.                  *)
LEMMA MovedRequest ==
    ASSUME NEW q \in UploadReq \cup RetryReq \cup StatusReq, NEW pc
    PROVE  LET r == [q EXCEPT !.pc = pc] IN
           /\ r.pc = pc /\ r.op = q.op /\ r.task = q.task /\ r # Idle
           /\ q \in StatusReq => r.rep = q.rep
BY DEF UploadReq, RetryReq, StatusReq, Idle

LEMMA ServingGateway ==
    ASSUME PipelineTypeOK, ServingInv, FaultFree, NEW h \in Handler, GatewayStep(h)
    PROVE  ServingInv'
<1> DEFINE to(pc) == [handler[h] EXCEPT !.pc = pc]
<1>a. UNCHANGED <<proc, call, taken, late>> /\ handler[h] # Idle
  BY GatewayMoves DEF workerVars, netVars
<1>u. ASSUME NEW pc \in {"task", "dispatch"}, handler[h] \in UploadReq \cup RetryReq, Goto(h, pc)
      PROVE  ServingInv'
  <2>1. to(pc).op = handler[h].op /\ to(pc).pc = pc
    BY <1>u, MovedRequest
  <2>2. handler[h].op \in {"upload", "retry"} /\ handler' = [handler EXCEPT ![h] = to(pc)]
    BY <1>u DEF Goto, UploadReq, RetryReq
  <2> HIDE DEF to
  <2> QED BY <1>a, <2>1, <2>2, UserNotTaken, ServingRequest
<1>s. ASSUME NEW pc, handler[h] \in StatusReq, Goto(h, pc)
      PROVE  ServingInv'
  <2>1. to(pc).op = handler[h].op /\ to(pc).task = handler[h].task /\ to(pc).rep = handler[h].rep
    BY <1>s, MovedRequest
  <2>2. handler[h].op = "status" /\ handler' = [handler EXCEPT ![h] = to(pc)]
    BY <1>s DEF Goto, StatusReq
  <2>3. PICK p \in Proc : taken[p] = h
    BY <2>2 DEF ServingInv
  <2>4. Serves(handler[h], call[p])
    BY <1>a, <2>3, PipelineAssumption DEF ServingInv
  <2>5. Serves(to(pc), call[p])
    <3> HIDE DEF to
    <3> QED BY <2>1, <2>4 DEF Serves
  <2> HIDE DEF to
  <2> QED BY <1>a, <2>2, <2>3, <2>5, ServingRequest
<1>r. ASSUME Return(h) PROVE ServingInv'
  BY <1>a, <1>r, ServingRequest DEF Return
<1>t. handler[h].task \in AutoDispatch
  BY GatewayMoves, PipelineAssumption
<1>1. CASE UploadCreateResource(h) /\ handler[h] \in UploadReq
  BY <1>1, <1>u DEF UploadCreateResource
<1>2. CASE UploadCreateTask(h) /\ handler[h] \in UploadReq
  BY <1>2, <1>t, <1>u DEF UploadCreateTask
<1>3. CASE RetryReset(h) /\ handler[h] \in RetryReq
  BY <1>3, <1>t, <1>u DEF RetryReset
<1>4. CASE StatusWrite(h) /\ handler[h] \in StatusReq
  BY <1>4, <1>s DEF StatusWrite
<1>5. CASE StatusResource(h) /\ handler[h] \in StatusReq
  BY <1>5, <1>s DEF StatusResource
<1>6. CASE StatusPublish(h) \/ ProgressWrite(h)
  BY <1>6, <1>r DEF StatusPublish, ProgressWrite
<1> QED BY <1>1, <1>2, <1>3, <1>4, <1>5, <1>6, GatewayMoves

(* A handler accepts the call of p: nobody else is served by it.           *)
LEMMA ServingDeliver ==
    ASSUME PipelineTypeOK, ServingInv, NEW h \in Handler, NEW p \in Proc, Deliver(h, p)
    PROVE  ServingInv'
<1>a. /\ Accepting(h) /\ call[p] # NoCall /\ taken[p] = None
      /\ taken' = [taken EXCEPT ![p] = h] /\ UNCHANGED <<proc, call, late>>
  BY DEF Deliver, workerVars
<1>1. PICK msg \in Message : msg = call[p] /\ Handle(h, msg)
  BY DEF Deliver, PipelineTypeOK, WorkerTypeOK
<1>2. PICK q : /\ handler' = [handler EXCEPT ![h] = q]
               /\ q = Idle \/ Serves(q, msg)
               /\ q.op \in {"idle", "status", "progress"}
  <2>1. CASE msg.kind = "status" /\ StatusRead(h, msg.task, msg.rep)
    <3> DEFINE r == [op |-> "status", pc |-> "write", task |-> msg.task,
                     seen |-> tasks[msg.task].status, progress |-> tasks[msg.task].progress,
                     rep |-> msg.rep]
    <3>1. handler' = [handler EXCEPT ![h] = r]
      BY <2>1 DEF StatusRead, Begin
    <3>2. Serves(r, msg) /\ r.op = "status"
      BY <2>1 DEF Serves
    <3> HIDE DEF r
    <3> QED BY <3>1, <3>2
  <2>2. CASE msg.kind = "progress" /\ ProgressRead(h, msg.task, msg.progress)
    <3> DEFINE r == [op |-> "progress", pc |-> "write", task |-> msg.task,
                     progress |-> msg.progress]
    <3>1. handler' = [handler EXCEPT ![h] = r]
      BY <2>2 DEF ProgressRead, Begin
    <3>2. Serves(r, msg) /\ r.op = "progress"
      BY <2>2 DEF Serves
    <3> HIDE DEF r
    <3> QED BY <3>1, <3>2
  <2>3. CASE handler[h] = Idle /\ UNCHANGED handler
    <3>1. handler' = [handler EXCEPT ![h] = Idle]
      BY <2>3 DEF PipelineTypeOK, TypeOK
    <3>2. Idle.op = "idle"
      BY DEF Idle
    <3> QED BY <3>1, <3>2
  <2> QED BY <1>1, <2>1, <2>2, <2>3 DEF Handle, StatusReject, ProgressReject, gatewayVars
<1>3. /\ \A g \in Handler \ {h} : handler'[g] = handler[g]
      /\ handler'[h] = q
  BY <1>2 DEF PipelineTypeOK, TypeOK
<1>4. /\ \A r \in Proc \ {p} : taken'[r] = taken[r] /\ taken[r] # h
      /\ taken'[p] = h
      /\ \A r \in Proc : taken[r] \in Handler \cup {None}
  BY <1>a DEF PipelineTypeOK, NetTypeOK, Accepting
<1>5. proc[p].pc = "wait"
  BY <1>a DEF PipelineTypeOK, WorkerTypeOK, CallsMatch
<1>6. \A r \in Proc : taken'[r] # None =>
         proc'[r].pc = "wait" /\ (handler'[taken'[r]] = Idle \/ Serves(handler'[taken'[r]], call'[r]))
  BY <1>a, <1>1, <1>2, <1>3, <1>4, <1>5 DEF ServingInv
<1>7. \A r, s \in Proc : taken'[r] # None /\ taken'[r] = taken'[s] => r = s
  BY <1>4 DEF ServingInv
<1>8. \A g \in Handler :
         handler'[g].op \in {"status", "progress"} => \E r \in Proc : taken'[r] = g
  BY <1>a, <1>3, <1>4, PipelineAssumption DEF ServingInv
<1>9. \A g \in Handler :
          handler'[g].op # "create" /\ (handler'[g].op = "upload" => handler'[g].pc # "mark")
  BY <1>2, <1>3 DEF ServingInv
<1> QED BY <1>a, <1>6, <1>7, <1>8, <1>9 DEF ServingInv

(* A process that moves on is not being served: it does not wait.          *)
LEMMA ServingProcess ==
    ASSUME PipelineTypeOK, ServingInv, NEW p \in Proc, NEW x, NEW c, UNCHANGED <<handler, late>>,
           proc' = [proc EXCEPT ![p] = x], call' = [call EXCEPT ![p] = c],
           \/ UNCHANGED taken /\ taken[p] = None
           \/ taken' = [taken EXCEPT ![p] = None] /\ taken[p] # None /\ handler[taken[p]] = Idle
    PROVE  ServingInv'
<1>1. \A q \in Proc \ {p} : proc'[q] = proc[q] /\ call'[q] = call[q] /\ taken'[q] = taken[q]
  BY DEF PipelineTypeOK, WorkerTypeOK, NetTypeOK
<1>2. taken'[p] = None
  BY DEF PipelineTypeOK, NetTypeOK
<1>3. \A h \in Handler :
         handler[h].op \in {"status", "progress"} => \E q \in Proc : taken'[q] = h
  <2> SUFFICES ASSUME NEW h \in Handler, handler[h].op \in {"status", "progress"}
               PROVE  \E q \in Proc : taken'[q] = h
    OBVIOUS
  <2>1. PICK q \in Proc : taken[q] = h
    BY DEF ServingInv
  <2>2. q # p
    BY <2>1, PipelineAssumption DEF Idle
  <2> QED BY <1>1, <2>1, <2>2
<1> QED BY <1>1, <1>2, <1>3 DEF ServingInv

-----------------------------------------------------------------------------
(* WHAT A PROCESS DOES                                                     *)

StatusCall(job, status, result, error) ==
    [kind |-> "status", task |-> job.task,
     rep |-> [status |-> status, result |-> result, error |-> error, attempt |-> _attempt_count]]

(* Process p posts c and goes on at next.                                  *)
Posts(p, c, next) ==
    /\ call' = [call EXCEPT ![p] = c]
    /\ proc' = [proc EXCEPT ![p] = [pc |-> "wait", job |-> proc[p].job, next |-> next]]

Begins(p) ==
    /\ proc[p].pc = "start"
    /\ Posts(p, StatusCall(proc[p].job, "running", NoResult, FALSE), "work")
    /\ UNCHANGED <<queue, ended>>

Progresses(p) ==
    /\ Working(p)
    /\ \E c \in ProgressMsg : c.task = proc[p].job.task /\ Posts(p, c, "worked")
    /\ UNCHANGED <<queue, ended>>

Succeeds(p) ==
    /\ Working(p)
    /\ Posts(p, StatusCall(proc[p].job, "completed", proc[p].job.run, FALSE), "ack")
    /\ ended' = ended \cup {Success(proc[p].job.task, proc[p].job.run)}
    /\ UNCHANGED queue

Fails(p) ==
    /\ Working(p)
    /\ Posts(p, StatusCall(proc[p].job, "failed", NoResult, TRUE), "ack")
    /\ ended' = ended \cup {[task |-> proc[p].job.task, run |-> proc[p].job.run, ok |-> FALSE]}
    /\ UNCHANGED queue

(* The steps of a process.                                                 *)
LEMMA WorkerMoves ==
    ASSUME PipelineTypeOK, ServingInv, NEW p \in Proc, Worker(p)
    PROVE  /\ proc[p] \in Executing /\ taken[p] = None
           /\ UNCHANGED gatewayVars /\ UNCHANGED netVars
           /\ Begins(p) \/ Progresses(p) \/ Succeeds(p) \/ Fails(p)
<1> DEFINE job == proc[p].job
<1>a. UNCHANGED gatewayVars /\ UNCHANGED netVars
  BY DEF Worker
<1>b. proc[p].pc \in {"start", "work", "worked"}
  BY DEF Worker, WorkerStep, ReportProgress, StartRun, RunSucceeds, RunFails, Working
<1>c. proc[p] \in Executing /\ taken[p] = None
  BY <1>b, WorkerShapes DEF PipelineTypeOK, WorkerTypeOK, ServingInv
<1>d. job \in Job /\ job.task \in Task
  BY <1>c DEF Executing, Job
<1>1. CASE StartRun(p)
  <2>1. Begins(p)
    BY <1>1 DEF StartRun, Begins, mark_status, Report_, Posts, StatusCall
  <2> QED BY <1>a, <1>c, <2>1
<1>2. ASSUME NEW v \in Progress, ReportProgress(p, v)
      PROVE  Progresses(p)
  <2> DEFINE c == [kind |-> "progress", task |-> job.task, progress |-> v]
  <2>1. c \in ProgressMsg /\ c.task = job.task
    BY <1>d DEF ProgressMsg
  <2>2. Posts(p, c, "worked") /\ Working(p) /\ UNCHANGED <<queue, ended>>
    BY <1>2 DEF ReportProgress, report_progress, Report_, Posts, Working
  <2> HIDE DEF c
  <2> QED BY <2>1, <2>2 DEF Progresses
<1>3. CASE RunSucceeds(p)
  <2>1. Succeeds(p)
    BY <1>3 DEF RunSucceeds, Succeeds, mark_status, Report_, Posts, StatusCall, End, Success
  <2> QED BY <1>a, <1>c, <2>1
<1>4. CASE RunFails(p)
  <2>1. Fails(p)
    BY <1>4 DEF RunFails, Fails, mark_status, Report_, Posts, StatusCall, End
  <2> QED BY <1>a, <1>c, <2>1
<1> QED BY <1>a, <1>c, <1>1, <1>2, <1>3, <1>4 DEF Worker, WorkerStep

(* Every step keeps track of who serves whom.                              *)
LEMMA ServingStep ==
    ASSUME PipelineTypeOK, ServingInv, CallShape, FaultFree, [PipelineNext]_vars
    PROVE  ServingInv'
<1>1. ASSUME NEW h \in Handler, GatewayStep(h) PROVE ServingInv'
  BY <1>1, ServingGateway
<1>2. ASSUME NEW h \in Handler, NEW accepted \in BOOLEAN, DispatchQueued(h, accepted)
      PROVE  ServingInv'
  <2>0. accepted
    BY <1>2, NoFaults DEF DispatchQueued
  <2>1. handler' = [handler EXCEPT ![h] = Idle] /\ UNCHANGED <<proc, call, taken, late>>
    BY <1>2, <2>0 DEF DispatchQueued, Dispatch, Return, Enqueue
  <2> QED BY <2>1, ServingRequest
<1>3. ASSUME NEW h \in Handler, NEW t \in Task, User(h, t) PROVE ServingInv'
  <2>1. PICK q : /\ handler' = [handler EXCEPT ![h] = q]
                 /\ q.op \in {"upload", "retry"} /\ q.pc # "mark"
    <3>1. PICK q \in {[op |-> "upload", pc |-> "resource", task |-> t],
                      [op |-> "retry", pc |-> "reset", task |-> t]} :
             handler' = [handler EXCEPT ![h] = q]
      BY <1>3 DEF User, UploadPut, RetryRead, Begin
    <3>2. q.op \in {"upload", "retry"} /\ q.pc # "mark"
      BY <3>1
    <3> QED BY <3>1, <3>2
  <2>2. UNCHANGED <<proc, call, taken, late>> /\ \A p \in Proc : taken[p] # h
    BY <1>3 DEF User, workerVars, netVars, Accepting
  <2> QED BY <2>1, <2>2, ServingRequest
<1>4. ASSUME NEW h \in Handler, NEW p \in Proc, Deliver(h, p) PROVE ServingInv'
  BY <1>4, ServingDeliver
<1>5. ASSUME NEW p \in Proc, Take(p) PROVE ServingInv'
  <2>1. PICK job : Fetch(p, job)
    BY <1>5 DEF Take
  <2>2. taken[p] = None
    BY <2>1 DEF Fetch, Free, ServingInv
  <2>3. /\ proc' = [proc EXCEPT ![p] = [pc |-> "start", job |-> job]]
        /\ call' = [call EXCEPT ![p] = call[p]]
        /\ UNCHANGED <<handler, late, taken>>
    BY <1>5, <2>1 DEF Take, Fetch, gatewayVars, netVars, PipelineTypeOK, WorkerTypeOK
  <2> QED BY <2>2, <2>3, ServingProcess
<1>6. ASSUME NEW p \in Proc, Worker(p) PROVE ServingInv'
  <2>1. taken[p] = None /\ UNCHANGED <<handler, late, taken>>
    BY <1>6, WorkerMoves DEF gatewayVars, netVars
  <2>2. PICK x, c : proc' = [proc EXCEPT ![p] = x] /\ call' = [call EXCEPT ![p] = c]
    <3>1. \E c, next : Posts(p, c, next)
      BY <1>6, WorkerMoves DEF Begins, Progresses, Succeeds, Fails
    <3> QED BY <3>1 DEF Posts
  <2> QED BY <2>1, <2>2, ServingProcess
<1>7. ASSUME NEW p \in Proc, Answer(p) PROVE ServingInv'
  <2>1. /\ taken[p] # None /\ handler[taken[p]] = Idle /\ taken' = [taken EXCEPT ![p] = None]
        /\ UNCHANGED <<handler, late>> /\ call' = [call EXCEPT ![p] = NoCall]
    BY <1>7 DEF Answer, Resume, gatewayVars
  <2>2. PICK x : proc' = [proc EXCEPT ![p] = x]
    BY <1>7 DEF Answer, Resume
  <2> QED BY <2>1, <2>2, ServingProcess
<1>8. ASSUME NEW t \in Task, Cooldown(t) PROVE ServingInv'
  BY <1>8 DEF Cooldown, CooldownElapses, workerVars, netVars, ServingInv
<1>9. CASE UNCHANGED vars
  BY <1>9 DEF vars, gatewayVars, workerVars, netVars, ServingInv
<1> QED
  BY <1>1, <1>2, <1>3, <1>4, <1>5, <1>6, <1>7, <1>8, <1>9, NoFaults DEF PipelineNext

-----------------------------------------------------------------------------
(* WHAT A PROCESS WAITS FOR                                                *)

LEMMA ShapeProcess ==
    ASSUME PipelineTypeOK, CallShape, NEW p \in Proc, NEW x, NEW c,
           proc' = [proc EXCEPT ![p] = x], call' = [call EXCEPT ![p] = c],
           x.pc = "wait" => WaitShape(x, c)
    PROVE  CallShape'
BY DEF PipelineTypeOK, WorkerTypeOK, CallShape

LEMMA ShapeStep ==
    ASSUME PipelineTypeOK, ServingInv, CallShape, FaultFree, [PipelineNext]_vars
    PROVE  CallShape'
<1>s. ASSUME UNCHANGED <<proc, call>> PROVE CallShape'
  BY <1>s DEF CallShape
<1>1. ASSUME NEW h \in Handler,
             \/ GatewayStep(h) \/ (\E t \in Task : User(h, t)) \/ (\E p \in Proc : Deliver(h, p))
             \/ (\E accepted \in BOOLEAN : DispatchQueued(h, accepted))
      PROVE  CallShape'
  BY <1>1, <1>s DEF GatewayStep, User, Deliver, DispatchQueued, Enqueue, workerVars
<1>2. ASSUME NEW p \in Proc, Take(p) PROVE CallShape'
  <2>1. PICK job : Fetch(p, job)
    BY <1>2 DEF Take
  <2>2. PICK x : x = [pc |-> "start", job |-> job]
    OBVIOUS
  <2>3. /\ proc' = [proc EXCEPT ![p] = x] /\ x.pc = "start"
        /\ call' = [call EXCEPT ![p] = call[p]]
    BY <2>1, <2>2 DEF Fetch, PipelineTypeOK, WorkerTypeOK
  <2> QED BY <2>3, ShapeProcess
<1>3. ASSUME NEW p \in Proc, Answer(p) PROVE CallShape'
  <2>1. /\ proc[p].pc = "wait" /\ call' = [call EXCEPT ![p] = NoCall]
    BY <1>3 DEF Answer, Resume
  <2>2. PICK x \in {Free, [pc |-> proc[p].next, job |-> proc[p].job]} :
           proc' = [proc EXCEPT ![p] = x]
    BY <1>3 DEF Answer, Resume
  <2>3. proc[p].next # "wait"
    BY <2>1, WorkerShapes DEF PipelineTypeOK, WorkerTypeOK, Waiting
  <2>4. x.pc # "wait"
    BY <2>2, <2>3 DEF Free
  <2> QED BY <2>1, <2>2, <2>4, ShapeProcess
<1>4. ASSUME NEW p \in Proc, Worker(p) PROVE CallShape'
  <2>p. ASSUME NEW c, NEW next, Posts(p, c, next),
               WaitShape([pc |-> "wait", job |-> proc[p].job, next |-> next], c)
        PROVE  CallShape'
    <3>1. PICK x : x = [pc |-> "wait", job |-> proc[p].job, next |-> next]
      OBVIOUS
    <3>2. x.pc = "wait" /\ WaitShape(x, c) /\ proc' = [proc EXCEPT ![p] = x]
          /\ call' = [call EXCEPT ![p] = c]
      BY <2>p, <3>1 DEF Posts
    <3> QED BY <2>p, <3>2, ShapeProcess
  <2>1. CASE Begins(p)
    BY <2>1, <2>p DEF Begins, WaitShape, StatusCall
  <2>2. CASE Progresses(p)
    <3>1. PICK c \in ProgressMsg : Posts(p, c, "worked")
      BY <2>2 DEF Progresses
    <3>2. c.kind = "progress"
      BY DEF ProgressMsg
    <3> QED BY <2>2, <2>p, <3>1, <3>2 DEF Progresses, WaitShape
  <2>3. CASE Succeeds(p)
    BY <2>3, <2>p DEF Succeeds, WaitShape, StatusCall
  <2>4. CASE Fails(p)
    BY <2>4, <2>p DEF Fails, WaitShape, StatusCall
  <2> QED BY <1>4, <2>1, <2>2, <2>3, <2>4, WorkerMoves
<1>5. ASSUME NEW t \in Task, Cooldown(t) PROVE CallShape'
  BY <1>5, <1>s DEF Cooldown, workerVars
<1>6. CASE UNCHANGED vars
  BY <1>6, <1>s DEF vars, workerVars
<1> QED BY <1>1, <1>2, <1>3, <1>4, <1>5, <1>6, NoFaults DEF PipelineNext

-----------------------------------------------------------------------------
(* ONE PARTY AT A TIME: THE PROCESSES                                      *)

(* The messages of the other tasks stay what they are.                     *)
LEMMA QueuePut ==
    ASSUME TokenInv, NEW job, job.task \in Task, Queued(job.task) = {}, Put(job)
    PROVE  /\ Queued(job.task)' = {job} /\ queue'[job] = 1
           /\ \A u \in Task : u # job.task =>
                 Queued(u)' = Queued(u) /\ \A j \in Queued(u) : queue'[j] = queue[j]
<1>1. BagToSet(queue') = BagToSet(queue) \cup {job}
  BY PutFact
<1>2. \A u : u # job.task => Queued(u)' = Queued(u)
  BY <1>1 DEF Queued
<1>3. Queued(job.task)' = {job}
  BY <1>1 DEF Queued
<1>4. job \notin DOMAIN queue
  BY DEF Queued, BagToSet
<1>5. queue' = queue (+) SetToBag({job})
  BY DEF Put
<1>6. queue'[job] = 1
  BY <1>4, <1>5 DEF (+), SetToBag
<1>7. \A u \in Task : \A j \in Queued(u) : j \in DOMAIN queue /\ queue[j] = 1
  BY DEF TokenInv, TaskInv, QueueOK, Queued, BagToSet
<1>8. \A j \in DOMAIN queue : queue[j] = 1 => queue'[j] = queue[j]
  BY <1>4, <1>5 DEF (+), SetToBag
<1> QED BY <1>2, <1>3, <1>6, <1>7, <1>8

LEMMA QueueTake ==
    ASSUME TokenInv, NEW job \in BagToSet(queue), job.task \in Task, NEW p, Fetch(p, job)
    PROVE  /\ Queued(job.task) = {job} /\ Queued(job.task)' = {}
           /\ \A u \in Task : u # job.task =>
                 Queued(u)' = Queued(u) /\ \A j \in Queued(u) : queue'[j] = queue[j]
<1>1. queue' = queue (-) SetToBag({job})
  BY DEF Fetch
<1>2. Queued(job.task) = {job} /\ queue[job] = 1
  BY DEF TokenInv, TaskInv, Exclusive, QueueOK, Queued
<1>3. \A u \in Task : \A j \in Queued(u) : j \in DOMAIN queue /\ queue[j] = 1 /\ j.task = u
  BY DEF TokenInv, TaskInv, QueueOK, Queued, BagToSet
<1>4. job \notin DOMAIN queue' /\ DOMAIN queue' \subseteq DOMAIN queue
  BY <1>1, <1>2 DEF (-), SetToBag
<1>5. \A j \in DOMAIN queue : j # job /\ queue[j] = 1 => j \in DOMAIN queue' /\ queue'[j] = 1
  BY <1>1 DEF (-), SetToBag
<1>6. \A u \in Task : u # job.task =>
                 Queued(u)' = Queued(u) /\ \A j \in Queued(u) : queue'[j] = queue[j]
  BY <1>3, <1>4, <1>5 DEF Queued, BagToSet
<1>7. Queued(job.task)' = {}
  BY <1>2, <1>4 DEF Queued, BagToSet
<1> QED BY <1>2, <1>6, <1>7

(* The role of a process that executes its task, or none.                  *)
LEMMA ExecutingRole ==
    ASSUME NEW p \in Proc, proc[p] \in Executing \cup {Free}
    PROVE  /\ p \in mains <=> proc[p].pc \in {"start", "work", "worked"}
           /\ p \notin finishing
           /\ p \in fresh <=> proc[p].pc = "start"
<1>1. /\ proc[p].pc \in {"free", "start", "work", "worked"}
      /\ proc[p] = Free <=> proc[p].pc = "free"
  BY DEF Executing, Free
<1>2. p \in mains <=> proc[p].pc \in {"start", "work", "worked"}
  BY <1>1 DEF mains, Role
<1>4. p \notin finishing /\ (p \in fresh <=> proc[p].pc = "start")
  BY <1>1 DEF finishing, fresh
<1> QED BY <1>2, <1>4

(* The role of a process that has just posted c.                           *)
LEMMA PostedRole ==
    ASSUME PipelineTypeOK, NEW p \in Proc, NEW c, NEW next, Posts(p, c, next),
           UNCHANGED taken, taken[p] = None
    PROVE  /\ proc'[p].job = proc[p].job
           /\ p \in mains'
           /\ p \in fresh' <=> next = "work"
           /\ p \in finishing' <=> c.kind = "status" /\ c.rep.status = "completed"
<1>1. PICK x : x = [pc |-> "wait", job |-> proc[p].job, next |-> next]
  OBVIOUS
<1>2. x.pc = "wait" /\ x.job = proc[p].job /\ x.next = next /\ x # Free
  BY <1>1 DEF Free
<1>3. proc'[p] = x /\ call'[p] = c
  BY <1>1 DEF Posts, PipelineTypeOK, WorkerTypeOK
<1>4. p \notin written'
  BY DEF written
<1>5. p \in mains'
  BY <1>2, <1>3, <1>4 DEF mains, Role
<1>7. /\ p \in fresh' <=> next = "work"
      /\ p \in finishing' <=> c.kind = "status" /\ c.rep.status = "completed"
  BY <1>2, <1>3, <1>4 DEF fresh, finishing
<1> QED BY <1>2, <1>3, <1>5, <1>7

(* A working process is the only party of its task.                        *)
LEMMA SoleWorker ==
    ASSUME PipelineTypeOK, TokenInv, NEW p \in Proc, p \in mains, NEW t \in Task, t = proc[p].job.task
    PROVE  /\ TaskInv(t) /\ Mains(t) = {p} /\ MainOK(t, p)
           /\ Queued(t) = {} /\ Dispatchers(t) = {}
           /\ \A u \in Task : p \in Mains(u) <=> u = t
<1>1. TaskInv(t)
  BY DEF TokenInv
<1>2. p \in Mains(t) /\ \A u \in Task : p \in Mains(u) <=> u = t
  BY DEF Mains
<1>3. Mains(t) = {p} /\ Queued(t) = {} /\ Dispatchers(t) = {} /\ MainOK(t, p)
  BY <1>1, <1>2 DEF TaskInv, Exclusive
<1> QED BY <1>1, <1>2, <1>3

(* A step of process p that leaves its task's entitlement where it is.     *)
LEMMA TokenWorker ==
    ASSUME PipelineTypeOK, ServingInv, CallShape, TokenInv, NEW p \in Proc, Worker(p)
    PROVE  TokenInv'
<1>a. proc[p] \in Executing /\ taken[p] = None
  BY WorkerMoves
<1>b. UNCHANGED <<created, tasks, handler, runs, taken>>
  BY WorkerMoves DEF gatewayVars, netVars
<1>t. PICK t \in Task : t = proc[p].job.task
  BY <1>a DEF Executing, Job
<1>r. /\ p \in mains <=> proc[p].pc \in {"start", "work", "worked"}
      /\ p \notin finishing
      /\ p \in fresh <=> proc[p].pc = "start"
  BY <1>a, ExecutingRole
<1>w. Working(p) => p \in mains /\ p \notin fresh
  BY <1>r DEF Working
<1>q. runs[t] \in Nat
  BY WorkerAssumption DEF PipelineTypeOK, NetTypeOK
<1>o. ASSUME NEW c, NEW next, Posts(p, c, next)
      PROVE  \A q \in Proc \ {p} : /\ proc'[q] = proc[q] /\ call'[q] = call[q]
                                   /\ taken'[q] = taken[q]
  BY <1>b, <1>o DEF Posts, PipelineTypeOK, WorkerTypeOK
<1>k. ASSUME NEW c, NEW next, Posts(p, c, next)
      PROVE  \A q \in Proc \ {p}, u \in Task :
                q \in Mains(u)' <=> q \in Mains(u)
  <2>1. \A q \in Proc \ {p} : /\ proc'[q] = proc[q] /\ call'[q] = call[q]
                              /\ q \in written' <=> q \in written
    BY <1>b, <1>k, <1>o DEF written
  <2>2. Proc \ {p} \in SUBSET Proc
    OBVIOUS
  <2> QED BY <2>1, <2>2, ProcsKept
<1>s. ASSUME NEW u \in Task, UNCHANGED queue PROVE Queued(u)' = Queued(u)
  BY <1>s DEF Queued
<1>d. ASSUME NEW u \in Task
      PROVE  Dispatchers(u)' = Dispatchers(u) /\ Retriers(u)' = Retriers(u)
  BY <1>b DEF Dispatchers, Retriers
(* p keeps working on its task.                                            *)
<1>m. ASSUME NEW c, NEW next, Posts(p, c, next), p \in mains, p \in mains',
             p \in fresh' <=> p \in fresh, UNCHANGED queue,
             \A e \in ended' \ ended : e.task = t /\ ~e.ok /\ e.run = proc[p].job.run
      PROVE  TokenInv'
  <2> SUFFICES ASSUME NEW u \in Task PROVE TaskInv(u)'
    BY DEF TokenInv
  <2>1. proc'[p].job = proc[p].job
    BY <1>a, <1>b, <1>m, PostedRole
  <2>2. (p \in Mains(u)' <=> p \in Mains(u))
    BY <1>m, <2>1 DEF Mains
  <2>3. \A e \in ended' \ ended : e.task = u => ~e.ok /\ e.run <= runs[u]
    BY <1>m, <1>t, <1>q, SoleWorker DEF MainOK
  <2>4. Undisturbed(u)
    BY <1>b, <1>m, <1>o, <1>r, <1>s, <2>1, <2>2, <2>3, ProcessFrame
  <2> QED BY <2>4, TaskFrame DEF TokenInv
<1>1. CASE Begins(p)
  <2>1. PICK c : c = StatusCall(proc[p].job, "running", NoResult, FALSE)
    OBVIOUS
  <2>2. Posts(p, c, "work") /\ proc[p].pc = "start" /\ UNCHANGED <<queue, ended>>
    BY <1>1, <2>1 DEF Begins
  <2>3. p \in mains' /\ p \in fresh'
    BY <1>a, <1>b, <2>2, PostedRole
  <2> QED BY <1>m, <1>r, <2>2, <2>3
<1>2. CASE Progresses(p)
  <2>1. PICK c \in ProgressMsg : Posts(p, c, "worked")
    BY <1>2 DEF Progresses
  <2>2. c.kind = "progress" /\ Working(p) /\ UNCHANGED <<queue, ended>>
    BY <1>2 DEF Progresses, ProgressMsg
  <2>3. p \in mains' /\ p \notin fresh'
    BY <1>a, <1>b, <2>1, <2>2, PostedRole
  <2> QED BY <1>m, <1>w, <2>1, <2>2, <2>3
<1>3. CASE Fails(p)
  <2>1. PICK c : c = StatusCall(proc[p].job, "failed", NoResult, TRUE)
    OBVIOUS
  <2>2. Posts(p, c, "ack")
    BY <1>3, <2>1 DEF Fails
  <2>3. c.rep.status = "failed" /\ Working(p) /\ UNCHANGED queue
    BY <1>3, <2>1 DEF Fails, StatusCall
  <2>4. p \in mains' /\ p \notin fresh'
    BY <1>a, <1>b, <2>2, <2>3, PostedRole
  <2>5. \A e \in ended' \ ended : e.task = t /\ ~e.ok /\ e.run = proc[p].job.run
    BY <1>3, <1>t DEF Fails
  <2> QED BY <1>m, <1>w, <2>2, <2>3, <2>4, <2>5
<1>5. CASE Succeeds(p)
  <2>1. PICK c : c = StatusCall(proc[p].job, "completed", proc[p].job.run, FALSE)
    OBVIOUS
  <2>2. Posts(p, c, "ack") /\ Working(p) /\ UNCHANGED queue
    BY <1>5, <2>1 DEF Succeeds
  <2>3. c.kind = "status" /\ c.rep.status = "completed"
    BY <2>1 DEF StatusCall
  <2>4. /\ p \in mains' /\ p \notin fresh' /\ p \in finishing'
        /\ proc'[p].job = proc[p].job
    BY <1>a, <1>b, <2>2, <2>3, PostedRole
  <2>5. \A e \in ended' \ ended : e.task = t /\ e.run = proc[p].job.run
    BY <1>5, <1>t DEF Succeeds, Success
  <2>6. /\ TaskInv(t) /\ Mains(t) = {p} /\ MainOK(t, p) /\ Queued(t) = {}
        /\ Dispatchers(t) = {} /\ \A u \in Task : p \in Mains(u) <=> u = t
    BY <1>t, <1>w, <2>2, SoleWorker
  <2>7. ASSUME NEW u \in Task, u # t PROVE TaskInv(u)'
    <3>1. p \notin Mains(u) /\ p \notin Mains(u)'
      BY <1>t, <2>4, <2>7 DEF Mains
    <3>2. Undisturbed(u)
      BY <1>b, <1>o, <1>s, <2>2, <2>5, <2>7, <3>1, ProcessFrame
    <3> QED BY <3>2, TaskFrame DEF TokenInv
  <2>8. TaskInv(t)'
    <3>1. Mains(t)' = {p}
      <4>1. Mains(t)' \subseteq Proc
        BY DEF Mains, mains
      <4>2. p \in Mains(t)'
        BY <1>t, <2>4 DEF Mains
      <4> QED BY <1>k, <2>2, <2>6, <4>1, <4>2
    <3>2. Queued(t)' = {} /\ Dispatchers(t)' = {} /\ Retriers(t)' = Retriers(t)
      BY <1>d, <1>s, <2>2, <2>6
    <3>3. MainOK(t, p)' /\ tasks[t].status = "running" /\ proc[p].job.run = runs[t]
      BY <1>b, <1>w, <2>2, <2>4, <2>6 DEF MainOK
    <3>4. RowOK(t)'
      BY <1>b, <1>q, <2>5, <2>6, <3>3 DEF RowOK, TaskInv
    <3>5. RequestsOK(t)'
      BY <1>b, <2>6, <3>2 DEF RequestsOK, TaskInv
    <3> QED BY <3>1, <3>2, <3>3, <3>4, <3>5 DEF TaskInv, Exclusive, Driven
  <2> QED BY <2>7, <2>8 DEF TokenInv
<1> QED BY <1>1, <1>2, <1>3, <1>5, WorkerMoves

(* A process takes the message: the entitlement passes from the queue to   *)
(* it.                                                                     *)
LEMMA TokenTake ==
    ASSUME PipelineTypeOK, ServingInv, TokenInv, NEW p \in Proc, Take(p)
    PROVE  TokenInv'
<1>1. PICK job \in BagToSet(queue) : Fetch(p, job)
  BY DEF Take
<1>2. job \in Job
  BY DEF PipelineTypeOK, WorkerTypeOK
<1>t. PICK t \in Task : t = job.task
  BY <1>2 DEF Job
<1>b. UNCHANGED <<created, tasks, handler, runs, taken, call, ended>>
  BY <1>1 DEF Take, Fetch, gatewayVars, netVars
<1>3. PICK x : x = [pc |-> "start", job |-> job]
  OBVIOUS
<1>4. x.pc = "start" /\ x.job = job /\ x # Free
  BY <1>3 DEF Free
<1>5. proc[p] = Free /\ proc'[p] = x
  BY <1>1, <1>3 DEF Fetch, PipelineTypeOK, WorkerTypeOK
<1>o. \A q \in Proc \ {p} : /\ proc'[q] = proc[q] /\ call'[q] = call[q]
                            /\ taken'[q] = taken[q]
  BY <1>1, <1>b DEF Fetch, PipelineTypeOK, WorkerTypeOK
<1>6. p \notin mains
  BY <1>5 DEF mains, Role
<1>7. p \in mains' /\ p \in fresh' /\ p \notin finishing'
  <2>1. p \in mains'
    BY <1>4, <1>5 DEF mains, Role
  <2>2. p \in fresh' /\ p \notin finishing'
    BY <1>4, <1>5 DEF fresh, finishing
  <2> QED BY <2>1, <2>2
<1>8. /\ Queued(t) = {job} /\ Queued(t)' = {}
      /\ \A u \in Task : u # t =>
            Queued(u)' = Queued(u) /\ \A j \in Queued(u) : queue'[j] = queue[j]
  BY <1>1, <1>t, QueueTake
<1>9. ASSUME NEW u \in Task, u # t PROVE TaskInv(u)'
  <2>1. p \notin Mains(u) /\ p \notin Mains(u)'
    BY <1>t, <1>4, <1>5, <1>6, <1>7, <1>9 DEF Mains
  <2>2. Undisturbed(u)
    BY <1>b, <1>o, <1>8, <1>9, <2>1, ProcessFrame
  <2> QED BY <2>2, TaskFrame DEF TokenInv
<1>10. TaskInv(t)'
  <2>1. TaskInv(t) /\ QueueOK(t, job) /\ Mains(t) = {} /\ Dispatchers(t) = {}
    BY <1>8 DEF TokenInv, TaskInv, Exclusive
  <2>3. Mains(t)' = {p}
    <3>1. \A q \in Proc \ {p} : q \in written' <=> q \in written
      BY <1>b, <1>o DEF written
    <3>2. \A q \in Proc \ {p} : q \in Mains(t)' <=> q \in Mains(t)
      <4>1. Proc \ {p} \in SUBSET Proc
        OBVIOUS
      <4> QED BY <1>o, <3>1, <4>1, ProcsKept
    <3>3. Mains(t)' \subseteq Proc
      BY DEF Mains, mains
    <3>4. p \in Mains(t)'
      BY <1>t, <1>4, <1>5, <1>7 DEF Mains
    <3> QED BY <2>1, <3>2, <3>3, <3>4
  <2>4. Dispatchers(t)' = {} /\ Retriers(t)' = Retriers(t)
    BY <1>b, <2>1 DEF Dispatchers, Retriers
  <2>5. MainOK(t, p)'
    BY <1>b, <1>4, <1>5, <1>7, <2>1 DEF MainOK, QueueOK
  <2>6. RowOK(t)'
    BY <1>b, <2>1 DEF RowOK, TaskInv
  <2>7. RequestsOK(t)'
    BY <1>b, <2>1, <2>4 DEF RequestsOK, TaskInv
  <2> QED BY <1>8, <2>3, <2>4, <2>5, <2>6, <2>7 DEF TaskInv, Exclusive, Driven
<1> QED BY <1>9, <1>10 DEF TokenInv

(* The answer to a report changes no entitlement: that was done when the   *)
(* report was written.                                                     *)
LEMMA TokenAnswer ==
    ASSUME PipelineTypeOK, ServingInv, CallShape, TokenInv, NEW p \in Proc, Answer(p)
    PROVE  TokenInv'
<1>b. UNCHANGED <<created, tasks, handler, runs, queue, ended>>
  BY DEF Answer, Resume, gatewayVars
<1>1. /\ proc[p].pc = "wait" /\ proc[p] \in Waiting /\ WaitShape(proc[p], call[p])
      /\ call[p] \in Message /\ p \in written
  BY WorkerShapes DEF Answer, Resume, PipelineTypeOK, WorkerTypeOK, CallShape, CallsMatch, written
<1>2. PICK x : /\ proc' = [proc EXCEPT ![p] = x]
               /\ x = IF proc[p].next = "ack" THEN Free ELSE [pc |-> proc[p].next, job |-> proc[p].job]
  BY DEF Answer, Resume
<1>3. proc'[p] = x
  BY <1>2 DEF PipelineTypeOK, WorkerTypeOK
<1>4. /\ proc[p].next = "ack" => x = Free
      /\ proc[p].next # "ack" => x.pc = proc[p].next /\ x.job = proc[p].job /\ x # Free
  BY <1>1, <1>2 DEF Free
<1>5. call[p].kind \in {"status", "progress"}
      /\ (call[p].kind = "status" => call[p].rep.status \in {"running", "completed", "failed"})
  BY <1>1, WorkerShapes DEF StatusMsg, WorkerReport
<1>6. proc[p].next \in {"work", "worked", "ack"} /\ proc[p] # Free
  BY <1>1 DEF Waiting, Free
<1>7. /\ p \in mains' <=> p \in mains
      /\ p \in mains => proc'[p].job = proc[p].job /\ p \notin fresh /\ p \notin finishing
      /\ p \notin fresh'
  <2>1. p \in mains <=> \/ call[p].kind = "progress"
                        \/ call[p].kind = "status" /\ call[p].rep.status = "running" /\ proc[p].next = "work"
    BY <1>1, <1>5, <1>6 DEF mains, Role, WaitShape
  <2>2. p \in mains' <=> proc[p].next \in {"work", "worked"}
    BY <1>3, <1>4, <1>6 DEF mains, Role
  <2>4. p \notin fresh'
    BY <1>3, <1>4, <1>6 DEF fresh, Free
  <2>5. p \in mains' <=> p \in mains
    BY <1>1, <1>5, <2>1, <2>2 DEF WaitShape
  <2>6. p \in mains => proc'[p].job = proc[p].job /\ p \notin fresh /\ p \notin finishing
    BY <1>1, <1>3, <1>4, <2>1, <2>2, <2>5 DEF fresh, finishing
  <2> QED BY <2>4, <2>5, <2>6
<1>o. \A q \in Proc \ {p} : /\ proc'[q] = proc[q] /\ call'[q] = call[q]
                            /\ taken'[q] = taken[q]
  BY <1>2 DEF Answer, Resume, PipelineTypeOK, WorkerTypeOK, NetTypeOK
<1> SUFFICES ASSUME NEW u \in Task PROVE TaskInv(u)'
  BY DEF TokenInv
<1>8. (p \in Mains(u)' <=> p \in Mains(u))
  BY <1>7 DEF Mains
<1>9. Queued(u)' = Queued(u)
  BY <1>b DEF Queued
<1>10. p \in Mains(u) => p \in mains
  BY DEF Mains
<1>11. Undisturbed(u)
  BY <1>b, <1>o, <1>7, <1>8, <1>9, <1>10, ProcessFrame
<1> QED BY <1>11, TaskFrame DEF TokenInv

-----------------------------------------------------------------------------
(* ONE PARTY AT A TIME: THE REQUESTS                                       *)

(* Until a report is written, the row is as the reporting process expects  *)
(* it: the report is never refused and reopens nothing.                    *)
LEMMA ReportAccepted ==
    ASSUME PipelineTypeOK, CallShape, TokenInv, NEW p \in Proc,
           proc[p].pc = "wait", call[p].kind = "status", p \notin written
    PROVE  /\ call[p].task \in created
           /\ canTransition(tasks[call[p].task].status, call[p].rep.status)
           /\ tasks[call[p].task].status \in {"pending", "running"}
<1>1. /\ proc[p] \in Waiting /\ call[p] \in StatusMsg /\ call[p].task = proc[p].job.task
      /\ WaitShape(proc[p], call[p])
  BY WorkerShapes DEF PipelineTypeOK, WorkerTypeOK, CallsMatch, CallShape, NoCall
<1>2. call[p].rep.status \in {"running", "completed", "failed"}
  BY <1>1 DEF StatusMsg, WorkerReport
<1>3. proc[p].job \in Job /\ proc[p] # Free
  BY <1>1 DEF Waiting, Free
<1>4. PICK t \in Task : t = proc[p].job.task /\ TaskInv(t)
  BY <1>3 DEF Job, TokenInv
<1>6. p \in Mains(t)
  BY <1>3, <1>4 DEF Mains, mains, Role
<1>7. MainOK(t, p)
  BY <1>4, <1>6 DEF TaskInv
<1>8. call[p].rep.status # "running" => p \notin fresh
  BY <1>1, <1>2 DEF fresh, WaitShape
<1> QED BY <1>1, <1>2, <1>4, <1>7, <1>8 DEF MainOK, canTransition

(* A step that only moves request h, and of no task's dispatch or retry.   *)
LEMMA TokenRequest ==
    ASSUME PipelineTypeOK, TokenInv, NEW h \in Handler, NEW q, handler' = [handler EXCEPT ![h] = q],
           UNCHANGED <<queue, proc, call, ended, runs, created>>,
           mains' = mains, fresh' = fresh, finishing' = finishing,
           ~(handler[h].op \in {"upload", "retry"} /\ handler[h].pc = "dispatch"),
           ~(q.op \in {"upload", "retry"} /\ q.pc = "dispatch"), q.op # "retry",
           \A u \in Task : /\ tasks'[u].status = tasks[u].status
                           /\ tasks'[u].result = tasks[u].result
                           /\ tasks'[u].retry_count = tasks[u].retry_count
    PROVE  TokenInv'
<1> SUFFICES ASSUME NEW u \in Task PROVE TaskInv(u)'
  BY DEF TokenInv
<1>1. handler'[h] = q
  BY DEF PipelineTypeOK, TypeOK
<1>2. h \notin Dispatchers(u) /\ h \notin Dispatchers(u)' /\ h \notin Retriers(u)'
  BY <1>1 DEF Dispatchers, Retriers
<1>3. Undisturbed(u)
  BY <1>2, RequestFrame
<1> QED BY <1>3, TaskFrame DEF TokenInv

LEMMA TokenDeliver ==
    ASSUME PipelineTypeOK, ServingInv, CallShape, TokenInv,
           NEW h \in Handler, NEW p \in Proc, Deliver(h, p)
    PROVE  TokenInv'
<1>1. /\ call[p] \in Message /\ proc[p].pc = "wait" /\ taken[p] = None
      /\ taken' = [taken EXCEPT ![p] = h] /\ \A r \in Proc : taken[r] # h
      /\ UNCHANGED <<queue, proc, call, ended, runs>>
  BY DEF Deliver, Accepting, PipelineTypeOK, WorkerTypeOK, CallsMatch, workerVars
<1>2. PICK msg \in Message : msg = call[p] /\ Handle(h, msg)
  BY <1>1 DEF Deliver
<1>3. UNCHANGED <<created, tasks>> /\ handler[h] = Idle
  BY <1>2 DEF Handle, StatusRead, StatusReject, ProgressRead, ProgressReject, Begin, gatewayVars
<1>4. PICK q : /\ handler' = [handler EXCEPT ![h] = q]
               /\ q.op \in {"idle", "status", "progress"}
               /\ msg.kind = "status" => q # Idle /\ q.pc = "write"
  <2>1. CASE msg.kind = "status" /\ StatusRead(h, msg.task, msg.rep)
    <3> DEFINE r == [op |-> "status", pc |-> "write", task |-> msg.task,
                     seen |-> tasks[msg.task].status, progress |-> tasks[msg.task].progress,
                     rep |-> msg.rep]
    <3>1. handler' = [handler EXCEPT ![h] = r]
      BY <2>1 DEF StatusRead, Begin
    <3>2. r.op = "status" /\ r.pc = "write" /\ r # Idle
      BY DEF Idle
    <3> HIDE DEF r
    <3> QED BY <3>1, <3>2
  <2>2. CASE msg.kind = "status" /\ StatusReject(h, msg.task, msg.rep)
    BY <1>1, <1>2, <2>2, ReportAccepted DEF StatusReject, written
  <2>3. CASE msg.kind = "progress" /\ ProgressRead(h, msg.task, msg.progress)
    <3> DEFINE r == [op |-> "progress", pc |-> "write", task |-> msg.task,
                     progress |-> msg.progress]
    <3>1. handler' = [handler EXCEPT ![h] = r]
      BY <2>3 DEF ProgressRead, Begin
    <3>2. r.op = "progress"
      OBVIOUS
    <3> HIDE DEF r
    <3> QED BY <2>3, <3>1, <3>2
  <2>4. CASE msg.kind = "progress" /\ ProgressReject(h, msg.task, msg.progress)
    <3>1. handler' = [handler EXCEPT ![h] = Idle]
      BY <2>4 DEF ProgressReject, gatewayVars, PipelineTypeOK, TypeOK
    <3>2. Idle.op = "idle"
      BY DEF Idle
    <3> QED BY <2>4, <3>1, <3>2
  <2> QED BY <1>2, <2>1, <2>2, <2>3, <2>4 DEF Handle
<1>5. \A r \in Proc : (r \in written' <=> r \in written) \/ call[r].kind = "progress"
  <2>1. /\ handler'[h] = q /\ \A g \in Handler \ {h} : handler'[g] = handler[g]
        /\ taken'[p] = h /\ \A r \in Proc \ {p} : taken'[r] = taken[r]
        /\ \A r \in Proc : taken[r] \in Handler \cup {None}
    BY <1>1, <1>4 DEF PipelineTypeOK, TypeOK, NetTypeOK
  <2>2. call[p].kind = "status" \/ call[p].kind = "progress"
    BY <1>1, WorkerShapes
  <2>3. call[p].kind = "status" => p \notin written' /\ p \notin written
    BY <1>1, <1>2, <1>4, <2>1 DEF written
  <2>4. \A r \in Proc \ {p} : r \in written' <=> r \in written
    BY <1>1, <2>1 DEF written
  <2> QED BY <2>2, <2>3, <2>4
<1>6. mains' = mains /\ fresh' = fresh /\ finishing' = finishing
  BY <1>1, <1>5, RolesKept
<1>7. handler[h].op = "idle"
  BY <1>3 DEF Idle
<1> QED BY <1>1, <1>3, <1>4, <1>6, <1>7, TokenRequest

(* A user uploads a file, or asks for a retry when no other retry of the   *)
(* task is under way.                                                      *)
LEMMA TokenUser ==
    ASSUME PipelineTypeOK, ServingInv, CallShape, TokenInv, FaultFree,
           NEW h \in Handler, NEW t \in Task, User(h, t)
    PROVE  TokenInv'
<1>1. /\ UNCHANGED <<queue, proc, call, ended, runs, taken, created, tasks>>
      /\ handler[h] = Idle /\ \A p \in Proc : taken[p] # h
  BY DEF User, UploadPut, RetryRead, Begin, Accepting, workerVars, netVars
<1>2. ASSUME NEW q, handler' = [handler EXCEPT ![h] = q]
      PROVE  mains' = mains /\ fresh' = fresh /\ finishing' = finishing
  BY <1>1, <1>2, WrittenKept, RolesKept
<1>3. handler[h].op = "idle"
  BY <1>1 DEF Idle
<1>4. CASE UploadPut(h, t)
  <2>1. PICK q : q = [op |-> "upload", pc |-> "resource", task |-> t]
    OBVIOUS
  <2>2. handler' = [handler EXCEPT ![h] = q] /\ q.op = "upload" /\ q.pc = "resource"
    BY <1>4, <2>1 DEF UploadPut, Begin
  <2> QED BY <1>1, <1>2, <1>3, <2>2, TokenRequest
<1>5. CASE RetryRead(h, t)
  <2>1. PICK q : q = [op |-> "retry", pc |-> "reset", task |-> t]
    OBVIOUS
  <2>2. /\ handler' = [handler EXCEPT ![h] = q]
        /\ q.op = "retry" /\ q.pc = "reset" /\ q.task = t
        /\ t \in created /\ tasks[t].status \in {"failed", "completed"}
    BY <1>5, <2>1 DEF RetryRead, Begin
  <2>3. handler'[h] = q /\ \A g \in Handler \ {h} : handler'[g] = handler[g]
    BY <2>2 DEF PipelineTypeOK, TypeOK
  <2>4. mains' = mains /\ fresh' = fresh /\ finishing' = finishing
    BY <1>2, <2>2
  <2>5. \A g \in Handler : ~(handler[g].op = "retry" /\ handler[g].task = t)
    BY DEF User, FaultFree, Orderly
  <2>6. ASSUME NEW u \in Task, u # t PROVE TaskInv(u)'
    <3>1. h \notin Dispatchers(u) /\ h \notin Dispatchers(u)' /\ h \notin Retriers(u)'
      BY <1>3, <2>2, <2>3, <2>6 DEF Dispatchers, Retriers
    <3>2. Undisturbed(u)
      BY <1>1, <2>2, <2>4, <3>1, RequestFrame
    <3> QED BY <3>2, TaskFrame DEF TokenInv
  <2>7. TaskInv(t)'
    <3>1. TaskInv(t)
      BY DEF TokenInv
    <3>2. Retriers(t)' = {h} /\ handler'[h].pc = "reset"
      BY <2>2, <2>3, <2>5 DEF Retriers
    <3>3. Dispatchers(t)' = Dispatchers(t)
      BY <1>3, <2>2, <2>3 DEF Dispatchers
    <3>4. /\ Queued(t)' = Queued(t) /\ Mains(t)' = Mains(t)
      BY <1>1, <2>4 DEF Queued, Mains
    <3>5. RequestsOK(t)'
      BY <1>1, <2>2, <3>1, <3>2, <3>3 DEF RequestsOK, TaskInv
    <3>6. RowOK(t)' /\ Exclusive(t)'
      BY <1>1, <3>1, <3>3, <3>4 DEF RowOK, Exclusive, TaskInv
    <3>7. /\ \A j \in Queued(t)' : QueueOK(t, j)'
          /\ \A p \in Mains(t)' : MainOK(t, p)'
      BY <1>1, <2>4, <3>1, <3>4 DEF TaskInv, QueueOK, MainOK
    <3> QED BY <1>1, <2>2, <3>1, <3>4, <3>5, <3>6, <3>7 DEF TaskInv
  <2> QED BY <2>6, <2>7 DEF TokenInv
<1> QED BY <1>4, <1>5 DEF User

(* A dispatch is accepted: the entitlement passes from the request to the  *)
(* queue.                                                                  *)
LEMMA TokenDispatch ==
    ASSUME PipelineTypeOK, ServingInv, CallShape, TokenInv, FaultFree,
           NEW h \in Handler, NEW accepted \in BOOLEAN, DispatchQueued(h, accepted)
    PROVE  TokenInv'
<1>0. accepted
  BY NoFaults DEF DispatchQueued
<1>1. /\ handler[h].op \in {"upload", "retry"} /\ handler[h].pc = "dispatch"
      /\ handler' = [handler EXCEPT ![h] = Idle]
      /\ UNCHANGED <<proc, call, ended, taken, created, tasks>>
  BY <1>0 DEF DispatchQueued, Dispatch, Return, Enqueue, ServingInv
<1>2. PICK t \in Task : t = handler[h].task
  BY <1>1, RequestShape DEF PipelineTypeOK, TypeOK, Idle
<1>3. /\ runs[t] \in Nat /\ runs' = [runs EXCEPT ![t] = @ + 1]
      /\ Enqueue(t, runs[t] + 1)
  BY <1>2, WorkerAssumption DEF DispatchQueued, PipelineTypeOK, NetTypeOK
<1>4. PICK job : job = [task |-> t, run |-> runs[t] + 1]
  OBVIOUS
<1>5. Put(job) /\ job.task = t /\ job.run = runs[t] + 1
  BY <1>3, <1>4 DEF Enqueue
<1>6. handler'[h] = Idle /\ \A g \in Handler \ {h} : handler'[g] = handler[g]
  BY <1>1 DEF PipelineTypeOK, TypeOK
<1>7. mains' = mains /\ fresh' = fresh /\ finishing' = finishing
  <2>1. \A p \in Proc : taken[p] # h
    BY <1>1, UserNotTaken
  <2> QED BY <1>1, <2>1, WrittenKept, RolesKept
<1>8. /\ TaskInv(t) /\ h \in Dispatchers(t) /\ Queued(t) = {} /\ Mains(t) = {}
      /\ t \in created /\ tasks[t].status = "pending" /\ \A g \in Dispatchers(t) : g = h
  <2>1. h \in Dispatchers(t)
    BY <1>1, <1>2 DEF Dispatchers
  <2> QED BY <2>1 DEF TokenInv, TaskInv, Exclusive, RequestsOK
<1>9. /\ Queued(t)' = {job} /\ queue'[job] = 1
      /\ \A u \in Task : u # t =>
            Queued(u)' = Queued(u) /\ \A j \in Queued(u) : queue'[j] = queue[j]
  BY <1>5, <1>8, QueuePut
<1>10. runs'[t] = runs[t] + 1 /\ \A u \in Task : u # t => runs'[u] = runs[u]
  BY <1>3 DEF PipelineTypeOK, NetTypeOK
<1>i. Idle.op = "idle"
  BY DEF Idle
<1>11. ASSUME NEW u \in Task, u # t PROVE TaskInv(u)'
  <2>1. Mains(u)' = Mains(u)
    BY <1>1, <1>7 DEF Mains
  <2>2. Dispatchers(u)' = Dispatchers(u)
    BY <1>2, <1>6, <1>11, <1>i DEF Dispatchers
  <2>3. Retriers(u)' = Retriers(u) /\ \A g \in Retriers(u)' : handler'[g].pc = handler[g].pc
    BY <1>2, <1>6, <1>11, <1>i DEF Retriers
  <2>4. Undisturbed(u)
    BY <1>1, <1>7, <1>9, <1>10, <1>11, <2>1, <2>2, <2>3 DEF Undisturbed
  <2> QED BY <2>4, TaskFrame DEF TokenInv
<1>12. TaskInv(t)'
  <2>1. Mains(t)' = {}
    BY <1>1, <1>7, <1>8 DEF Mains, TaskInv
  <2>2. Dispatchers(t)' = {}
    BY <1>6, <1>8, <1>i DEF Dispatchers
  <2>3. Retriers(t)' \subseteq Retriers(t) /\ \A g \in Retriers(t)' : handler'[g].pc = handler[g].pc
    BY <1>6, <1>i DEF Retriers
  <2>4. Success(t, job.run) \notin ended
    <3>1. \A n : Success(t, n).task = t /\ Success(t, n).run = n
      BY DEF Success
    <3>2. \A e \in ended : e.task = t => e.run <= runs[t]
      BY <1>8 DEF TaskInv, RowOK
    <3> QED BY <1>3, <1>5, <3>1, <3>2
  <2>5. QueueOK(t, job)'
    BY <1>1, <1>5, <1>8, <1>9, <1>10, <2>4 DEF QueueOK
  <2>6. RowOK(t)'
    <3>1. \A e \in ended' : e.task = t => e.run <= runs'[t]
      <4> SUFFICES ASSUME NEW e \in ended, e.task = t PROVE e.run <= runs[t] + 1
        BY <1>1, <1>10
      <4>1. e.run <= runs[t] /\ e.run \in Nat
        BY <1>8, WorkerAssumption DEF TaskInv, RowOK, PipelineTypeOK, WorkerTypeOK, Outcome
      <4> QED BY <1>3, <4>1
    <3> QED BY <1>1, <1>8, <3>1 DEF RowOK
  <2>7. RequestsOK(t)'
    BY <1>1, <1>8, <2>2, <2>3 DEF RequestsOK, TaskInv
  <2> QED BY <1>9, <2>1, <2>2, <2>5, <2>6, <2>7 DEF TaskInv, Exclusive, Driven
<1> QED BY <1>11, <1>12 DEF TokenInv

(* A request gives its task a fresh pending row and is about to dispatch   *)
(* it, when nobody else is concerned with the task: an upload that inserts *)
(* the row, or a retry that resets it.                                     *)
LEMMA TokenRestart ==
    ASSUME PipelineTypeOK, ServingInv, CallShape, TokenInv, NEW h \in Handler, NEW q, NEW t \in Task,
           handler[h].op \in {"upload", "retry"}, handler[h].task = t, handler[h].pc # "dispatch",
           handler' = [handler EXCEPT ![h] = q],
           q.op = handler[h].op, q.pc = "dispatch", q.task = t,
           NEW row, row.status = "pending", tasks' = [tasks EXCEPT ![t] = row],
           created' = created \cup {t},
           UNCHANGED <<queue, proc, call, ended, runs, taken>>,
           \/ t \notin created
           \/ /\ tasks[t].status \in {"completed", "failed"}
              /\ handler[h].op = "retry"
    PROVE  TokenInv'
<1>1. handler'[h] = q /\ \A g \in Handler \ {h} : handler'[g] = handler[g]
  BY DEF PipelineTypeOK, TypeOK
<1>2. tasks'[t] = row /\ \A u \in Task \ {t} : tasks'[u] = tasks[u]
  BY DEF PipelineTypeOK, TypeOK
<1>3. mains' = mains /\ fresh' = fresh /\ finishing' = finishing
  <2>1. \A p \in Proc : taken[p] # h
    BY UserNotTaken
  <2> QED BY <2>1, WrittenKept, RolesKept
<1>4. ASSUME NEW u \in Task, u # t PROVE TaskInv(u)'
  <2>1. h \notin Dispatchers(u) /\ h \notin Dispatchers(u)' /\ h \notin Retriers(u)'
    BY <1>1, <1>4 DEF Dispatchers, Retriers
  <2>2. Undisturbed(u)
    BY <1>2, <1>3, <1>4, <2>1, RequestFrame
  <2> QED BY <2>2, TaskFrame DEF TokenInv
<1>5. TaskInv(t)'
  <2>1. TaskInv(t)
    BY DEF TokenInv
  <2>2. Queued(t) = {} /\ Mains(t) = {} /\ Dispatchers(t) = {}
    BY <2>1 DEF TaskInv, QueueOK, MainOK, RequestsOK
  <2>4. Queued(t)' = {} /\ Mains(t)' = {}
    BY <1>3, <2>2 DEF Queued, Mains
  <2>5. Dispatchers(t)' = {h}
    BY <1>1, <2>2 DEF Dispatchers
  <2>6. \A g \in Retriers(t)' : g = h
    <3>1. CASE t \notin created
      BY <1>1, <2>1, <3>1 DEF Retriers, TaskInv, RequestsOK
    <3>2. CASE handler[h].op = "retry"
      BY <1>1, <2>1, <3>2 DEF Retriers, TaskInv, RequestsOK
    <3> QED BY <3>1, <3>2
  <2>7. RequestsOK(t)'
    BY <1>1, <1>2, <2>6 DEF RequestsOK
  <2>8. RowOK(t)'
    BY <1>2, <2>1 DEF TaskInv, RowOK
  <2> QED BY <2>4, <2>5, <2>7, <2>8 DEF TaskInv, Exclusive, Driven
<1> QED BY <1>4, <1>5 DEF TokenInv

(* The process whose report a handler works on.                            *)
LEMMA Reporter ==
    ASSUME PipelineTypeOK, ServingInv, CallShape, NEW h \in Handler, handler[h] \in StatusReq
    PROVE  \E p \in Proc :
              /\ taken[p] = h /\ \A q \in Proc \ {p} : taken[q] # h
              /\ proc[p] \in Waiting /\ proc[p].pc = "wait" /\ proc[p] # Free
              /\ call[p] \in StatusMsg /\ call[p].kind = "status" /\ call[p].rep = handler[h].rep
              /\ handler[h].task = proc[p].job.task /\ WaitShape(proc[p], call[p])
<1>1. handler[h].op = "status" /\ handler[h] # Idle
  BY DEF StatusReq, Idle
<1>2. PICK p \in Proc : taken[p] = h
  BY <1>1 DEF ServingInv
<1>3. Serves(handler[h], call[p]) /\ proc[p].pc = "wait" /\ \A q \in Proc \ {p} : taken[q] # h
  BY <1>1, <1>2, PipelineAssumption DEF ServingInv
<1>4. call[p] \in Message /\ call[p].task = proc[p].job.task /\ WaitShape(proc[p], call[p])
  BY <1>3 DEF PipelineTypeOK, WorkerTypeOK, CallsMatch, CallShape
<1>5. call[p].kind = "status" /\ call[p].rep = handler[h].rep /\ call[p].task = handler[h].task
  BY <1>1, <1>3 DEF Serves
<1>6. proc[p] \in Waiting /\ proc[p] # Free /\ call[p] \in StatusMsg
  BY <1>3, <1>4, <1>5, WorkerShapes DEF PipelineTypeOK, WorkerTypeOK
<1> QED BY <1>2, <1>3, <1>4, <1>5, <1>6

(* A report is written.  A running report leaves the entitlement with the  *)
(* process; a final report ends it, with a row that tells the outcome of   *)
(* the run.                                                                *)
LEMMA TokenWrite ==
    ASSUME PipelineTypeOK, ServingInv, CallShape, TokenInv, NEW h \in Handler,
           StatusWrite(h), handler[h] \in StatusReq, UNCHANGED <<workerVars, netVars>>
    PROVE  TokenInv'
<1>1. PICK p \in Proc :
              /\ taken[p] = h /\ \A q \in Proc \ {p} : taken[q] # h
              /\ proc[p] \in Waiting /\ proc[p].pc = "wait" /\ proc[p] # Free
              /\ call[p] \in StatusMsg /\ call[p].kind = "status" /\ call[p].rep = handler[h].rep
              /\ handler[h].task = proc[p].job.task /\ WaitShape(proc[p], call[p])
  BY Reporter
<1>2. PICK rep \in WorkerReport : rep = call[p].rep
  BY <1>1 DEF StatusMsg
<1>3. PICK job \in Job : job = proc[p].job
  BY <1>1 DEF Waiting
<1>4. PICK t \in Task : t = job.task
  BY DEF Job
<1>5. /\ rep \in Report /\ rep.attempt # NoAttempt
      /\ rep.status \in {"running", "completed", "failed"}
  <2>1. rep \in Report
    BY InterfaceAssumption, InputAssumption
  <2>2. rep.attempt = 1 /\ rep.status \in {"running", "completed", "failed"}
    BY DEF WorkerReport, _attempt_count
  <2> QED BY <2>1, <2>2 DEF NoAttempt
<1>6. PICK row : /\ row = applyReport(tasks[t], rep, handler[h].progress)
                 /\ row.status = rep.status /\ row.result = rep.result
                 /\ row.retry_count = rep.attempt
  <2>1. tasks[t] \in Row /\ handler[h].progress \in 0..100
    BY DEF PipelineTypeOK, TypeOK, StatusReq
  <2> QED BY <1>5, <2>1, ApplyReportTells
<1>7. tasks' = [tasks EXCEPT ![t] = row] /\ UNCHANGED created /\ Goto(h, "resource") /\ At(h, "status", "write")
  BY <1>1, <1>2, <1>3, <1>4, <1>6 DEF StatusWrite, WriteRow
<1>8. tasks'[t] = row /\ \A u \in Task \ {t} : tasks'[u] = tasks[u]
  BY <1>7 DEF PipelineTypeOK, TypeOK
<1>9. PICK r : r = [handler[h] EXCEPT !.pc = "resource"]
  OBVIOUS
<1>10. /\ r.op = "status" /\ r.pc = "resource" /\ r # Idle /\ handler[h].op = "status"
       /\ handler[h].pc = "write" /\ handler[h] # Idle
  BY <1>7, <1>9, MovedRequest DEF At, Idle
<1>11. handler'[h] = r /\ \A g \in Handler \ {h} : handler'[g] = handler[g]
  BY <1>7, <1>9 DEF Goto, PipelineTypeOK, TypeOK
<1>b. UNCHANGED <<queue, proc, call, ended, runs, taken>>
  BY DEF workerVars, netVars
<1>w. p \notin written /\ p \in written' /\ \A q \in Proc \ {p} : q \in written' <=> q \in written
  <2>1. p \notin written
    BY <1>1, <1>10 DEF written
  <2>2. p \in written'
    BY <1>1, <1>10, <1>11, <1>b, PipelineAssumption DEF written
  <2>3. \A q \in Proc \ {p} : q \in written' <=> q \in written
    <3>1. \A q \in Proc : taken[q] \in Handler \cup {None}
      BY DEF PipelineTypeOK, NetTypeOK
    <3> QED BY <1>1, <1>11, <1>b, <3>1 DEF written
  <2> QED BY <2>1, <2>2, <2>3
<1>k. \A q \in Proc \ {p} :
         /\ q \in mains' <=> q \in mains
         /\ q \in fresh' <=> q \in fresh
  <2>1. Proc \ {p} \in SUBSET Proc
    OBVIOUS
  <2> QED BY <1>b, <1>w, <2>1, ProcsKept
<1>f. finishing' = finishing
  BY <1>b DEF finishing
<1>s. \A u \in Task : Mains(u) \subseteq Proc /\ Mains(u)' \subseteq Proc
  BY DEF Mains, mains
<1>q. \A u \in Task : /\ Queued(u)' = Queued(u)
                      /\ Dispatchers(u)' = Dispatchers(u)
                      /\ Retriers(u)' = Retriers(u) /\ h \notin Retriers(u)
  BY <1>b, <1>10, <1>11 DEF Queued, Dispatchers, Retriers
<1>12. ASSUME NEW u \in Task, u # t PROVE TaskInv(u)'
  <2>1. p \notin Mains(u) /\ p \notin Mains(u)'
    BY <1>b, <1>3, <1>4, <1>12 DEF Mains
  <2>2. \A q \in Proc \ {p} : /\ q \in Mains(u)' <=> q \in Mains(u)
    BY <1>b, <1>k DEF Mains
  <2>3. Mains(u)' = Mains(u)
    BY <1>s, <2>1, <2>2
  <2>4. \A q \in Mains(u) : q \in fresh' <=> q \in fresh
    BY <1>k, <1>s, <2>1
  <2>5. \A g \in Retriers(u)' : handler'[g].pc = handler[g].pc
    BY <1>q, <1>11 DEF Retriers
  <2>6. Undisturbed(u)
    BY <1>b, <1>f, <1>q, <1>7, <1>8, <1>12, <2>3, <2>4, <2>5 DEF Undisturbed
  <2> QED BY <2>6, TaskFrame DEF TokenInv
<1>13. TaskInv(t)'
  <2>1. TaskInv(t)
    BY DEF TokenInv
  <2>2. \A q \in Proc \ {p} : /\ q \in Mains(t)' <=> q \in Mains(t)
    BY <1>b, <1>k DEF Mains
  <2>r. \A g \in Retriers(t)' : g \in Retriers(t) /\ handler'[g].pc = handler[g].pc
    BY <1>q, <1>11 DEF Retriers
  <2>3. p \in mains
    BY <1>w, <1>1, <1>2 DEF mains, Role
  <2>4. Mains(t) = {p} /\ MainOK(t, p) /\ Queued(t) = {} /\ Dispatchers(t) = {}
    BY <1>3, <1>4, <2>3, SoleWorker
  <2>5. t \in created /\ job.run = runs[t] /\ tasks[t].status \in {"pending", "running"}
    BY <1>3, <2>4 DEF MainOK
  <2>6. Queued(t)' = {} /\ Dispatchers(t)' = {}
    BY <1>q, <2>4
  <2>7. RequestsOK(t)'
    BY <1>q, <1>7, <2>1, <2>r, <2>4, <2>5 DEF TaskInv, RequestsOK
  <2>8. CASE rep.status = "running"
    <3>1. p \in mains' /\ p \notin fresh' /\ p \notin finishing
      <4>1. p \in mains'
        BY <1>b, <1>1, <1>2, <2>8 DEF mains, Role
      <4> QED BY <1>b, <1>w, <1>1, <1>2, <2>8, <4>1 DEF fresh, finishing
    <3>2. Mains(t)' = {p}
      <4>1. p \in Mains(t)'
        BY <1>b, <1>3, <1>4, <3>1 DEF Mains
      <4> QED BY <1>s, <2>2, <2>4, <4>1
    <3>3. MainOK(t, p)'
      BY <1>b, <1>f, <1>6, <1>7, <1>8, <2>4, <2>8, <3>1 DEF MainOK
    <3>4. RowOK(t)'
      BY <1>b, <1>6, <1>7, <1>8, <2>1, <2>5, <2>8 DEF TaskInv, RowOK
    <3> QED BY <2>6, <2>7, <3>2, <3>3, <3>4 DEF TaskInv, Exclusive, Driven
  <2>9. CASE rep.status # "running"
    <3>1. p \notin mains'
      BY <1>b, <1>w, <1>1, <1>2, <2>9 DEF mains, Role
    <3>2. Mains(t)' = {}
      <4>1. p \notin Mains(t)'
        BY <3>1 DEF Mains
      <4> QED BY <1>s, <2>2, <2>4, <4>1
    <3>3. rep.status = "completed" => rep.result = runs[t]
      BY <1>1, <1>2, <1>3, <2>5 DEF WaitShape
    <3>4. rep.status = "failed" => Success(t, runs[t]) \notin ended
      <4>1. rep.status = "failed" => p \notin finishing
        BY <1>2 DEF finishing
      <4>2. p \notin finishing => Success(t, runs[t]) \notin ended
        BY <1>3, <2>4, <2>5 DEF MainOK
      <4> QED BY <4>1, <4>2
    <3>5. RowOK(t)'
      BY <1>b, <1>6, <1>7, <1>8, <2>1, <2>5, <3>3, <3>4 DEF TaskInv, RowOK
    <3>6. tasks'[t].status \in {"completed", "failed"}
      BY <1>5, <1>6, <1>8, <2>9
    <3> QED BY <2>6, <2>7, <3>2, <3>5, <3>6 DEF TaskInv, Exclusive
  <2> QED BY <2>8, <2>9
<1> QED BY <1>12, <1>13 DEF TokenInv

(* The other steps of a request.                                           *)
LEMMA TokenGateway ==
    ASSUME PipelineTypeOK, SafetyInv, ServingInv, CallShape, TokenInv, FaultFree,
           NEW h \in Handler, GatewayStep(h)
    PROVE  TokenInv'
<1>a. handler[h] # Idle /\ UNCHANGED <<workerVars, netVars>>
  BY GatewayMoves
<1>b. UNCHANGED <<queue, proc, call, ended, runs, taken>>
  BY <1>a DEF workerVars, netVars
<1>t. PICK t \in Task : t = handler[h].task
  BY GatewayMoves
<1>1. CASE UploadCreateResource(h) /\ handler[h] \in UploadReq
  <2>1. PICK q : q = [handler[h] EXCEPT !.pc = "task"]
    OBVIOUS
  <2>2. q.op = "upload" /\ q.pc = "task" /\ handler[h].op = "upload" /\ handler[h].pc = "resource"
    BY <1>1, <2>1, MovedRequest DEF UploadReq, UploadCreateResource, At
  <2>3. handler' = [handler EXCEPT ![h] = q] /\ UNCHANGED <<created, tasks>>
    BY <1>1, <2>1 DEF UploadCreateResource, Goto
  <2>4. \A p \in Proc : taken[p] # h
    BY <2>2, UserNotTaken
  <2>5. mains' = mains /\ fresh' = fresh /\ finishing' = finishing
    BY <1>b, <2>3, <2>4, WrittenKept, RolesKept
  <2> QED BY <1>b, <2>2, <2>3, <2>5, TokenRequest
<1>2. CASE UploadCreateTask(h) /\ handler[h] \in UploadReq
  <2>1. PICK q : q = [handler[h] EXCEPT !.pc = "dispatch"]
    OBVIOUS
  <2>2. /\ q.op = "upload" /\ q.pc = "dispatch" /\ q.task = t
        /\ handler[h].op = "upload" /\ handler[h].pc = "task"
    BY <1>2, <1>t, <2>1, MovedRequest DEF UploadReq, UploadCreateTask, At
  <2>3. /\ handler' = [handler EXCEPT ![h] = q] /\ created' = created \cup {t}
        /\ tasks' = [tasks EXCEPT ![t] = NewRow]
    BY <1>2, <1>t, <2>1, PipelineAssumption DEF UploadCreateTask, Goto, InsertTask, WriteRow
  <2>4. NewRow.status = "pending"
    BY DEF NewRow
  <2>5. t \notin created
    BY <1>t, <2>2 DEF SafetyInv, UploadExclusive, Early
  <2> QED BY <1>b, <1>t, <2>2, <2>3, <2>4, <2>5, TokenRestart
<1>3. CASE RetryReset(h) /\ handler[h] \in RetryReq
  <2>1. PICK q : q = [handler[h] EXCEPT !.pc = "dispatch"]
    OBVIOUS
  <2>2. /\ q.op = "retry" /\ q.pc = "dispatch" /\ q.task = t
        /\ handler[h].op = "retry" /\ handler[h].pc = "reset"
    BY <1>3, <1>t, <2>1, MovedRequest DEF RetryReq, RetryReset, At
  <2>3. PICK row : row = ResetForRetry(tasks[t]) /\ row.status = "pending"
    BY OtherCoherent DEF PipelineTypeOK, TypeOK
  <2>4. /\ handler' = [handler EXCEPT ![h] = q] /\ UNCHANGED created
        /\ tasks' = [tasks EXCEPT ![t] = row]
    BY <1>3, <1>t, <2>1, <2>3, PipelineAssumption DEF RetryReset, Goto, WriteRow
  <2>5. t \in created /\ tasks[t].status \in {"completed", "failed"}
    BY <1>t, <2>2 DEF TokenInv, TaskInv, RequestsOK, Retriers
  <2>6. created' = created \cup {t}
    BY <2>4, <2>5
  <2> QED BY <1>b, <1>t, <2>2, <2>3, <2>4, <2>5, <2>6, TokenRestart
<1>4. CASE StatusWrite(h) /\ handler[h] \in StatusReq
  BY <1>a, <1>4, TokenWrite
<1>5. CASE StatusResource(h) /\ handler[h] \in StatusReq
  <2>1. PICK q : q = [handler[h] EXCEPT !.pc = "publish"]
    OBVIOUS
  <2>2. /\ q.op = "status" /\ q.pc = "publish" /\ handler[h].op = "status"
        /\ handler[h].pc = "resource"
    BY <1>5, <2>1, MovedRequest DEF StatusReq, StatusResource, At
  <2>3. handler' = [handler EXCEPT ![h] = q] /\ UNCHANGED <<created, tasks>>
    BY <1>5, <2>1 DEF StatusResource, Goto
  <2>4. Past(handler[h]) <=> Past(q)
    BY <2>2 DEF Past
  <2>5. mains' = mains /\ fresh' = fresh /\ finishing' = finishing
    BY <1>b, <2>3, <2>4, WrittenKept, RolesKept
  <2> QED BY <1>b, <2>2, <2>3, <2>5, TokenRequest
<1>6. CASE StatusPublish(h) /\ handler[h] \in StatusReq
  <2>1. /\ Idle.op = "idle" /\ handler[h].op = "status" /\ handler[h].pc = "publish"
    BY <1>6 DEF Idle, StatusPublish, At
  <2>2. handler' = [handler EXCEPT ![h] = Idle] /\ UNCHANGED <<created, tasks>>
    BY <1>6 DEF StatusPublish, Return
  <2>3. Past(handler[h]) <=> Past(Idle)
    BY <2>1 DEF Past
  <2>4. mains' = mains /\ fresh' = fresh /\ finishing' = finishing
    BY <1>b, <2>2, <2>3, WrittenKept, RolesKept
  <2> QED BY <1>b, <2>1, <2>2, <2>4, TokenRequest
<1>7. CASE ProgressWrite(h) /\ handler[h] \in ProgressReq
  <2>1. Idle.op = "idle" /\ handler[h].op = "progress"
    BY <1>7 DEF Idle, ProgressWrite, At
  <2>2. PICK row : row = UpdateProgress(tasks[t], handler[h].progress)
    OBVIOUS
  <2>3. /\ handler' = [handler EXCEPT ![h] = Idle] /\ UNCHANGED created
        /\ tasks' = [tasks EXCEPT ![t] = row]
    BY <1>7, <1>t, <2>2 DEF ProgressWrite, Return, WriteRow
  <2>4. /\ row.status = tasks[t].status /\ row.result = tasks[t].result
        /\ row.retry_count = tasks[t].retry_count
    BY <2>2 DEF UpdateProgress, Row, PipelineTypeOK, TypeOK
  <2>5. \A u \in Task : /\ tasks'[u].status = tasks[u].status
                        /\ tasks'[u].result = tasks[u].result
                        /\ tasks'[u].retry_count = tasks[u].retry_count
    BY <2>3, <2>4 DEF PipelineTypeOK, TypeOK
  <2>6. \A p \in Proc : (p \in written' <=> p \in written) \/ call[p].kind = "progress"
    <3>1. \A p \in Proc : taken[p] = h => call[p].kind = "progress"
      BY <1>a, <2>1, PipelineAssumption DEF ServingInv, Serves
    <3>2. \A p \in Proc : taken[p] \in Handler \cup {None}
      BY DEF PipelineTypeOK, NetTypeOK
    <3>3. \A g \in Handler \ {h} : handler'[g] = handler[g]
      BY <2>3 DEF PipelineTypeOK, TypeOK
    <3> QED BY <1>b, <3>1, <3>2, <3>3 DEF written
  <2>7. mains' = mains /\ fresh' = fresh /\ finishing' = finishing
    BY <1>b, <2>6, RolesKept
  <2> QED BY <1>b, <2>1, <2>3, <2>5, <2>7, TokenRequest
<1> QED BY <1>1, <1>2, <1>3, <1>4, <1>5, <1>6, <1>7, GatewayMoves

(* Every fault-free step keeps the invariant.                              *)
LEMMA ReliableStep ==
    ASSUME PipelineTypeOK, SafetyInv, ReliableInv, FaultFree, [PipelineNext]_vars
    PROVE  ReliableInv'
<1>a. ServingInv /\ CallShape /\ TokenInv
  BY DEF ReliableInv
<1>s. ASSUME UNCHANGED <<queue, proc, call, ended, runs, taken, handler, created, tasks>>
      PROVE  TokenInv'
  <2> SUFFICES ASSUME NEW u \in Task PROVE TaskInv(u)'
    BY DEF TokenInv
  <2>1. written' = written
    BY <1>s DEF written
  <2>2. mains' = mains /\ fresh' = fresh /\ finishing' = finishing
    BY <1>s, <2>1 DEF mains, fresh, finishing
  <2>3. /\ Queued(u)' = Queued(u) /\ Mains(u)' = Mains(u)
        /\ Dispatchers(u)' = Dispatchers(u) /\ Retriers(u)' = Retriers(u)
    BY <1>s, <2>2 DEF Queued, Mains, Dispatchers, Retriers
  <2>4. Undisturbed(u)
    BY <1>s, <2>2, <2>3 DEF Undisturbed
  <2> QED BY <1>a, <2>4, TaskFrame DEF TokenInv
<1>1. ASSUME NEW h \in Handler, GatewayStep(h) PROVE TokenInv'
  BY <1>a, <1>1, TokenGateway
<1>2. ASSUME NEW h \in Handler, NEW accepted \in BOOLEAN, DispatchQueued(h, accepted)
      PROVE  TokenInv'
  BY <1>a, <1>2, TokenDispatch
<1>3. ASSUME NEW h \in Handler, NEW t \in Task, User(h, t) PROVE TokenInv'
  BY <1>a, <1>3, TokenUser
<1>4. ASSUME NEW h \in Handler, NEW p \in Proc, Deliver(h, p) PROVE TokenInv'
  BY <1>a, <1>4, TokenDeliver
<1>5. ASSUME NEW p \in Proc, Take(p) PROVE TokenInv'
  BY <1>a, <1>5, TokenTake
<1>6. ASSUME NEW p \in Proc, Worker(p) PROVE TokenInv'
  BY <1>a, <1>6, TokenWorker
<1>7. ASSUME NEW p \in Proc, Answer(p) PROVE TokenInv'
  BY <1>a, <1>7, TokenAnswer
<1>8. ASSUME NEW t \in Task, Cooldown(t) PROVE TokenInv'
  BY <1>s, <1>8 DEF Cooldown, CooldownElapses, workerVars, netVars
<1>9. ASSUME UNCHANGED vars PROVE TokenInv'
  <2>1. UNCHANGED <<queue, proc, call, ended, runs, taken, handler, created, tasks>>
    BY <1>9 DEF vars, gatewayVars, workerVars, netVars
  <2> QED BY <1>s, <2>1
<1>10. ASSUME PipelineNext PROVE TokenInv'
  <2>1. CASE \E h \in Handler :
                \/ GatewayStep(h)
                \/ \E accepted \in BOOLEAN : DispatchQueued(h, accepted)
                \/ \E t \in Task : User(h, t)
                \/ \E p \in Proc : Deliver(h, p)
    BY <1>1, <1>2, <1>3, <1>4, <2>1
  <2>2. CASE \E p \in Proc : Take(p) \/ Worker(p) \/ Answer(p)
    BY <1>5, <1>6, <1>7, <2>2
  <2>3. CASE \E t \in Task : Cooldown(t)
    BY <1>8, <2>3
  <2> QED BY <1>a, <1>10, <2>1, <2>2, <2>3, NoFaults DEF PipelineNext
<1>11. TokenInv'
  BY <1>9, <1>10
<1> QED BY <1>a, <1>11, ServingStep, ShapeStep DEF ReliableInv

LEMMA ReliableInit == PipelineInit => ReliableInv
<1> SUFFICES ASSUME PipelineInit PROVE ReliableInv
  OBVIOUS
<1>1. /\ \A p \in Proc : proc[p] = Free /\ call[p] = NoCall /\ taken[p] = None
      /\ \A h \in Handler : handler[h] = Idle
      /\ created = {} /\ ended = {} /\ \A t \in Task : runs[t] = 0 /\ tasks[t].status = "pending"
      /\ queue = EmptyBag /\ late = EmptyBag
  BY DEF PipelineInit, Init, WorkerInit, NewRow
<1>2. Free.pc = "free" /\ Idle.op = "idle"
  BY DEF Free, Idle
<1>3. ServingInv
  <2>1. BagToSet(late) = {}
    BY <1>1, BagFacts
  <2>2. \A h \in Handler : handler[h].op = "idle"
    BY <1>1, <1>2
  <2> QED BY <1>1, <2>1, <2>2 DEF ServingInv
<1>4. CallShape
  <2>1. \A p \in Proc : proc[p].pc = "free"
    BY <1>1, <1>2
  <2> QED BY <2>1 DEF CallShape
<1>5. TokenInv
  <2> SUFFICES ASSUME NEW t \in Task PROVE TaskInv(t)
    BY DEF TokenInv
  <2>1. Queued(t) = {}
    BY <1>1, BagFacts DEF Queued
  <2>2. Mains(t) = {}
    BY <1>1 DEF Mains, mains, Role
  <2>3. Dispatchers(t) = {} /\ Retriers(t) = {}
    BY <1>1, <1>2 DEF Dispatchers, Retriers
  <2> QED BY <1>1, <2>1, <2>2, <2>3 DEF TaskInv, RowOK, RequestsOK, Exclusive
<1> QED BY <1>3, <1>4, <1>5 DEF ReliableInv

(* The faults are counted.                                                 *)
LEMMA FaultsCounted ==
    ASSUME [PipelineNext]_vars
    PROVE  /\ faults' = faults \/ faults' = faults + 1
           /\ NetFaults = {} => faults' = faults
<1>1. ASSUME NEW h \in Handler,
             \/ GatewayStep(h) \/ DeliverLate(h) \/ \E t \in Task : User(h, t)
             \/ \E p \in Proc : Deliver(h, p)
      PROVE  faults' = faults
  BY <1>1 DEF GatewayStep, DeliverLate, User, Deliver, netVars
<1>2. ASSUME NEW kind, Fault(kind)
      PROVE  faults' = faults + 1 /\ NetFaults # {}
  BY <1>2 DEF Fault
<1>3. ASSUME NEW h \in Handler, NEW accepted \in BOOLEAN, DispatchQueued(h, accepted)
      PROVE  faults' = faults \/ (faults' = faults + 1 /\ NetFaults # {})
  BY <1>2, <1>3 DEF DispatchQueued
<1>4. ASSUME NEW h \in Handler, DispatchRefused(h)
      PROVE  faults' = faults + 1 /\ NetFaults # {}
  BY <1>2, <1>4 DEF DispatchRefused
<1>5. ASSUME NEW p \in Proc, Take(p) \/ Worker(p) \/ Answer(p)
      PROVE  faults' = faults
  BY <1>5 DEF Take, Worker, Answer, netVars
<1>6. ASSUME NEW p \in Proc, TimeOut(p) \/ Lose(p) \/ Lost(p) \/ Killed(p)
      PROVE  faults' = faults + 1 /\ NetFaults # {}
  BY <1>2, <1>6 DEF TimeOut, Lose, Lost, Killed
<1>7. ASSUME NEW t \in Task, Cooldown(t)
      PROVE  faults' = faults
  BY <1>7 DEF Cooldown, netVars
<1>8. CASE UNCHANGED vars
  BY <1>8 DEF vars, netVars
<1> QED BY <1>1, <1>3, <1>4, <1>5, <1>6, <1>7, <1>8 DEF PipelineNext

LEMMA OrderlyInvariant ==
    ASSUME Orderly
    PROVE  PipelineSpec => [](PipelineTypeOK /\ SafetyInv /\ (faults = 0 => ReliableInv))
<1>1. ASSUME PipelineTypeOK, SafetyInv, faults = 0 => ReliableInv, [PipelineNext]_vars
      PROVE  (faults = 0 => ReliableInv)'
  <2>1. SUFFICES ASSUME faults' = 0 PROVE ReliableInv'
    OBVIOUS
  <2>2. faults \in Nat
    BY <1>1 DEF PipelineTypeOK, NetTypeOK
  <2>3. faults = 0
    BY <1>1, <2>1, <2>2, FaultsCounted
  <2>4. FaultFree
    BY <2>1, <2>2 DEF FaultFree
  <2> QED BY <1>1, <2>3, <2>4, ReliableStep
<1>2. PipelineSpec => [](TypeOK /\ SafetyInv)
  BY PipelineImplementsGateway, GatewayInvariant, PTL
<1> QED BY <1>1, <1>2, ReliableInit, PipelineTypeCorrect, PTL DEF PipelineSpec

(* A network that has no faults to make.                                   *)
LEMMA ReliableInvariant ==
    ASSUME Orderly, NetFaults = {}
    PROVE  PipelineSpec => [](PipelineTypeOK /\ SafetyInv /\ ReliableInv /\ faults = 0)
<1>1. PipelineInit => faults = 0
  BY DEF PipelineInit
<1>2. faults = 0 /\ [PipelineNext]_vars => (faults = 0)'
  BY FaultsCounted
<1> QED BY <1>1, <1>2, OrderlyInvariant, PTL DEF PipelineSpec

-----------------------------------------------------------------------------
(* THE THEOREMS                                                            *)

(* A process at work is entitled to it.                                    *)
LEMMA WorkingIsMain ==
    ASSUME PipelineTypeOK, NEW p \in Proc, Working(p)
    PROVE  p \in mains /\ proc[p].job.task \in Task
<1>1. proc[p] \in Process /\ proc[p].pc \in {"work", "worked"}
  BY DEF PipelineTypeOK, WorkerTypeOK, Working
<1>2. proc[p] \in Executing
  BY <1>1, WorkerShapes
<1>3. proc[p] \in Executing \cup {Free}
  BY <1>2
<1>4. p \in mains
  BY <1>1, <1>3, ExecutingRole
<1>5. proc[p].job.task \in Task
  BY <1>2 DEF Executing, Job
<1> QED BY <1>4, <1>5

(* When nothing is queued, running or in flight, nobody drives a task.     *)
LEMMA QuietUndriven ==
    ASSUME Quiet, NEW t \in Task
    PROVE  ~Driven(t)
<1>1. Free.pc = "free" /\ Idle.op = "idle"
  BY DEF Free, Idle
<1>2. Queued(t) = {}
  BY BagFacts DEF Quiet, Queued
<1>3. Mains(t) = {}
  BY DEF Quiet, Mains, mains, Role
<1>4. Dispatchers(t) = {}
  BY <1>1 DEF Quiet, Dispatchers
<1> QED BY <1>2, <1>3, <1>4 DEF Driven

(* As long as the network delivers, workers survive and a user waits for a *)
(* retry to be answered, no dispatched task is left behind: once nothing   *)
(* is queued, running or in flight, the row is terminal and says completed *)
(* exactly when the last run succeeded, whatever happened in the bodies of *)
(* its runs and however the requests interleaved.                          *)
THEOREM TasksNotLeftBehind ==
    ASSUME Orderly
    PROVE  PipelineSpec => []NoTaskLeftBehind
<1>1. ASSUME PipelineTypeOK, faults = 0 => ReliableInv, ResultWasProduced PROVE NoTaskLeftBehind
  <2> SUFFICES ASSUME faults = 0, Quiet, NEW t \in Task, runs[t] > 0
               PROVE  /\ tasks[t].status \in {"completed", "failed"}
                      /\ tasks[t].status = "completed" <=> Success(t, runs[t]) \in ended
    BY DEF NoTaskLeftBehind, Success
  <2>1. TaskInv(t) /\ RowOK(t)
    BY <1>1 DEF ReliableInv, TokenInv, TaskInv
  <2>2. t \in created
    BY <2>1 DEF RowOK
  <2>3. tasks[t].status \notin {"pending", "running"}
    BY <2>1, <2>2, QuietUndriven DEF TaskInv
  <2>4. tasks[t].status \in {"completed", "failed"}
    BY <1>1, <2>3 DEF PipelineTypeOK, TypeOK, Row, Status
  <2>5. tasks[t].status = "completed" => Success(t, runs[t]) \in ended
    BY <1>1, <2>1 DEF RowOK, ResultWasProduced, Success
  <2>6. tasks[t].status = "failed" => Success(t, runs[t]) \notin ended
    BY <2>1 DEF RowOK
  <2> QED BY <2>4, <2>5, <2>6
<1> QED BY <1>1, OrderlyInvariant, ResultsProduced, PTL

(* Although a report carries no run identity, a completed row holds the    *)
(* result of the latest run, and no two processes work on one task, until  *)
(* the first fault.                                                        *)
THEOREM ResultsCurrent ==
    ASSUME Orderly
    PROVE  PipelineSpec => []ResultIsCurrent
<1>1. ASSUME PipelineTypeOK, faults = 0 => ReliableInv PROVE ResultIsCurrent
  <2> SUFFICES ASSUME faults = 0
               PROVE  /\ \A t \in Task : tasks[t].status = "completed" => tasks[t].result = runs[t]
                      /\ \A p, q \in Proc :
                            (Working(p) /\ Working(q) /\ proc[p].job.task = proc[q].job.task) => p = q
    BY DEF ResultIsCurrent
  <2>1. ASSUME NEW t \in Task, tasks[t].status = "completed" PROVE tasks[t].result = runs[t]
    BY <1>1, <2>1 DEF ReliableInv, TokenInv, TaskInv, RowOK
  <2>2. ASSUME NEW p \in Proc, NEW q \in Proc, Working(p), Working(q),
               proc[p].job.task = proc[q].job.task
        PROVE  p = q
    <3>1. PICK t \in Task : t = proc[p].job.task
      BY <1>1, <2>2, WorkingIsMain
    <3>2. p \in Mains(t) /\ q \in Mains(t)
      BY <1>1, <2>2, <3>1, WorkingIsMain DEF Mains
    <3>3. Exclusive(t)
      BY <1>1 DEF ReliableInv, TokenInv, TaskInv
    <3> QED BY <3>2, <3>3 DEF Exclusive
  <2> QED BY <2>1, <2>2
<1> QED BY <1>1, OrderlyInvariant, PTL

(* Every write of the composed system is one that the documented status    *)
(* machine allows at that moment: what a handler has read is still true    *)
(* when it writes.                                                         *)
LEMMA StatusStep ==
    ASSUME FaultFree, PipelineTypeOK, SafetyInv, ReliableInv, [PipelineNext]_vars
    PROVE  [Abstract!Next]_statusOf
<1>a. ServingInv /\ CallShape /\ TokenInv /\ TypeOK
  BY DEF ReliableInv, PipelineTypeOK
<1>s. ASSUME UNCHANGED <<created, tasks>> PROVE [Abstract!Next]_statusOf
  BY <1>s, Stutter
<1>1. ASSUME NEW h \in Handler, GatewayStep(h) PROVE [Abstract!Next]_statusOf
  <2>m. \/ UploadCreateResource(h) /\ handler[h] \in UploadReq
        \/ UploadCreateTask(h) /\ handler[h] \in UploadReq
        \/ RetryReset(h) /\ handler[h] \in RetryReq
        \/ StatusWrite(h) /\ handler[h] \in StatusReq
        \/ StatusResource(h) /\ handler[h] \in StatusReq
        \/ StatusPublish(h) /\ handler[h] \in StatusReq
        \/ ProgressWrite(h) /\ handler[h] \in ProgressReq
    BY <1>a, <1>1, GatewayMoves
  <2>t. PICK t \in Task : t = handler[h].task
    BY <1>a, <1>1, GatewayMoves
  <2>1. CASE UploadCreateResource(h) \/ StatusResource(h) \/ StatusPublish(h)
    BY <1>s, <2>1 DEF UploadCreateResource, StatusResource, StatusPublish
  <2>2. CASE UploadCreateTask(h)
    <3>1. t \notin created
      BY <2>2, <2>t DEF UploadCreateTask, At, SafetyInv, UploadExclusive, Early
    <3>2. Abstract!Appear(t)
      BY <1>a, <2>2, <2>t, <3>1, InsertMaps DEF UploadCreateTask
    <3> QED BY <3>2, Zenon DEF Abstract!Next
  <2>3. CASE RetryReset(h)
    <3>1. t \in created /\ tasks[t].status \in {"completed", "failed"}
      <4>1. h \in Retriers(t) /\ handler[h].pc = "reset"
        BY <2>3, <2>t DEF RetryReset, At, Retriers
      <4> QED BY <1>a, <4>1 DEF TokenInv, TaskInv, RequestsOK
    <3>2. PICK row \in Row : row = ResetForRetry(tasks[t]) /\ row.status = "pending"
      BY <1>a, OtherRowTypes, OtherCoherent DEF TypeOK
    <3>3. tasks' = [tasks EXCEPT ![t] = row] /\ UNCHANGED created
      BY <2>3, <2>t, <3>2 DEF RetryReset, WriteRow
    <3>4. statusOf' = [statusOf EXCEPT ![t] = row.status] /\ statusOf[t] = tasks[t].status
      BY <1>a, <3>1, <3>3, WriteMaps
    <3>5. Abstract!Retry(t)
      BY <3>1, <3>2, <3>4 DEF Abstract!Retry, statusOf
    <3> QED BY <3>5, Zenon DEF Abstract!Next
  <2>4. CASE StatusWrite(h) /\ handler[h] \in StatusReq
    <3>1. PICK p \in Proc :
              /\ taken[p] = h
              /\ proc[p].pc = "wait" /\ proc[p] # Free
              /\ call[p] \in StatusMsg /\ call[p].kind = "status" /\ call[p].rep = handler[h].rep
              /\ handler[h].task = proc[p].job.task
      BY <1>a, <2>4, Reporter
    <3>2. p \notin written
      <4>1. handler[h].pc = "write" /\ handler[h] # Idle
        BY <2>4 DEF StatusWrite, At, Idle
      <4> QED BY <3>1, <4>1 DEF written
    <3>3. call[p].task = t
      BY <1>a, <2>t, <3>1 DEF PipelineTypeOK, WorkerTypeOK, CallsMatch
    <3>4. PICK rep \in Report : rep = handler[h].rep
      BY <2>4 DEF StatusReq
    <3>5. t \in created /\ canTransition(tasks[t].status, rep.status)
      BY <1>a, <3>1, <3>2, <3>3, <3>4, ReportAccepted
    <3>6. PICK row \in Row : row = applyReport(tasks[t], rep, handler[h].progress) /\ row.status = rep.status
      <4>1. tasks[t] \in Row /\ handler[h].progress \in 0..100
        BY <1>a, <2>4 DEF TypeOK, StatusReq
      <4>2. applyReport(tasks[t], rep, handler[h].progress) \in Row
        BY <4>1, ApplyReportType
      <4>3. applyReport(tasks[t], rep, handler[h].progress).status = rep.status
        BY <4>1, ApplyReportTells
      <4> QED BY <4>2, <4>3
    <3>7. tasks' = [tasks EXCEPT ![t] = row] /\ UNCHANGED created
      BY <2>4, <2>t, <3>4, <3>6 DEF StatusWrite, WriteRow
    <3>8. statusOf' = [statusOf EXCEPT ![t] = rep.status] /\ statusOf[t] = tasks[t].status
      <4>1. statusOf' = [statusOf EXCEPT ![t] = row.status] /\ statusOf[t] = tasks[t].status
        BY <1>a, <3>5, <3>7, WriteMaps
      <4> QED BY <3>6, <4>1
    <3>9. Abstract!Start(t) \/ Abstract!Finish(t)
      <4>1. CASE rep.status = "running"
        BY <3>5, <3>8, <4>1 DEF Abstract!Start, statusOf, canTransition
      <4>2. CASE rep.status # "running"
        <5>1. rep.status \in {"completed", "failed"} /\ tasks[t].status = "running"
          BY <3>5, <4>2 DEF canTransition
        <5> QED BY <3>8, <5>1 DEF Abstract!Finish, statusOf
      <4> QED BY <4>1, <4>2
    <3> QED BY <3>9, Zenon DEF Abstract!Next
  <2>5. CASE ProgressWrite(h) /\ handler[h] \in ProgressReq
    <3>1. \A u \in Task : tasks'[u].status = tasks[u].status
      BY <1>a, <2>5, <2>t DEF ProgressWrite, WriteRow, UpdateProgress, TypeOK, Row
    <3>2. statusOf' = statusOf
      BY <2>5, <3>1 DEF statusOf, ProgressWrite
    <3> QED BY <3>2
  <2> QED BY <2>m, <2>1, <2>2, <2>3, <2>4, <2>5
<1>2. ASSUME NEW h \in Handler, NEW accepted \in BOOLEAN, DispatchQueued(h, accepted)
      PROVE  UNCHANGED <<created, tasks>>
  BY <1>2 DEF DispatchQueued, Dispatch
<1>3. ASSUME NEW h \in Handler, NEW t \in Task, User(h, t)
      PROVE  UNCHANGED <<created, tasks>>
  BY <1>3 DEF User, UploadPut, RetryRead
<1>4. ASSUME NEW h \in Handler, NEW p \in Proc, Deliver(h, p)
      PROVE  UNCHANGED <<created, tasks>>
  BY <1>4 DEF Deliver, Handle, StatusRead, StatusReject, ProgressRead, ProgressReject, gatewayVars
<1>5. ASSUME NEW p \in Proc, Take(p) \/ Worker(p) \/ Answer(p)
      PROVE  UNCHANGED <<created, tasks>>
  BY <1>5 DEF Take, Worker, Answer, gatewayVars
<1>6. ASSUME NEW t \in Task, Cooldown(t)
      PROVE  UNCHANGED <<created, tasks>>
  BY <1>6 DEF Cooldown, CooldownElapses
<1>7. CASE UNCHANGED vars
  BY <1>s, <1>7 DEF vars, gatewayVars
<1>8. CASE PipelineNext
  BY <1>a, <1>s, <1>1, <1>2, <1>3, <1>4, <1>5, <1>6, <1>8, NoFaults DEF PipelineNext
<1> QED BY <1>7, <1>8

(* With any number of concurrent requests and workers the gateway          *)
(* implements the documented status machine, although it neither locks a   *)
(* row nor compares before it writes: the exclusivity of the workers'      *)
(* reports does what the database is not asked to do.                      *)
THEOREM ReliablePipelineImplementsTaskStatus ==
    ASSUME Orderly, NetFaults = {}
    PROVE  PipelineSpec => AbstractSpec
<1>1. PipelineInit => Abstract!Init
  BY DEF PipelineInit, Init, Abstract!Init
<1>2. PipelineTypeOK /\ SafetyInv /\ ReliableInv /\ faults = 0 /\ [PipelineNext]_vars
         => [Abstract!Next]_statusOf
  BY StatusStep, FaultsCounted DEF FaultFree
<1>3. AbstractSpec <=> Abstract!Init /\ [][Abstract!Next]_statusOf
  BY DEF AbstractSpec, Abstract!Spec, statusOf
<1> QED BY <1>1, <1>2, <1>3, ReliableInvariant, PTL DEF PipelineSpec

(* A completed task never goes back to running without a manual retry in   *)
(* between, as the gateway's test of canTransition demands.  With two      *)
(* overlapping retries it does.                                            *)
THEOREM CompletedStaysCompleted ==
    ASSUME Orderly, NetFaults = {}
    PROVE  PipelineSpec => CompletedNotReopened
<1>1. ASSUME PipelineTypeOK, SafetyInv, ReliableInv, faults = 0, [PipelineNext]_vars
      PROVE  [\A t \in Task : tasks[t].status = "completed" => tasks'[t].status # "running"]_tasks
  <2> SUFFICES ASSUME NEW t \in Task, tasks[t].status = "completed", tasks'[t].status = "running"
               PROVE  FALSE
    OBVIOUS
  <2>0. FaultFree
    BY <1>1, FaultsCounted DEF FaultFree
  <2>1. [Abstract!Next]_statusOf
    BY <1>1, <2>0, StatusStep
  <2>2. t \in created
    BY <1>1 DEF ReliableInv, TokenInv, TaskInv, RowOK
  <2>3. t \in created'
    <3>1. ReliableInv'
      BY <1>1, <2>0, ReliableStep
    <3> QED BY <3>1 DEF ReliableInv, TokenInv, TaskInv, RowOK
  <2>4. statusOf[t] = "completed" /\ statusOf'[t] = "running"
    BY <2>2, <2>3 DEF statusOf
  <2>5. PICK u \in Task : \/ Abstract!Appear(u) \/ Abstract!Start(u) \/ Abstract!Finish(u)
                          \/ Abstract!DispatchFails(u) \/ Abstract!Retry(u)
    BY <2>1, <2>4 DEF Abstract!Next
  <2> QED BY <2>4, <2>5
          DEF Abstract!Appear, Abstract!Start, Abstract!Finish, Abstract!DispatchFails, Abstract!Retry, statusOf
<1> QED BY <1>1, ReliableInvariant, PTL DEF PipelineSpec, CompletedNotReopened
=============================================================================
