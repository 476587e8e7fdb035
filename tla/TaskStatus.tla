----------------------------- MODULE TaskStatus -----------------------------
(***************************************************************************)
(* What the gateway promises about the status of a task, seen from outside *)
(* (abstract specification): the machine that canTransition, the manual    *)
(* retry and the dispatch failure of an upload are meant to implement.     *)
(***************************************************************************)
CONSTANT Task

VARIABLE status     \* status[t]; "none" before the row exists

Init == status = [t \in Task |-> "none"]

(* The row is inserted.                                                    *)
Appear(t) == /\ status[t] = "none"
             /\ status' = [status EXCEPT ![t] = "pending"]

(* A worker starts or restarts the task; a failed task may be picked up    *)
(* again by a redelivered message.                                         *)
Start(t) == /\ status[t] \in {"pending", "running", "failed"}
            /\ status' = [status EXCEPT ![t] = "running"]

Finish(t) == /\ status[t] = "running"
             /\ \E s \in {"completed", "failed"} :
                    status' = [status EXCEPT ![t] = s]

(* The upload could not hand the task to the AI service.                   *)
DispatchFails(t) == /\ status[t] = "pending"
                    /\ status' = [status EXCEPT ![t] = "failed"]

(* Only a finished task is put back to pending, by its owner.              *)
Retry(t) == /\ status[t] \in {"completed", "failed"}
            /\ status' = [status EXCEPT ![t] = "pending"]

Next == \E t \in Task : \/ Appear(t)
                        \/ Start(t)
                        \/ Finish(t)
                        \/ DispatchFails(t)
                        \/ Retry(t)

Spec == Init /\ [][Next]_status
=============================================================================
