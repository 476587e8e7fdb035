-------------------------------- MODULE Chat --------------------------------
(***************************************************************************)
(* One conversation from end to end: the chat page, its requests in the    *)
(* gateway and the AI service's event streams.                             *)
(***************************************************************************)
EXTENDS ChatClient

CONSTANT MaxFaults   \* bound: faults and deletions in a behaviour

ASSUME FaultsAssumption == MaxFaults \in Nat

VARIABLE faults      \* faults so far

chatVars == <<qaVars, clientVars, faults>>

Init == QAInit /\ ClientInit /\ faults = 0

Gateway(a) == RequestStep(a) /\ UNCHANGED <<clientVars, faults>>
AiService(a) == AiStep(a) /\ UNCHANGED <<clientVars, faults>>
Client == ClientStep /\ UNCHANGED faults
Fault ==
    /\ faults < MaxFaults /\ faults' = faults + 1
    /\ \/ (\E a \in Ask : RequestFault(a)) /\ UNCHANGED clientVars
       \/ DeleteConversation /\ UNCHANGED clientVars
       \/ ClientFault

Next ==
    \/ \E a \in Ask : Gateway(a) \/ AiService(a)
    \/ Client
    \/ User /\ UNCHANGED faults
    \/ Fault

Spec == Init /\ [][Next]_chatVars

(* Goroutines are scheduled, an event stream comes to its end (StreamQA    *)
(* has a timeout), the client's event loop runs.  Nothing is assumed of    *)
(* the user and of faults.                                                 *)
Fairness ==
    /\ \A a \in Ask : WF_chatVars(Gateway(a)) /\ WF_chatVars(AiService(a))
    /\ WF_chatVars(Client)

FairSpec == Spec /\ Fairness

-----------------------------------------------------------------------------
(* Properties *)

(* The rows, requests, channels and the page stay well-typed, and the SSE  *)
(* client never makes more than _maxReconnectAttempts reconnections.       *)
TypeOK == QATypeOK /\ ClientTypeOK /\ faults \in 0..MaxFaults

RowsOf(role, a) == {i \in 1..Len(rows) : rows[i].role = role /\ rows[i].ask = a}

(* However a request ends (done, error, timeout, closed channel, a client  *)
(* that left), what stream has collected is in the messages table, unless  *)
(* the insert failed or the conversation was deleted.                      *)
AnswerSaved ==
    \A a \in Ask :
        pump[a] = "over" /\ answer[a] # <<>> /\ ~deleted /\ a \notin unsaved =>
            \E i \in RowsOf("assistant", a) : rows[i].parts = answer[a]

(* A request leaves at most one question and one answer, the answer after  *)
(* its question, whatever requests run at the same time.                   *)
AnswerFollowsQuestion ==
    \A a \in Ask :
        /\ Cardinality(RowsOf("user", a)) <= 1
        /\ Cardinality(RowsOf("assistant", a)) <= 1
        /\ \A i \in RowsOf("assistant", a) : \E j \in RowsOf("user", a) : j < i

IsPrefix(s, t) == Len(s) <= Len(t) /\ \A i \in 1..Len(s) : s[i] = t[i]

(* The page never shows of an answer what the gateway will not save: what  *)
(* it shows is a beginning of what stream has collected (a question sent   *)
(* while the page still loads is excepted: the list may bring the answer   *)
(* whose events are still coming), and what stream has collected has a gap *)
(* only if flushEvent met a full channel.                                  *)
ShownIsCollected ==
    /\ ~hasty => \A i \in 1..Len(shown) : \A a \in Ask :
          IsPrefix(shown[i].parts[a], answer[a])
    /\ \A a \in Ask \ dropped : answer[a] = [i \in 1..Len(answer[a]) |-> i]

(* When the client has closed its connection, the handler and both         *)
(* goroutines of the request come to an end.                               *)
GoroutinesReleased ==
    \A a \in Ask :
        a \in gone ~> /\ handler[a] = "returned"
                      /\ pump[a] \in {"none", "over"}
                      /\ reader[a] \in {"none", "over"}

(* The input bar is enabled again, unless the SSE client has used up its   *)
(* attempts and polls.                                                     *)
InputReturns == isSending ~> (~isSending \/ ctl.phase = "polling")

(* TEST_S3-7: after cancelling, the message is no longer updated.  A shown *)
(* message that is not streaming keeps its content while it is shown.      *)
(* Violated with two turns; see README.                                    *)
StoppedNotUpdated ==
    [][\A i \in 1..Len(shown) :
         /\ shown[i].role = "assistant" /\ ~shown[i].streaming
         /\ load' = load /\ i <= Len(shown')
         => shown'[i].parts = shown[i].parts]_chatVars

(* PRD_S5-6 AC-5: a retry does not write again what was written.  A        *)
(* question the user sends once is stored once.  Violated with one         *)
(* reconnection and one fault; see README.                                 *)
QuestionStoredOnce ==
    \A s \in 1..MaxTurns :
        Cardinality({i \in 1..Len(rows) :
                       rows[i].role = "user" /\ origin[rows[i].ask] = s}) <= 1
=============================================================================
