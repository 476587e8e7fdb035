--------------------------- MODULE AnswerService ---------------------------
(***************************************************************************)
(* Both ways of answering together: requests of one conversation, each of  *)
(* its own kind, run concurrently; clients may leave.                      *)
(***************************************************************************)
EXTENDS AgentRun, QaService

Next ==
    \/ \E r \in Req : AgentStep(r) \/ QaStep(r) \/ ClientLeaves(r)
    \/ WindowPasses

Spec == AnsweringInit /\ [][Next]_answerVars

(* Every thread goes on: the model, the store and the web search answer or *)
(* time out.  A model that streams without end is excluded by MaxChunks.   *)
FairSpec == Spec /\ \A r \in Req : WF_answerVars(AgentStep(r) \/ QaStep(r))

-----------------------------------------------------------------------------
(* Properties *)

(* The positions of some types of event in a response.                     *)
At(events, types) == {i \in DOMAIN events : events[i].type \in types}

(* Nothing follows done or error.                                          *)
OneEnd(events) == \A i \in At(events, {"done", "error"}) : i = Len(events)

(* Nodes do not overlap, and a node that ends is the one that began.       *)
NodesNest(events) ==
    \A i \in At(events, {"node_end"}) :
       \E j \in At(events, {"node_start"}) :
          /\ j < i /\ events[j].node = events[i].node
          /\ \A k \in (j + 1)..(i - 1) : events[k].type \in {"chunk", "reasoning"}

(* Text and reasoning are numbered 0, 1, 2 without a gap or a repetition.  *)
Numbered(events) ==
    \A t \in {"chunk", "reasoning"} : \A i \in At(events, {t}) :
       events[i].index = Cardinality({j \in At(events, {t}) : j < i})

(* Citations come after the text, numbered upwards, and done counts them.  *)
CitationsOrdered(events) ==
    /\ \A i \in At(events, {"citation"}) :
          /\ \A j \in At(events, {"chunk", "reasoning"}) : j < i
          /\ \A j \in At(events, {"citation"}) :
                j < i => events[j].cite.index < events[i].cite.index
    /\ \A i \in At(events, {"done"}) : events[i].count = Count("citation", events)

(* What the client may rely on in a response, whatever fails (runner.py    *)
(* and qa_service.py yield its events from a dozen places, error paths and *)
(* fallbacks included): one end, nodes that nest, text and reasoning       *)
(* numbered as they come, citations after them in their order.             *)
WellFormed(events) ==
    OneEnd(events) /\ NodesNest(events) /\ Numbered(events) /\ CitationsOrdered(events)

(* Every response of the AI service is well-formed at every moment         *)
(* (WellFormed above), with all the interleavings, failures and departures.*)
StreamWellFormed == \A r \in Req : WellFormed(log[r])

(* Every citation sent points at a chunk the prompt of this very answer    *)
(* contained, of a resource the user asked about, and the answer the       *)
(* client was sent carries its marker (the agent retrieves, generates and  *)
(* cites in three nodes with the state between them).                      *)
CitationsGrounded ==
    \A r \in Req : \A i \in At(log[r], {"citation"}) :
        LET c == log[r][i].cite
        IN  /\ c.original \in DOMAIN chunks[r]
            /\ chunks[r][c.original] = c.resource /\ c.resource \in req[r].resources
            /\ \E j \in At(log[r], {"chunk"}) : log[r][j].piece = c.original

(* A text is what a response streamed: its i-th piece is the chunk event   *)
(* numbered i - 1.                                                         *)
IsStreamed(text, events) ==
    /\ Len(text) = Count("chunk", events)
    /\ \A i \in DOMAIN text : \E j \in At(events, {"chunk"}) :
          events[j].index = i - 1 /\ events[j].piece = text[i]

(* A remembered turn is one the client saw finished, or is about to: no    *)
(* turn of a failed answer is kept, and its text is the text that was      *)
(* streamed, or the fallback message where nothing was.                    *)
RememberedWasShown ==
    \A m \in memory :
        /\ At(log[m.run], {"error"}) = {}
        /\ IsStreamed(m.text, log[m.run])
              \/ (m.text = <<0>> /\ Count("chunk", log[m.run]) = 0)

(* A question asked after the agent's done finds the turn before it in the *)
(* long-term memory, unless the memory failed one of the two: the agent    *)
(* saves before it says done.                                              *)
NextTurnRemembers ==
    \A r, s \in Req :
        (/\ s \in before[r] /\ IsAgent(s) /\ {r, s} \cap trouble = {}
         /\ pc[r] \notin {"idle", "memory"})
        => \E m \in context[r] : m.run = s

(* The contract of the stream the gateway reads, and that every response   *)
(* the client stays for ends.                                              *)
Contract == INSTANCE AnswerStream WITH
    Response <- Req,
    parts <- [r \in Req |-> Len(log[r]) - Count("done", log[r]) - Count("error", log[r])],
    stage <- [r \in Req |-> IF Ended(r) THEN "ended"
                            ELSE IF pc[r] = "left" THEN "closed" ELSE "open"]

StreamContract == Contract!StreamSpec

=============================================================================
