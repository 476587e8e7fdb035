------------------------------ MODULE AgentRun ------------------------------
(***************************************************************************)
(* The agent workflow, POST /agent/run: AgentRunner.run_stream and the     *)
(* nodes it drives.  The thread of a request is                            *)
(*                                                                         *)
(*   idle -> memory -> intent -> [retrieve] -> generate -> [search ->      *)
(*   acquired] -> stream -> drafted -> cite -> remember -> done -> over    *)
(*                                                                         *)
(* The LangGraph graph that graph.py compiles from the same nodes is never *)
(* invoked: the runner calls the nodes itself.                             *)
(***************************************************************************)
EXTENDS Answering

IsAgent(r) == req[r].kind = "agent"

(* state["draft_answer"]: the fallback message stands in for no text.      *)
draft_answer(r) == IF answer[r] = <<>> THEN <<0>> ELSE answer[r]

(* run_agent, run_stream: the count of iterations goes on from the         *)
(* conversation's checkpoint.                                              *)
run_stream(r) ==
    /\ pc[r] = "idle" /\ IsAgent(r)
    /\ iterations' = [iterations EXCEPT ![r] = checkpoint]
    /\ before' = [before EXCEPT ![r] = {s \in Req : Count("done", log[s]) > 0}]
    /\ Goto(r, "memory")
    /\ UNCHANGED <<settings, req, intent, chunks, got, answer, log, checkpoint,
                   memory, context, calls, trouble>>

LoadMemory(r) ==
    /\ pc[r] = "memory" /\ IsAgent(r)
    /\ load_context(r)
    /\ Goto(r, "intent")
    /\ UNCHANGED <<settings, req, intent, chunks, got, answer, iterations, log,
                   checkpoint, memory, calls, before>>

(* The explicit intent, or the first class of keywords the question has.   *)
classify_by_rules(q) ==
    IF q.intent \in Intents THEN q.intent
    ELSE IF "compare" \in q.words THEN "compare"
    ELSE IF "summarize" \in q.words THEN "summarize"
    ELSE IF "generate" \in q.words THEN "generate" ELSE "qa"

(* After the intent node: qa and compare retrieve, summarize does when the *)
(* request names resources, generate does not.                             *)
route_by_intent(i, resources) ==
    IF i \in {"qa", "compare"} \/ (i = "summarize" /\ resources # {})
      THEN "retrieve" ELSE "generate"

(* The intent node, by the rules or by asking the model, whose reply is    *)
(* taken only if it names an intent (the default is qa); a failing model   *)
(* ends the stream.                                                        *)
IntentKnown(r, i) ==
    /\ intent' = [intent EXCEPT ![r] = i]
    /\ Emit(r, <<NodeStart("intent"), NodeEnd("intent")>>)
    /\ Goto(r, route_by_intent(i, req[r].resources))

IntentFails(r, code) ==
    /\ Emit(r, <<NodeStart("intent"), ErrorEvent(code)>>)
    /\ Goto(r, "over")
    /\ UNCHANGED intent

intent_node(r) ==
    /\ pc[r] = "intent"
    /\ IF settings.enable_dynamic_intent
         THEN \/ \E reply \in Intents : IntentKnown(r, reply)
              \/ \E code \in CompleteResult \ {"ok"} : IntentFails(r, code)
         ELSE IntentKnown(r, classify_by_rules(req[r]))
    /\ UNCHANGED <<settings, req, chunks, got, answer, iterations, checkpoint,
                   memory, context, calls, before, trouble>>

(* The retrieval node: no resources, no search; a failing search counts as *)
(* an empty one, except that a forbidden resource ends the stream.         *)
Retrieved(r, found) ==
    /\ chunks' = [chunks EXCEPT ![r] = found]
    /\ Emit(r, <<NodeStart("retrieve"), NodeEnd("retrieve")>>)
    /\ Goto(r, "generate")

RetrievalForbidden(r) ==
    /\ Emit(r, <<NodeStart("retrieve"), ErrorEvent("FORBIDDEN")>>)
    /\ Goto(r, "over")
    /\ UNCHANGED chunks

retrieval_node(r) ==
    /\ pc[r] = "retrieve"
    /\ IF req[r].resources = {}
         THEN Retrieved(r, <<>>)
         ELSE \/ \E found \in Found :
                    /\ \A i \in DOMAIN found : found[i] \in req[r].resources
                    /\ Retrieved(r, found)
              \/ RetrievalForbidden(r)
    /\ UNCHANGED <<settings, req, intent, got, answer, iterations, checkpoint,
                   memory, context, calls, before, trouble>>

(* The branch begins; only generate searches the web, for its prompt.      *)
GenerationStarts(r) ==
    /\ pc[r] = "generate"
    /\ Emit(r, <<NodeStart(intent[r])>>)
    /\ Goto(r, IF intent[r] = "generate" /\ req[r].web /\ settings.enable_web_search
                 THEN "search" ELSE "stream")
    /\ UNCHANGED <<settings, req, intent, chunks, got, answer, iterations,
                   checkpoint, memory, context, calls, before, trouble>>

-----------------------------------------------------------------------------
(* Web search *)

InWindow(call) == call

(* SlidingWindowRateLimiter.acquire, first half: calls that have left the  *)
(* window are forgotten, and a full window refuses the search, which then  *)
(* counts as an empty one.                                                 *)
AcquireChecks(r) ==
    /\ pc[r] = "search"
    /\ calls' = SelectSeq(calls, InWindow)
    /\ Goto(r, IF rate_limit > Len(calls') THEN "acquired" ELSE "stream")
    /\ UNCHANGED <<settings, req, intent, chunks, got, answer, iterations, log,
                   checkpoint, memory, context, before, trouble>>

(* Second half, in a thread that may have been preempted: the call enters  *)
(* the window.  The search with its retries and the summary of its results *)
(* by the model follow; if either fails the prompt goes without them.      *)
AcquireEnters(r) ==
    /\ pc[r] = "acquired"
    /\ calls' = Append(calls, TRUE)
    /\ Goto(r, "stream")
    /\ UNCHANGED <<settings, req, intent, chunks, got, answer, iterations, log,
                   checkpoint, memory, context, before, trouble>>

(* Time: the oldest call in the window leaves it.                          *)
WindowPasses ==
    /\ \E i \in DOMAIN calls :
          /\ calls[i] /\ \A j \in 1..(i - 1) : ~calls[j]
          /\ calls' = [calls EXCEPT ![i] = FALSE]
    /\ UNCHANGED <<settings, req, pc, intent, chunks, got, answer, iterations, log,
                   checkpoint, memory, context, before, trouble>>

-----------------------------------------------------------------------------
(* Generation *)

(* Mutant: the run goes on after the error event.                          *)
AgentChunk_GoesOn(r, c) ==
    LET passed == c.delta # <<>> \/ c.reasoning
        failed == passed /\ c.finish = "error"
    IN  /\ answer' = [answer EXCEPT ![r] = @ \o c.delta]
        /\ Emit(r, ContentEvents(r, c) \o
                   (IF failed THEN <<ErrorEvent("AGENT_LLM_ERROR")>> ELSE <<>>))
        /\ Goto(r, IF failed \/ c.finish = "none" THEN "stream" ELSE "drafted")

(* stream_generation passes on chunks with content only, and stops at stop *)
(* and at error: an error without content never reaches the runner.        *)
AgentChunk(r, c) ==
    LET passed == c.delta # <<>> \/ c.reasoning
        failed == passed /\ c.finish = "error"
    IN  /\ answer' = [answer EXCEPT ![r] = @ \o c.delta]
        /\ Emit(r, ContentEvents(r, c) \o
                   (IF failed THEN <<ErrorEvent("AGENT_LLM_ERROR")>> ELSE <<>>))
        /\ Goto(r, IF failed THEN "over"
                   ELSE IF c.finish = "none" THEN "stream" ELSE "drafted")

AgentReceives(r) ==
    /\ MayReceive(r) /\ IsAgent(r)
    /\ got' = [got EXCEPT ![r] = @ + 1]
    /\ \E raw \in Raw : AgentChunk(r, parse_stream_chunk(settings.provider, raw))
    /\ UNCHANGED <<settings, req, intent, chunks, iterations, checkpoint, memory,
                   context, calls, before, trouble>>

(* The provider's iterator is exhausted, cannot start or breaks: the last  *)
(* two arrive as the empty error chunk, except for a refused key.          *)
AgentStreamOver(r) ==
    /\ pc[r] = "stream" /\ IsAgent(r)
    /\ \/ Goto(r, "drafted") /\ UNCHANGED <<log, answer>>
       \/ AgentChunk(r, ErrorChunk)
       \/ \E wire \in Wire :
            /\ got[r] = 0 /\ StreamStart(wire) = "LLM_AUTH_FAILED"
            /\ Emit(r, <<ErrorEvent(StreamStart(wire))>>)
            /\ Goto(r, "over") /\ UNCHANGED answer
    /\ UNCHANGED <<settings, req, intent, chunks, got, iterations, checkpoint,
                   memory, context, calls, before, trouble>>

(* validate_node: the state has no citations yet when the answer is        *)
(* validated, so that all of them are traceable.                           *)
validate_node(cites, found) ==
    \A i \in DOMAIN cites : \E j \in DOMAIN found : found[j] = cites[i].resource

ValidateStep(r) ==
    /\ pc[r] = "drafted"
    /\ iterations' = [iterations EXCEPT ![r] = @ + 1]
    /\ Emit(r, <<NodeEnd(intent[r]), NodeStart("validate"), NodeEnd("validate")>>)
    /\ Goto(r, IF validate_node(<<>>, chunks[r]) THEN "cite" ELSE "retrieve")
    /\ UNCHANGED <<settings, req, intent, chunks, got, answer, checkpoint, memory,
                   context, calls, before, trouble>>

-----------------------------------------------------------------------------
(* The end of the run *)

agent_citations(r) ==
    build_citations(draft_answer(r), chunks[r], req[r].resources, max_citations)

SendCitation(r) ==
    LET sent == Count("citation", log[r])
    IN  /\ pc[r] = "cite" /\ IsAgent(r)
        /\ sent < Len(agent_citations(r))
        /\ Emit(r, <<CitationEvent(agent_citations(r)[sent + 1])>>)
        /\ UNCHANGED <<settings, req, pc, intent, chunks, got, answer, iterations,
                       checkpoint, memory, context, calls, before, trouble>>

(* Mutant: done is sent before the turn is remembered.                     *)
SaveCheckpoint_SkipsTurn(r) ==
    /\ pc[r] = "cite" /\ IsAgent(r)
    /\ Count("citation", log[r]) = Len(agent_citations(r))
    /\ checkpoint' = iterations[r]
    /\ Goto(r, "done")
    /\ UNCHANGED <<settings, req, intent, chunks, got, answer, iterations, log,
                   memory, context, calls, before, trouble>>

(* The checkpoint is replaced by this run's state.                         *)
SaveCheckpoint(r) ==
    /\ pc[r] = "cite" /\ IsAgent(r)
    /\ Count("citation", log[r]) = Len(agent_citations(r))
    /\ checkpoint' = iterations[r]
    /\ Goto(r, "remember")
    /\ UNCHANGED <<settings, req, intent, chunks, got, answer, iterations, log,
                   memory, context, calls, before, trouble>>

Remember(r) ==
    /\ pc[r] = "remember"
    /\ save_turn(r, draft_answer(r))
    /\ Goto(r, "done")
    /\ UNCHANGED <<settings, req, intent, chunks, got, answer, iterations, log,
                   checkpoint, context, calls, before>>

AgentDone(r) ==
    /\ pc[r] = "done"
    /\ Emit(r, <<DoneEvent(Len(agent_citations(r)))>>)
    /\ Goto(r, "over")
    /\ UNCHANGED <<settings, req, intent, chunks, got, answer, iterations,
                   checkpoint, memory, context, calls, before, trouble>>

AgentStep(r) ==
    \/ run_stream(r) \/ LoadMemory(r) \/ intent_node(r) \/ retrieval_node(r)
    \/ GenerationStarts(r) \/ AcquireChecks(r) \/ AcquireEnters(r)
    \/ AgentReceives(r) \/ AgentStreamOver(r) \/ ValidateStep(r)
    \/ SendCitation(r) \/ SaveCheckpoint(r) \/ Remember(r) \/ AgentDone(r)
=============================================================================
