----------------------------- MODULE QaService -----------------------------
(***************************************************************************)
(* Question answering without the agent, POST /qa/stream:                  *)
(* QAService.stream_answer.  The thread of a request is                    *)
(*                                                                         *)
(*   idle -> qa_retrieve -> stream -> cite -> save_turn -> over            *)
(*                                                                         *)
(* Unlike the agent it tells the client of a failing retrieval, answers    *)
(* from the retrieved chunks when the model fails, and remembers the turn  *)
(* only after done.                                                        *)
(***************************************************************************)
EXTENDS Answering

IsQa(r) == req[r].kind = "qa"

(* stream_qa, stream_answer: the long-term memory.                         *)
stream_answer(r) ==
    /\ pc[r] = "idle" /\ IsQa(r)
    /\ load_context(r)
    /\ before' = [before EXCEPT ![r] = {s \in Req : Count("done", log[s]) > 0}]
    /\ Goto(r, "qa_retrieve")
    /\ UNCHANGED <<settings, req, intent, chunks, got, answer, iterations, log,
                   checkpoint, memory, calls>>

(* The retrieval; every failure of it ends the stream.                     *)
QaRetrieves(r) ==
    /\ pc[r] = "qa_retrieve"
    /\ \/ /\ \E found \in Found :
                /\ \A i \in DOMAIN found : found[i] \in req[r].resources
                /\ chunks' = [chunks EXCEPT ![r] = found]
          /\ Goto(r, "stream")
          /\ UNCHANGED log
       \/ /\ req[r].resources # {}
          /\ \E code \in {"FORBIDDEN", "RETRIEVAL_UNAVAILABLE"} : Emit(r, <<ErrorEvent(code)>>)
          /\ Goto(r, "over")
          /\ UNCHANGED chunks
    /\ UNCHANGED <<settings, req, intent, got, answer, iterations, checkpoint,
                   memory, context, calls, before, trouble>>

(* Mutant: the number of the events before the last chunk.                 *)
fallback_answer_StaleIndex(r, c) ==
    IF chunks[r] # <<>> THEN <<ChunkEvent(0, Count("chunk", log[r])), DoneEvent(0)>>
                        ELSE <<ErrorEvent("LLM_TIMEOUT")>>

(* The answer when the model fails: the beginnings of the first chunks,    *)
(* and done; an error if nothing was retrieved.                            *)
fallback_answer(r, c) ==
    LET index == Count("chunk", log[r]) + Len(c.delta)
    IN  IF chunks[r] # <<>> THEN <<ChunkEvent(0, index), DoneEvent(0)>>
                            ELSE <<ErrorEvent("LLM_TIMEOUT")>>

(* Mutant: the turn is saved when the model fails, too.                    *)
QaChunk_Saves(r, c) ==
    /\ answer' = [answer EXCEPT ![r] = @ \o c.delta]
    /\ Emit(r, ContentEvents(r, c) \o
               (IF c.finish = "error" THEN fallback_answer(r, c) ELSE <<>>))
    /\ Goto(r, CASE c.finish = "error" -> "save_turn"
                 [] c.finish = "stop" -> "cite"
                 [] c.finish = "none" -> "stream")

(* One chunk of the model's stream.                                        *)
QaChunk(r, c) ==
    /\ answer' = [answer EXCEPT ![r] = @ \o c.delta]
    /\ Emit(r, ContentEvents(r, c) \o
               (IF c.finish = "error" THEN fallback_answer(r, c) ELSE <<>>))
    /\ Goto(r, CASE c.finish = "error" -> "over"
                 [] c.finish = "stop" -> "cite"
                 [] c.finish = "none" -> "stream")

QaReceives(r) ==
    /\ MayReceive(r) /\ IsQa(r)
    /\ got' = [got EXCEPT ![r] = @ + 1]
    /\ \E raw \in Raw : QaChunk(r, parse_stream_chunk(settings.provider, raw))
    /\ UNCHANGED <<settings, req, intent, chunks, iterations, checkpoint, memory,
                   context, calls, before, trouble>>

QaStreamOver(r) ==
    /\ pc[r] = "stream" /\ IsQa(r)
    /\ \/ Goto(r, "cite") /\ UNCHANGED <<log, answer>>
       \/ QaChunk(r, ErrorChunk)
       \/ \E wire \in Wire :
            /\ got[r] = 0 /\ StreamStart(wire) = "LLM_AUTH_FAILED"
            /\ Emit(r, <<ErrorEvent("LLM_STREAM_ERROR")>>)
            /\ Goto(r, "over") /\ UNCHANGED answer
    /\ UNCHANGED <<settings, req, intent, chunks, got, iterations, checkpoint,
                   memory, context, calls, before, trouble>>

qa_citations(r) ==
    build_citations(answer[r], chunks[r], req[r].resources, max_citations)

QaCites(r) ==
    LET sent == Count("citation", log[r])
    IN  /\ pc[r] = "cite" /\ IsQa(r)
        /\ IF sent < Len(qa_citations(r))
             THEN /\ Emit(r, <<CitationEvent(qa_citations(r)[sent + 1])>>)
                  /\ UNCHANGED pc
             ELSE /\ Emit(r, <<DoneEvent(Len(qa_citations(r)))>>)
                  /\ Goto(r, "save_turn")
        /\ UNCHANGED <<settings, req, intent, chunks, got, answer, iterations,
                       checkpoint, memory, context, calls, before, trouble>>

(* After done, if the client is still there.                               *)
QaRemembers(r) ==
    /\ pc[r] = "save_turn"
    /\ save_turn(r, answer[r])
    /\ Goto(r, "over")
    /\ UNCHANGED <<settings, req, intent, chunks, got, answer, iterations, log,
                   checkpoint, context, calls, before>>

QaStep(r) ==
    \/ stream_answer(r) \/ QaRetrieves(r) \/ QaReceives(r) \/ QaStreamOver(r)
    \/ QaCites(r) \/ QaRemembers(r)
=============================================================================
