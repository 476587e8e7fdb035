-------------------------------- MODULE LLM --------------------------------
(***************************************************************************)
(* The LLM client of the AI service and its providers: what a call to the  *)
(* remote model returns to the code that made it.                          *)
(*                                                                         *)
(* A remote call has an outcome "on the wire" (what the SDK of the         *)
(* provider does); the provider turns it into one of the service's errors, *)
(* the client retries and falls back.  A text is abstracted to the         *)
(* sequence of its pieces: piece n > 0 is a piece of the answer that       *)
(* carries the footnote marker [^n], piece 0 is one of the service's own   *)
(* fixed texts.                                                            *)
(***************************************************************************)
EXTENDS Naturals, Sequences, FiniteSets

(* What the SDK does with a call: it answers, raises one of its exceptions,*)
(* or answers something that is not a chat completion.                     *)
Wire == {"ok", "authentication", "timeout", "api_error", "other", "unparsable"}

Retryable == {"LLM_UNAVAILABLE", "LLM_TIMEOUT"}

(* provider.complete: the exceptions of the SDK become those of the        *)
(* service; the parser of the response is outside of the try.              *)
provider_complete(wire) ==
    CASE wire = "authentication" -> "LLM_AUTH_FAILED"
      [] wire = "timeout" -> "LLM_TIMEOUT"
      [] wire \in {"api_error", "other"} -> "LLM_UNAVAILABLE"
      [] wire = "unparsable" -> "TypeError"
      [] wire = "ok" -> "ok"

(* At least one attempt, whatever max_retries says; the first that         *)
(* succeeds or fails for good is the last.  wires[i] is what the i-th      *)
(* attempt meets.                                                          *)
complete_with_provider(wires, max_retries) ==
    LET attempts == IF max_retries < 1 THEN 1 ELSE max_retries
        Fails(i) == provider_complete(wires[i]) \in Retryable
        retried == {i \in 1..(attempts - 1) : \A j \in 1..i : Fails(j)}
        last == Cardinality(retried) + 1
        result == provider_complete(wires[last])
    IN  [attempts |-> last,
         result |-> IF result = "TypeError" THEN "LLM_UNAVAILABLE" ELSE result]

(* LLMClient.complete: the fallback model is asked when the primary is     *)
(* unavailable or times out, with attempts of its own.                     *)
complete(wires, fallbackWires, hasFallback, max_retries) ==
    LET primary == complete_with_provider(wires, max_retries)
        second == complete_with_provider(fallbackWires, max_retries)
    IN  IF primary.result \in Retryable /\ hasFallback
          THEN [result |-> second.result, by |-> "fallback",
                attempts |-> primary.attempts + second.attempts]
          ELSE [result |-> primary.result, by |-> "primary",
                attempts |-> primary.attempts]

(* What a caller of complete can get, with two attempts for each model.     *)
CompleteResult ==
    LET Outcomes == [1..2 -> Wire]
    IN  {complete(w, f, has, 2).result : w \in Outcomes, f \in Outcomes, has \in BOOLEAN}

-----------------------------------------------------------------------------
(* Streaming *)

Chunk(delta, reasoning, finish) ==
    [delta |-> delta, reasoning |-> reasoning, finish |-> finish]

(* A chunk on the wire: without choices, or with content, reasoning and a  *)
(* finish reason.  Any finish reason other than stop and error (length,    *)
(* content_filter) means the same to the service as none.                  *)
NoChoices == [choices |-> FALSE]
Choice(content, reasoning, finish) ==
    [choices |-> TRUE, content |-> content, reasoning |-> reasoning, finish |-> finish]

(* Only the OpenAI-compatible providers (Kimi, Ollama) know reasoning.     *)
parse_stream_chunk(provider, raw) ==
    IF ~raw.choices
      THEN Chunk(<<>>, FALSE, "none")
      ELSE Chunk(raw.content, raw.reasoning /\ provider # "zhipuai", raw.finish)

(* LLMClient.stream_complete: neither retried nor sent to the fallback     *)
(* model.  A failure to start or an interruption becomes a last, empty     *)
(* chunk; only a refused key is raised.                                    *)
StreamStart(wire) ==
    CASE wire = "authentication" -> "LLM_AUTH_FAILED"
      [] wire = "ok" -> "streaming"
      [] OTHER -> "error chunk"

ErrorChunk == Chunk(<<>>, FALSE, "error")
=============================================================================
