----------------------------- MODULE Answering -----------------------------
(***************************************************************************)
(* What the two ways of answering a question in the AI service share: the  *)
(* agent workflow (module AgentRun) and the question answering service     *)
(* (module QaService).                                                     *)
(*                                                                         *)
(* Every request has a thread and an event loop of its own.  The threads   *)
(* meet in the checkpointer, in the long-term memory and in the rate       *)
(* limiter of the web search, all without a lock.  The response is a       *)
(* generator: its code runs up to the next event when the server has       *)
(* written the last one, and a client that leaves is noticed there, and    *)
(* nowhere else.  All requests belong to one conversation of one user.     *)
(***************************************************************************)
EXTENDS Naturals, Sequences, FiniteSets, LLM, Citations

CONSTANTS
    Req,            \* requests
    Scenario,       \* bound: the configurations and the requests to look at
    Text,           \* bound: the markers the model may write
    Raw,            \* bound: the chunks the model may send (NoChoices, Choice)
    MaxChunks,      \* bound: MaxChunks[r] chunks of the model for r
    Found,          \* bound: the results a retrieval may have (sequences of resources)
    max_citations,  \* CitationValidator, 8 by default
    rate_limit      \* web searches per minute

Intents == {"summarize", "qa", "compare", "generate"}

RequestShape ==
    [kind : {"agent", "qa"},
     intent : Intents \cup {""},               \* the explicit intent, if any
     words : SUBSET (Intents \ {"qa"}),        \* the keywords in the question
     resources : SUBSET STRING,
     web : BOOLEAN]

SettingsShape ==
    [provider : {"zhipuai", "kimi", "ollama"}, enable_dynamic_intent : BOOLEAN,
     enable_web_search : BOOLEAN]

ASSUME AnsweringAssumption ==
    /\ \A w \in Scenario : w.settings \in SettingsShape /\ w.req \in [Req -> RequestShape]
    /\ Text \subseteq Nat \ {0}
    /\ \A c \in Raw : c = NoChoices \/ \E content \in {<<>>} \cup {<<t>> : t \in Text} :
                        \E reasoning \in BOOLEAN, finish \in {"none", "stop", "error"} :
                           c = Choice(content, reasoning, finish)
    /\ Found \subseteq Seq(STRING)
    /\ MaxChunks \in [Req -> Nat]
    /\ max_citations \in Nat /\ rate_limit \in Nat

VARIABLES
    settings,       \* the configuration
    req,            \* req[r]: the request's body
    pc,             \* pc[r]: where the thread of r is
    intent,         \* intent[r]: the state's intent
    chunks,         \* chunks[r]: the retrieved chunks, as their resources
    got,            \* got[r]: chunks received from the model
    answer,         \* answer[r]: the pieces of the answer collected so far
    iterations,     \* iterations[r]: the state's count of validations
    log,            \* log[r]: the events written to the response
    checkpoint,     \* iterations in the conversation's checkpoint, 0 if there is none
    memory,         \* the turns remembered: set of [run, text]
    context,        \* context[r]: the turns the memory search of r could find
    calls,          \* the rate limiter's deque: is the call still in the window?
    before,         \* history: before[r]: the requests done when r began
    trouble         \* history: requests that met a failing memory

answerVars == <<settings, req, pc, intent, chunks, got, answer, iterations, log,
                checkpoint, memory, context, calls, before, trouble>>

(* Events *)
NodeStart(n) == [type |-> "node_start", node |-> n]
NodeEnd(n) == [type |-> "node_end", node |-> n]
ChunkEvent(p, i) == [type |-> "chunk", piece |-> p, index |-> i]
ReasoningEvent(i) == [type |-> "reasoning", index |-> i]
CitationEvent(c) == [type |-> "citation", cite |-> c]
DoneEvent(n) == [type |-> "done", count |-> n]
ErrorEvent(c) == [type |-> "error", code |-> c]

Count(type, events) ==
    Cardinality({i \in DOMAIN events : events[i].type = type})

Ended(r) == \E i \in DOMAIN log[r] : log[r][i].type \in {"done", "error"}

Emit(r, events) == log' = [log EXCEPT ![r] = @ \o events]
Goto(r, label) == pc' = [pc EXCEPT ![r] = label]

AnsweringInit ==
    /\ \E w \in Scenario : settings = w.settings /\ req = w.req
    /\ pc = [r \in Req |-> "idle"]
    /\ intent = [r \in Req |-> req[r].intent]
    /\ chunks = [r \in Req |-> <<>>]
    /\ got = [r \in Req |-> 0]
    /\ answer = [r \in Req |-> <<>>]
    /\ iterations = [r \in Req |-> 0]
    /\ log = [r \in Req |-> <<>>]
    /\ checkpoint = 0
    /\ memory = {}
    /\ context = [r \in Req |-> {}]
    /\ calls = <<>>
    /\ before = [r \in Req |-> {}]
    /\ trouble = {}

-----------------------------------------------------------------------------
(* Long-term memory *)

(* MemoryService.load_context: the embedding and the search; a failure of  *)
(* either is logged and gives no context.  context is what the search may  *)
(* find; the scores and the token budget may leave less of it.             *)
load_context(r) ==
    \/ context' = [context EXCEPT ![r] = memory] /\ UNCHANGED trouble
    \/ trouble' = trouble \cup {r} /\ UNCHANGED context

(* MemoryService.save_turn: a blank answer is not remembered; a failing    *)
(* embedding or store is logged.                                           *)
save_turn(r, text) ==
    \/ /\ memory' = IF text = <<>> THEN memory
                    ELSE memory \cup {[run |-> r, text |-> text]}
       /\ UNCHANGED trouble
    \/ /\ text # <<>>
       /\ trouble' = trouble \cup {r} /\ UNCHANGED memory

(* The chunk and reasoning events of one LLM chunk, whose content is one   *)
(* piece or none; the indexes count the events of their kind.              *)
ContentEvents(r, c) ==
    [i \in DOMAIN c.delta |-> ChunkEvent(c.delta[i], Count("chunk", log[r]))]
    \o (IF c.reasoning THEN <<ReasoningEvent(Count("reasoning", log[r]))>> ELSE <<>>)

MayReceive(r) == pc[r] = "stream" /\ got[r] < MaxChunks[r]

(* The client closes the connection: the generator is closed at its last   *)
(* event.  The event loop is closed without running what was left of it.   *)
Yielded == {"retrieve", "generate", "search", "stream", "drafted", "cite",
            "save_turn"}

ClientLeaves(r) ==
    /\ pc[r] \in Yielded /\ log[r] # <<>>
    /\ Goto(r, "left")
    /\ UNCHANGED <<settings, req, intent, chunks, got, answer, iterations, log,
                   checkpoint, memory, context, calls, before, trouble>>
=============================================================================
