# Verification of MKC

MKC is a knowledge-base system: a Flutter **client**, a Go **gateway** (HTTP API,
MySQL, MinIO, SSE) and a Python **AI service** (Flask API, Celery workers, Milvus,
LLM providers). This directory holds TLA+ models of its core, TLC runs that check
them on small instances and TLAPS proofs for every instance.

Run a model with `tlc -workers 2 -config X.cfg MCModule`, a proof with
`tlapm XProofs.tla`. `PROJECT.json` lists the runs, the source lines behind every
definition, a mutant for every property, the findings and the hazards.

## 1. Inventory

| Component | State | Operations | Interaction | What is hard |
|---|---|---|---|---|
| Task rows (`gateway/internal/service/task_service.go`, `repository/task_repository.go`) | `tasks` table: status, progress, retry_count, result, error, timestamps | Create, Retry, status report, progress report | called by users and by the AI service, writes resources, publishes events, dispatches | every handler reads, checks and later writes by id, without lock or compare-and-set |
| Upload (`service/file_service.go`) | object store, `resources`, `tasks` | Upload | stores the object, inserts both rows, dispatches | three stores, no transaction, hand-written roll-back |
| Dispatch (`service/task_dispatcher.go`) | none | Dispatch, DispatchSummary, DispatchExtraction | HTTP to the AI service | an error does not tell whether the job was queued |
| Task events (`service/task_broadcaster.go`, `handler/task_sse_handler.go`) | subscriber lists, channels | Subscribe, Publish, removeSubscriber, Stream | report handlers publish, SSE handlers read | send after unlock, close by another goroutine, bounded buffers |
| Workers (`ai-service/celery_workers`, `services/gateway_reporter.py`) | broker queues, task attributes | run_asr, run_pdf_parse, hooks | synchronous reports to the gateway | late acknowledgement, redelivery, lost and late reports, retries that are declared and never happen |
| ASR and PDF processing (`asr_service.py`, `pdf_parser_service.py`, `segment_merger.py`, `srt_generator.py`, `text_cleaning`) | objects in MinIO | process, parse, clean, merge, save | run by the workers | many outside calls, batches that fail one by one, times and offsets |
| Vector indexing (`ai-service/app/services/vector_indexing`, `chunking`, `embedding`, `vector_store`) | Milvus collection | index_pdf, index_asr | queued by the workers | delete then upsert, retried, concurrent; ids and offsets of chunks |
| Retrieval (`services/retrieval`, `services/hybrid_retrieval`, `services/llamaindex`) | BM25 cache | retrieve | called by the answering services | threads share the cache, three paths fail independently |
| Agent (`app/agent`), its LLM clients (`services/llm`), memory (`services/memory`), citations | checkpoints, memory, web-search window | run_stream | SSE to the gateway | a response is written from a dozen places, clients leave |
| Question answering of the AI service (`services/qa_service.py`) | none of its own | stream_answer | SSE to the gateway | fallback in the middle of a stream |
| Summaries, extraction (`services/summary`, `services/extraction`; gateway `summary_service.go`, `extraction_service.go`) | an object and a row each | generate, extract, save | dispatched by the gateway, post back | two stores, half-done posts, redelivery, overlapping jobs |
| Question answering of the gateway (`service/qa_service.go`, `ai_client.go`) | messages | Ask, stream, saveAssistant | streams from the AI service to the client | client leaves in the middle, full buffers |
| Conversations, context window | conversations, messages | list, trim | read by Ask | token budgets, boundaries |
| Chat page (`client/lib/presentation/providers/chat_provider.dart` and its SSE client) | messages shown, stream | send, cancel, loadMessages | SSE, polling | reconnection, late answers |
| Authentication (`auth_service.go`, `pkg/jwt`) | Redis sessions | Login, Refresh, Logout | middleware | a session used twice, revocation |
| Rate limiter (`middleware/ratelimit.go`) | counters per key | middleware | every request | windows, concurrency |
| Other client providers (`client/lib`) | notifier state | follow a task, page, upload | HTTP, SSE | reconnection, late answers |

The properties that make each part correct are the runs' (section 3), the places where
they could fail the hazards of `PROJECT.json`.

Not modelled by intent: widgets and screens, evaluation scripts, deployment files,
and the computations of third-party models and libraries (Whisper, PyMuPDF,
PaddleOCR, embedding models), which have no state of their own.

## 2. Modules

| Module | Models | Notes |
|---|---|---|
| `TaskRow` | the row, `canTransition`, the UPDATE statements | pure operators |
| `TaskStatus` | abstract specification: what a task's status may do | |
| `TaskGateway` | Upload, Create, Retry, status and progress reports | one action per SQL statement, any number of handlers |
| `CeleryWorker` | queue, worker processes, hooks, reports as synchronous calls | open: answers come from the composition |
| `TaskPipeline` | `TaskGateway` and `CeleryWorker` over HTTP | dispatch outcomes, lost, late and repeated reports |
| `TaskEvents` | broadcaster, SSE handlers, publishers of one task | |
| `QAStream` | Ask, `readStream`, `stream`, the response loop, the messages table | any number of requests on one conversation |
| `ChatClient` | the chat page (`ChatNotifier`) and its SSE client | extends `QAStream`: one connection at a time |
| `Chat` | page, gateway and AI service together, with faults | |
| `LLM` | providers, `LLMClient`: errors, retries, the chunks of a stream | operators |
| `Citations` | formatter, validator, `build_citations` | operators |
| `Answering` | what the agent and the plain service share: events, memory, streams, clients | |
| `AgentRun` | `AgentRunner`: nodes, routing, web search, checkpoint | one action per node or event |
| `QaService` | `QAService.stream_answer` | |
| `AnswerStream` | abstract specification of a response: what the gateway relies on | |
| `AnswerService` | both services on one conversation | implements `AnswerStream` |
| `VectorStore` | Milvus: filters, upsert, search, the conversion of distances to scores | operators and faults |
| `VectorIndexing` | the task `index_resource_vectors` | |
| `HybridRetrieval` | plain, LlamaIndex and hybrid retrieval, the BM25 cache | |
| `KnowledgeBase` | `VectorIndexing` and `HybridRetrieval` over one store | |
| `Chunking` | the three chunkers | pure operators |
| `Transcript` | cleaning, merging, subtitles, offsets and times | pure operators |
| `Digest` | pages, sections, windows of the map-reduce, tags, entities | pure operators |
| `Processing` | a resource from its parse task to its index, summary and tags | |
| `Arrangement` | filtering, deduplication, sorting and slicing of lists, as choices of positions | used by retrieval, cleaning and extraction |
| `TaskGatewayProofs` | theorems about the gateway: any requests; one at a time | |
| `TaskPipelineProofs` | theorems about the pipeline: with every fault; up to the first one | |
| `ArrangementProofs` | lemmas about the operators of `Arrangement` | |
| `TaskEventsProofs`, `ChatProofs`, `AnswerServiceProofs`, `KnowledgeBaseProofs`, `ProcessingProofs` | theorems about the modules they are named after | |
| `MC*` | instances for TLC | |

### State and code

* `tasks[t]` is the row; timestamps are kept as "is it set", the error text as "is
  there one", the result as which payload. `resources[r]` is `resources.status`
  with 0 for "no row". `objects` is the bucket. `cooled[t]` says whether
  `retryCooldown` has passed since `updated_at`; every UPDATE clears it.
* `handler[h]` is what a request goroutine keeps in its local variables between two
  statements (the row it read, the report it serves) and where it is.
* A worker's `proc[p]` is the message it holds and its place in the task body;
  `call[p]` is the report it waits on. `run` numbers the dispatches of a task; the
  code has no such number, it only serves to say which run a result belongs to.
* In `TaskEvents` an event is the status it carries; `subs`, `buffer` and `open` are
  the broadcaster's list and channels, `watching` the goroutines Subscribe starts.
  The check and the write of a report are one step there; what happens between
  them is the subject of `TaskGateway`.

* In `QAStream` a request has three goroutines: `handler[a]` (Ask and the response
  loop), `reader[a]` (`readStream`) and `pump[a]` (`stream`), with the channels `ai[a]`
  and `out[a]` between them; `ctx` holds the requests whose context is done. Chunks,
  reasoning deltas and citations are numbered parts, `done` and `error` the end.
* In `ChatClient` `ctl` is the StreamController of the question being answered and
  where its `attemptSse` is, `shown` the list of messages; a message takes the id of
  the request whose events reach it first. Its `parts` are kept by request, so that it
  can be said whose text a message shows. `load` is a `loadMessages` under way.
* In `Answering` `log[r]` is what was yielded to the client of request `r`, `pc[r]` where
  its generator is; `answer[r]` and `chunks[r]` are its local `answer_parts` and
  retrieved chunks. A piece of text is the number it cites (0: none). `before[r]` (the
  requests that had said done when `r` began) and `trouble` (those the memory failed)
  are observations, the code has no such state.
* In `KnowledgeBase` `store` is the collection, a record its resource, chunk number,
  owner and text; `Score` is the cosine similarity of a text and the question in
  hundredths, as Milvus returns it for COSINE, `HitScore` the score the code makes of it
  (`_distance_to_score`: one minus that), `Bm25Score` that of the BM25 index. `target[j]` is the store a worker is connected to,
  `writer[r]` the job that last wrote a whole index, `cache` the `_bm25_cache`.
* In `Processing` `world` is the resource and the configuration, `doc` the locals of the
  parse task, `draft[j]` those of a summary or extraction job, `objects` and `rows` what
  is in MinIO and in the gateway's tables, `records` what indexing upserts. Texts are
  sequences of a few characters with a weight in tokens, times are milliseconds.

### Abstractions worth knowing

* Request validation that precedes any state change is the choice of the input. A
  progress report of 0 is kept as a rejected request because `binding:"required"`
  refuses a zero.
* Only completed reports carry a result (`BaseAITask.on_success`): `InputAssumption`.
* No run is retried by Celery. The tasks are declared with `autoretry_for=()`, and what
  guards their own `self.retry` is `self.request.retries < self.request.max_retries`
  (`pdf_parse_task.py:96`, `asr_task.py:70`, `summarize_task.py:42`,
  `extract_tags_task.py:43`): `max_retries` is an attribute of the task, Celery's request
  has none, so the test raises `AttributeError` out of the except clause. `RunFails` is
  what then happens: `on_failure` reports the task failed, on attempt 1. `MaxRetries` of
  `CeleryWorker` is the declared number, which only `FailedAfterAllAttempts` uses. The task
  `index_resource_vectors` has `autoretry_for=(Exception,)` and is retried
  (`VectorIndexing`).
* `RunSucceeds` also queues a vector-indexing job; that job has its own model
  (`VectorIndexing`) and reports nothing to the gateway.
* `_failure_reported`, which would silence `on_failure`, is set behind that same test and
  so never: the model does not have it.
* The failure mark of an upload publishes no event and its task id is not known to
  any client yet; `TaskEvents` leaves it out.
* `GatewayCrash` drops all requests; rows and objects stay.
* HTTP answers to the chat page are kept by class: 4xx ends the question, 5xx and
  connection errors are tried again. `validateStatus` makes Dio throw for the latter.
* When the body of an answer breaks, `onError` starts another attempt and `onDone`
  follows at once and closes the controller, which cancels the attempt's token
  before its POST: `BodyBreaks` is one step that closes.
* The list of messages fits on one page (20): of a longer one `loadMessages` and the
  polling see the oldest 20 messages only. Polling copies the text of an answer and
  not its reasoning and citations.
* The page starts on a new conversation whose (empty) list has been loaded; later pages
  load theirs as steps.
* `AiSends` and `AiEnds` of `QAStream` are open: what the AI service may send there is
  `AnswerStream`, and `StreamContract` of the run `answering` shows that it sends
  nothing else.
* Prompts, wording and metrics are left out of the answering modules. The agent has its
  checkpointer and memory, as `main.py` builds it; a stream of the model has at most
  `MaxChunks` chunks (by request), each with one piece of text or none, as the services
  yield one event for it.
* The runs of a task are numbered up to `MaxRuns`; a dispatch that would exceed it does
  not take place (`DispatchQueued`), which is the bound of the pipeline in its proofs too.
* `HybridRetrieval` has the default configuration: reranker, fallback to vectors and BM25
  cache switched on. A timeout is a choice where `_elapsed_ms` is compared.
* In `KnowledgeBase` a chunk is a text; how texts become chunks is in `Chunking` and
  checked by `processing`. A document is a sequence of pages of chunks. Stored records with
  equal scores come in any order (`Best`), as neither Milvus nor the BM25 index promises
  one; Python's own `sorted` is stable (`ByScore`).
* The scores are those of `MilvusStore` with COSINE, its default metric. `ChromaStore`
  converts its distances too, and for it `1 - distance` is the similarity. The reranker
  scores texts by itself (`rerank` uses `Score`), RRF uses ranks.
* A BM25 index enters the cache in the steps of `_get_or_build_bm25`: `Insert`, `Promote`,
  and `EvictTest` and `Evict` in turn. In between other requests see it, move it or remove
  it; `move_to_end` and `popitem` on a key or cache that is gone raise `KeyError`, which the
  BM25 path contains. The cache may exceed `bm25_cache_max_entries` by the entries of
  requests that have inserted and not yet evicted; `TypeOK` bounds the rest (`Settled`).
* Rankings are `Arranged`: positions of a sequence in a strict total order given as a set of
  pairs. Filters and deduplication are `Picked`: the positions that stay, in texts and lists
  of tags as well as of chunks. An upsert keeps the records that no later one replaces.
* The summary and extraction jobs start from the document the parse task stored; the
  gateway's `base_url` is configured, as in every deployment file.
* A post of the tags may have replaced the tags and not the entities (`TagsOnly`: two
  transactions in `SaveInternal`), and a worker may be lost after its post was served. A
  post that is still being served when its sender has given up takes effect in that step,
  not later: the job is failed by then, nothing sends it again, and `DoneIsSaved` makes no
  claim about a row one of whose jobs failed.
* A record of `Processing` has no id. `ContentSearchable` says that what is said or printed
  is in the records made for the index; that records of different pages have the same id
  and overwrite each other in the store is what `index_pages` shows, where records have one.
* In `split_chunks` a token is one character, so that `encode` and `decode` lose nothing; in
  the code a window may begin or end within a character of several tokens, which then decodes
  to a replacement character (inside the overlap, if that is longer than one character).
* Processing times are integers; `segment_merger` works on floats, whose rounding the
  model does not have.

## 3. Runs

Bounds: one or two tasks, two handlers, two workers, at most two dispatches of a task
and, in `pipeline`, one fault. Two handlers on one row are what a read/write race needs;
two workers and two runs are what overlapping runs need; one fault is enough for a report
of one run to meet the row of another, or for a message to be run twice.

| Run | Shows |
|---|---|
| `gateway_concurrent` | type invariant; rows stay coherent, no task completes without having started or lacks its resource, under any interleaving, failing statements and crashes |
| `gateway_serial` | one request at a time: the status machine `TaskStatus` is implemented, no object is leaked, the resource's status follows its task's unless the logged-only resource update failed |
| `pipeline` | a task of either kind with at most one fault (dispatch refused or ambiguous, report lost or late, worker dead, time limit): no outcome is invented; up to that fault no row is left behind at rest and it tells the outcome, the result is the latest run's and that run the only one, every dispatched task terminates |
| `pipeline_retries` (violation) | a task is failed after its first attempt: the declared automatic retries do not take place |
| `events` | the broadcaster's bookkeeping, no reader can block a publisher, subscriptions are released, a terminal event in a stream's buffer, whatever is queued before it, ends the stream |
| `events_panic` (violation) | Publish can panic on a channel that is being closed |
| `chat_overlap` | two requests of one page overlap after a cancel or a new page: one question and at most one answer per request, in order; the page shows a beginning of what will be saved, with holes only where a channel was full |
| `chat_faults` | a question and its reconnection with two faults (database, AI service, connection, deletion): collected answers are saved, the goroutines of a closed connection end, the input bar comes back |
| `answering` | two requests of one conversation: `StreamWellFormed` (order, numbering and one end of the events), `CitationsGrounded`, `RememberedWasShown` and `NextTurnRemembers` (what memory holds), and `StreamContract`: the refinement of `AnswerStream`, with every response the client stays for ending |
| `search` | two indexing jobs of one PDF and two searches: `IndexMatchesDocument` (re-indexing is idempotent), `HarmlessOutage` (an embedding outage costs nothing), `ScopeEnforced`, `DegradedIsMarked`, `AnswersWithoutFaults` (the cache race is harmless), `RetrievedRanked` (the order of the scores as computed, threshold, duplicates and budgets), and `TypeOK` with the bounds of cache and retries |
| `index_pages` (violation) | the pages of a PDF overwrite each other's chunks in the index |
| `processing` | one recording or document: `ContentSearchable` (every character said or printed is in a record that leads back to it), `SubtitlesFaithful`, `CleanedThroughout`, `SummaryReadsAll`, `DoneIsSaved` (row and object agree whatever was redelivered or half written), `JobsEnd` |

In `pipeline` a user does not press retry twice at the same time (`UserOverlap = FALSE`);
section 5 says what happens otherwise. `events` has two streams, one place for a
subscriber, two publishers, buffers of two events and three events: the smallest sizes at
which the list is full, a terminal event is queued behind another one, a buffer is full
and an event is dropped.

The chat runs have two requests, channels of one event instead of 64 and a socket that
holds one event: an event can wait in every place and find the next one full.
`chat_overlap` has three parts, so that an answer can lose its first, a middle or its
last event while the other request has one; `chat_faults` needs one part and two faults
to make both attempts fail and reach the polling. A user's turn is a question or a new
page, two of them in `chat_overlap`.

`answering` has four scenarios: every branch of the agent chosen by rules or by the model,
two web searches against a limit of one, and the plain service beside the agent. One of
the two requests gets a stream of up to two chunks, of five kinds: enough for text,
reasoning, a stop, an error after text, and a fallback that has to go on counting.
`search` has a PDF of three pages, one blank, indexed again in a shorter or empty version
while the recording of another user is there already, two faults, one retry, and a BM25
cache with one place that two scopes compete for; the requests cover hybrid, LlamaIndex
and plain retrieval, one and several resources, thresholds and a token budget that is
exceeded. `processing` has every recording of up to two segments from 16 (times that
merge, split, overlap, run backwards or cross a minute; texts that are blank, all filler
or longer than a subtitle) and some of three, all three chunkers with an overlap, rule and
LLM cleaning with and without fallback, documents with and without a table of contents, in
and out of order, scanned or not; all sizes are small enough that every limit is exceeded
by some input. At most one lost worker.

`CHECK_DEADLOCK FALSE` is used where behaviours end because a bound (runs, events)
is used up or every request and job is over. `processing` is checked for deadlocks: only
`Idle`, when no job is queued or at work, may be the last step.

### Fairness

`FairPipeline` assumes weak fairness of every handler's and process's own steps (the
Go and OS schedulers), of an accepted dispatch and of answers, and strong fairness of
delivery: a report waits for a free handler, and in the program every request gets a
goroutine. Users and faults get none. `FairSpec` of `TaskEvents` assumes only the
gateway's goroutines; that a client reads its stream is the premise of
`TerminalEventEndsStream`, stated for each stream. `FairSpec` of `Chat` assumes the
gateway's goroutines, the client's event loop, and that an event stream of the AI
service comes to an end, which the timeout of `StreamQA` guarantees; users and faults
get none. `FairSpec` of `AnswerService` assumes that the thread of
every request goes on: each call of a model, a store or the web search has a timeout.
`FairSpec` of `Processing` assumes that a job a worker has, or that is queued, gets to its
next label; it is stated on the job counter because the conditions of the real steps are
expensive to evaluate in every state, and the deadlock check shows that such a step is
always there. Nothing is assumed of dispatches or of indexing. `InputReturns` excepts
polling: it goes on for as long as no answer is stored.

## 4. Proofs

The theorems hold for every value of the constants that satisfies the modules' named
assumptions: any number of tasks, resources, requests, workers, streams, any buffer size
and limit, any set of faults. The assumptions only say what the constants are (a
batch of the cleaner has at least one segment, as `LlmCleaner.__init__` enforces), with four
that the code justifies: only a completed report carries a result
(`InputAssumption`), the workers' reports are among those the gateway's API accepts
(`InterfaceAssumption`), one chunk of the model carries one piece of text at most
(`AnsweringAssumption`), and all indexing jobs of a resource name the same user
(`OwnerAssumption`: `buildDispatchRequest` sends the owner of the resource row, which no
statement changes). Each invariant was checked by TLC before it was proved.

**Gateway** (`TaskGatewayProofs`).

* `TypeCorrect`: `Spec => []TypeOK`.
* `RowsCoherent`, `CompletedAfterStart`, `TasksHaveResources`: from the inductive
  invariant `SafetyInv`, which adds two facts about requests in flight.
  `ReportGrounded`: a completed or failed report that passed `canTransition` saw a
  row that was running, and `started_at` is never cleared, not even by a retry, so
  the stale write still meets a started row. `UploadExclusive`: while an upload has
  not inserted its task row nobody else works on that task, and from its task step
  on the resource row exists.
* `NoLeak`: while the object store works and the gateway does not die
  (`"minio"`, `"crash"` not in `Faults`), no object is left without a task;
  `LateUpload` says what an upload in its last steps has already inserted.

**One request at a time** (also in `TaskGatewayProofs`, at most one handler).

* `SerialGatewayImplementsTaskStatus`: `Spec => AbstractSpec`. The invariant `Fresh` says
  that what a request read is still what the row says. With two handlers it fails
  (section 5: a completed task reopened).
* `SerialResourcesAgree`: `[]ResourceAgrees`, when the resource update does not fail and
  the gateway does not die between the two writes of a report (`"resource"`, `"crash"` not
  in `Faults`). `AgreeInv` says that a resource follows its only task except between these
  two writes, that a resource without a task is still uploading (a task created later for
  it starts from there), and what the request under way has already written.

**Pipeline with every fault** (`TaskPipelineProofs`).

* `PipelineTypeCorrect`, `PipelineImplementsGateway`: every step of the composition is a
  step of the gateway or none, so that `PipelineRows` follows from the theorems above.
* `ResultsProduced`, `FailuresReal`: `ProvenanceInv` follows a report from the run that
  made it true through the call, the late bag and the handler to the row.

**Pipeline up to its first fault** (also in `TaskPipelineProofs`). `Orderly` says: no failing
statement the handlers depend on, no retry while another is being answered; task bodies may
fail in every way, and any network or worker fault may happen.

* `TasksNotLeftBehind`, `ResultsCurrent`: until the first fault (`faults = 0`, as in the
  properties). `ReliablePipelineImplementsTaskStatus` and `CompletedStaysCompleted`, which
  speak of whole behaviours, assume none (`NetFaults = {}`). All with any number of
  concurrent requests and workers.
* A report carries no run identity and a row is written without a lock, so all of it rests
  on one fact, `Exclusive`: of the requests about to dispatch a task, the messages queued
  for it and the processes at work on it there is at most one, and as long as the task is
  not terminal exactly one (`Driven`). `ReliableInv` adds what this party knows of the row
  (`QueueOK`, `MainOK`) and which handler serves which call (`ServingInv`). The conditions
  are needed: a lost report, a failed statement or a second retry puts a second party at
  work.

**Task events** (`TaskEventsProofs`): `EventsTypeCorrect`, `SubscriptionsAlwaysSound`, which is
inductive together with the types once the subscriber list is known to be finite.

**Chat** (`ChatProofs`).

* `AnswersSaved`, `AnswersFollowQuestions`: `RowsInv` says which of a request's two rows its
  goroutines' places allow, for each request by itself, whatever the others do.
* `ShownCollected`: `Flow` says of an answer that the parts the page has, those in the
  socket and those in the channel are, put together, what `stream` has collected, until the
  response ends; `PageInv` says which messages the next event would reach and that the one
  a poll would fill is empty. A page that was asked before its list had loaded is excepted
  (`hasty`), as in the property: there the list replaces what was being shown.

**Answering** (`AnswerServiceProofs`), with the agent and the plain service on one
conversation, for anything the model, the stores, the web search and the memory do.

* `ResponsesWellFormed`: `StreamInv` ties a response to its generator's place: no end before
  the last labels, a node open while its text comes, the text collected equal to the text
  streamed, the citations sent the first of those the answer has. `WellAppend` says which
  event may follow which; every action is shown to emit such events only.
* `CitationsAlwaysGrounded`: `CitationFacts` (what `build_citations` returns for any text,
  repeated and out-of-range markers included) with `Grounded`.
* `RememberedTurnsShown`, `TurnsRemembered`: `MemoryInv` says that only a request that is
  through has a turn in memory and that an agent that says done has one, unless the memory
  failed it.
* `ContractKept`: `Spec => Contract!StreamSafety`, the safety half of `StreamContract`: every
  step writes to an open response, closes it, or changes nothing the gateway sees.

**Knowledge base** (`KnowledgeBaseProofs`), for any documents, numbers of indexing jobs and
searches, scores, limits, cache size and outages; `KnowledgeBaseTypeCorrect` and all the other
invariants of the run `search`.

* `IndexIdempotent`, `OutageHarmless`: from `IndexInv`. A job past its preparation has chunks
  to write (`Prepared`) and what the collection has of its resource is its owner's, so that
  the delete, which filters by both, misses nothing (`Owned`). While the jobs of a resource
  do not overlap (`Serial`), one is active at most, nothing is left between its delete and
  its upsert, and the collection matches the last writer unless a job is still to come.
  `IndexMatchesDocument` alone is not inductive: it says nothing of a job in the middle.
  `Searchable` excepts a resource only between a delete and its upsert in the same store;
  a job with a private store deletes from that one.
* `ScopeAlwaysEnforced`, `DegradedAlwaysMarked`, `AnsweredWithoutFaults`,
  `RetrievedAlwaysRanked`: from `SearchInv`, which says of each request by itself (`Fine`)
  what it may have found and concluded at its label, whatever store and cache have become in
  between: a cached index may hold foreign or outdated documents, so the scope of what is
  found rests on the filter behind BM25 and on that of the store, not on the cache.
  `RetrievedAlwaysRanked` is about the scores hits carry (`HitScore`); that they rank by
  relevance is not claimed (section 5).
* The bound of the cache is not inductive as a bound of its length: two requests may have
  inserted before either evicts. `Bounded` counts the entries of no request that has still
  to evict (`Settled`); a request leaves `Entering` only by a test that found the whole
  cache within its bound.
* The lemmas of `ArrangementProofs` say what `Ordered`, `Arranged` and `Picked` return (a
  permutation of the positions, sorted; proved from the cardinalities of initial segments).
  From them follows what sorting, deduplication, fusion, truncation and compression keep: the
  scope, the order, the distinctness, the limits.

**Processing** (`ProcessingProofs`), for any recording or document, configuration, replies of
the models, failures and number of lost workers. `ProcessingInvariant` follows every job from
label to label; both theorems rest on it.

* `TranscriptsCleaned`: `[]CleanedThroughout`. `ParseInv` says which kind of resource a label
  belongs to, what was recognised there and that from `store` on its segments are `WellCleaned`.
  That `clean` returns such segments is `CleanFacts`: positions are kept when batches are cut
  and put together again (`BatchFacts`, `LlmCleanFacts`), and the rules leave no filler word
  (`RuleCleanFacts`).
* `ResultsSaved`: `[]DoneIsSaved`. The property is not inductive: it speaks of jobs that are
  over only. `SaveInv` adds that a job about to save or post has a draft and, without an
  overlap of two summary jobs, that at most one of them is at work, that the object of a job
  about to post is its draft (nobody has replaced it) and that a row whose jobs are over is
  the one posted last. With an overlap row and object may differ (section 5). For the tags,
  `NormalizeFacts` says that no two of `normalize` are the same after merging synonyms,
  `TagsInv` carries it to the row, half written or not (`PostedFacts`).

**Only model-checked.** Liveness and everything under fairness (`StreamContract`'s second
half, `JobsEnd`, `InputReturns` and the other temporal properties): out of the prover's reach.
`ContentSearchable`, `SubtitlesFaithful` and `SummaryReadsAll` of `Processing` say what
computations over a text of any length return (chunks, merged blocks, windows, sections: folds
and recursive functions), which takes induction over data; TLC checks them for every scenario
of `processing`. `TypeOK` of `Chat` bounds what the AI service sends (`MaxParts`); the proofs
use `ServerTypes` and `ClientTypes`, which do not need the bound.

## 5. Findings

Three disagreements between the code and its documents are runs that must be violated
(`events_panic`, `index_pages`, `pipeline_retries`); `PROJECT.json` quotes the lines on both
sides. The third one also costs the error message: what the row keeps is the text of the
`AttributeError`, not that of the error of the parser. `run_asr` would not retry with a right
test either: it catches `ModelLoadError` only, which `AsrService.process` wraps in
`AsrProcessingError`.

Five more have no run of their own; the formulas are in the modules, and these bounds
bring the violations about:

* `_distance_to_score` (`milvus_store.py:379-393`) takes what Milvus returns for a distance
  "where smaller is better for every metric type"; for COSINE and IP it is the similarity.
  The score of a hit falls as its similarity grows: wherever the code sorts or filters by
  score the least relevant hits win. `PRD_S3-4` AC-5
  (line 37) says "上下文组装按相关性排序". No test of the store looks at a score.
  (`MostRelevantFirst` of `KnowledgeBase`, the bounds of `search`.)
* A stream reads the row before it subscribes (`task_sse_handler.go:37`, `59`): an event
  published in between is lost, and the stream of a task that has ended stays open.
  `PRD_S1-7` line 167 says "任务状态从 running 变为 completed/failed 后，发送 done/error 事件并关闭该任务的所有
  SSE 连接". (`EndedTaskEndsStream` of `TaskEvents`, the bounds of `events` with
  `Hangups = {}`; a terminal event dropped at a full buffer does the same.)
* Two overlapping retries both pass the status and cooldown checks
  (`task_service.go:226-232`) and dispatch; a running report of one run, read before and
  written after the completed report of the other, reopens the completed task.
  `TEST_S1-5_task_status_api.md:54` says "completed 不能转回 running".
  (`CompletedNotReopened`, the bounds of `pipeline_retries` with `UserOverlap = TRUE` and
  three runs.)
* `_matchesTarget` (`chat_provider.dart:218`) takes every assistant message without an id
  for the target of an event: the message of a question cancelled before its first event
  takes the parts of the next answer. `TEST_S3-7_flutter_chat_page.md:29` says "SSE 订阅取消，停止更新".
  (`StoppedNotUpdated`, two parts, no reconnection, two turns, no faults.)
* A reconnection POSTs the question again, although the gateway may have stored it
  (`chat_sse_client_default.dart:172`, `qa_service.go:108`). `PRD_S5-6` AC-5 (line 36) says
  "重试仅用于幂等或明确安全的操作，避免重复写入". (`QuestionStoredOnce`, the bounds of `chat_faults`.)

Smaller ones: the upload roll-back does not mark the resource failed
(`PRD_S1-3` line 101, `file_service.go:160`); two overlapping retries both pass the
cooldown (`TEST_S2-8` line 41, `task_service.go:230`); `flushEvent` drops events when its channel is full, so
a saved answer may have holes (`PRD_S3-6` line 122 asks for the complete answer); a
broken answer body is not reconnected (`PRD_S3-6` line 39,
`chat_sse_client_default.dart:151`); the context window takes the oldest messages
(`message_repository.go:44`, `PRD_S3-8` line 120 says the latest); polling may show the
previous answer as the new one; a list that arrives after a question was sent replaces
its messages (`chat_provider.dart:74`).

Of the AI service:

* Answering. When a stream has no text, `runner.py:155` puts the fallback message into the
  draft only: it is remembered and never streamed, while
  `TECH_S4-4_langgraph_agent_workflow.md:428` asks for it as the answer. `validate_node`
  sees no citations (they are built after it), so that the agent never retrieves a second
  time. `SlidingWindowRateLimiter.acquire` (`web_search_tool.py:48-56`) checks and counts
  without a lock, so that two requests may exceed the limit together.
* Retrieval. `hybrid_retrieval_service.py:319` raises an `APIException` of the vector path
  where `TECH_S4-7_hybrid_retrieval_rerank.md:351-352` asks for BM25 alone. The BM25 cache is
  not invalidated when a resource is indexed again. An entry evicted between its test and
  its use (331-333, or between 339 and 340) raises a `KeyError`, which is caught and makes
  the answer degraded.
  `score_threshold` is compared with RRF scores when the reranker fails (255). The query
  limit of Milvus truncates `bm25_max_docs` (`milvus_store.py:125`).
* Indexing. A worker that cannot reach Milvus indexes into a private store in memory and
  reports success (`factory.py:33-42`); a document without chunks keeps its old vectors
  (`vector_index_service.py:138`); overlapping jobs of a resource may mix two versions.
* Chunking. `_split_chars` cuts by characters, so that a chunk may exceed the token limit;
  `FixedTokenChunker` drops a character that alone has more tokens than a chunk.
* Summaries. The task ids `sum-<uuid>` are unknown to the gateway, whose 404 is swallowed;
  an automatic and a manual summary at the same time may leave row and object of different
  versions; an upload whose POST fails leaves an object without its row, and nothing tries
  again; an empty summary is refused with 400. The tags and the entities of a resource are
  written in two transactions (`extraction_service.go:109-116`) and may be of two versions. A page of −1 in a table of contents makes
  `split_pdf` slice from the end (`section_splitter.py:22-24`).
* OCR progress reaches 100 and begins again (`pdf_parser_service.py:162-166`).
* The client numbers the markers of an answer again for every citation event, on text that
  has been numbered already (`chat_provider.dart:211`).

## 6. Plan

1. Done: the task pipeline, events and chat, and of the AI service answering, the knowledge
   base and processing; the proofs above.
2. Left to prove: what the text algorithms compute for texts of any length (chunks cover
   the text, subtitles show the transcript, windows reach its end), once a prover does
   induction over recursive functions.
3. Left to model: sessions and token rotation, the rate limiter of the API, the context
   window, the client's task follower and paging.

### Not modelled

Authentication, the API's rate limiter and the client's other providers share no state
with what is modelled: a request here is one that was let through. Evaluation scripts,
logging, metrics, configuration loading, deployment files and screens have no state that a
property of the system is about. The computations of third-party models and libraries are
inputs.
