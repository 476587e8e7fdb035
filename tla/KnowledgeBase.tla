--------------------------- MODULE KnowledgeBase ---------------------------
(***************************************************************************)
(* Indexing jobs and searches over one vector store: what a search sees    *)
(* while documents are indexed, indexed again, or fail to be.              *)
(***************************************************************************)
EXTENDS VectorIndexing, HybridRetrieval

vars == <<store, faults, trouble, indexVars, searchVars>>

Init ==
    /\ store = Earlier /\ faults = 0 /\ trouble = {}
    /\ IndexInit
    /\ SearchInit

Next ==
    \/ \E j \in Job : IndexStep(j) /\ UNCHANGED <<document, searchVars>>
    \/ \E s \in Search : SearchStep(s) /\ UNCHANGED <<request, indexVars>>

Spec == Init /\ [][Next]_vars

-----------------------------------------------------------------------------
Vectors(r) == {v \in store : v.resource = r}
Indexing(r) == \E j \in Job : document[j].resource = r /\ jpc[j] \in Active \cup {"queued"}
Ended == {"answered", "unavailable", "forbidden"}

(* The keys of _bm25_cache that no request is still entering.              *)
Entering == {s \in Search : spc[s] \in {"stored", "evict", "pop"}}
Settled == {cache[i].key : i \in DOMAIN cache} \ {cache_key(s) : s \in Entering}

(* Types, and the bounds of what requests and jobs share: retries and the  *)
(* entries of the BM25 cache, which several threads fill and evict from:   *)
(* however they interleave, no entry stays beyond the limit.               *)
TypeOK ==
    /\ store \in SUBSET Chunk
    /\ faults \in 0..MaxFaults
    /\ jpc \in [Job -> Active \cup {"queued", "done", "failed"}]
    /\ attempts \in [Job -> 0..MaxRetries]
    /\ spc \in [Search -> Ended \cup {"new", "each", "rank", "hit", "load", "built",
                                      "stored", "evict", "pop", "vector", "fuse"}]
    /\ cache \in Seq([key : User \X SUBSET Resource, docs : SUBSET Chunk])
    /\ Cardinality(Settled) <= cache_max_entries

(* The indexing task promises to be idempotent: whatever failed, was tried *)
(* again or delivered again on the way, once the jobs of a resource are    *)
(* over the store holds exactly what the last of them wrote, nothing of an *)
(* earlier version (unless two of them ran at the same time, or one gave up*)
(* or worked on a store of its own).                                       *)
IndexMatchesDocument ==
    \A r \in Resource :
        /\ r \notin overlap /\ ~Indexing(r)
        /\ \A j \in Job : document[j].resource = r => jpc[j] = "done" /\ target[j] = "milvus"
        => \A j \in writer[r] : Vectors(r) = Upserted({}, Chunked(j))

(* Embeddings come before the delete: as long as the store itself works and*)
(* no worker is lost, a resource that was searchable stays so, except      *)
(* between the delete and the upsert of a job.                             *)
HarmlessOutage ==
    trouble \cap {"write", "worker"} = {} =>
        \A r \in Resource :
            writer[r] # {} /\ (\A j \in Job : document[j].resource = r => jpc[j] # "upsert")
                => Vectors(r) # {}

(* The filters of the store and of the BM25 index are complete: a search   *)
(* never has to refuse its own hits as out of scope (RetrievalForbidden is *)
(* a defence that does not fire), and returns none.                        *)
ScopeEnforced ==
    \A s \in Search : spc[s] # "forbidden" /\ InScope(result[s].chunks, s)

(* A hybrid answer that is not marked degraded was made from both paths and *)
(* reranked: nothing less may pass for a full answer.                      *)
DegradedIsMarked ==
    \A s \in Search :
        LET c == result[s].chunks IN
        request[s].kind = "hybrid" /\ spc[s] = "answered" /\ ~result[s].degraded
            => /\ ~found[s].bm25_failed /\ ~found[s].vector_failed
               /\ \A i, k \in DOMAIN c : i < k => Score[c[i].text] >= Score[c[k].text]

(* Without a failure of the store, the embedding service or the tokenizer  *)
(* every search answers, even when another thread evicts the BM25 index it *)
(* has just seen in the cache.                                             *)
AnswersWithoutFaults ==
    faults = 0 => \A s \in Search : spc[s] # "unavailable"

(* What the prompt is built from: chunks in descending order of the score  *)
(* they carry, none below the threshold, no text twice when several        *)
(* resources are searched, and within the budget of tokens unless a single *)
(* chunk exceeds it.                                                       *)
RetrievedRanked ==
    \A s \in Search :
        LET c == result[s].chunks IN
        request[s].kind # "hybrid" =>
            /\ \A i, k \in DOMAIN c : i < k =>
                  /\ HitScore[c[i].text] >= HitScore[c[k].text]
                  /\ Multi(s) => c[i].text # c[k].text
            /\ \A i \in DOMAIN c : HitScore[c[i].text] >= request[s].score_threshold
            /\ Len(c) <= request[s].top_k
            /\ result[s].tokens <= max_context_tokens \/ Len(c) = 1

(* PRD_S3-4 AC-5: the context is in the order of relevance.  Violated:     *)
(* _distance_to_score takes Milvus's cosine for a distance, so the score   *)
(* falls as the similarity grows; see README.                              *)
MostRelevantFirst ==
    \A s \in Search :
        LET c == result[s].chunks IN
        request[s].kind # "hybrid" =>
            \A i, k \in DOMAIN c : i < k => Score[c[i].text] >= Score[c[k].text]

-----------------------------------------------------------------------------
(* Every chunk of a document that was indexed can be found.  Chunk ids     *)
(* repeat from page to page, so a page replaces the one before it.         *)
EveryPageIndexed ==
    \A j \in Job :
        jpc[j] = "done" /\ j \in writer[document[j].resource] /\ ~Indexing(document[j].resource)
            => \A t \in UNION {ToSet(document[j].pages[p]) : p \in DOMAIN document[j].pages} :
                  \E v \in store : v.text = t
=============================================================================
