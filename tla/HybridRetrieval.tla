-------------------------- MODULE HybridRetrieval --------------------------
(***************************************************************************)
(* The two ways to find context for a question: RetrievalService.retrieve  *)
(* (vectors only, also as the LlamaIndex engine) and                       *)
(* HybridRetrievalService.retrieve (BM25 and vectors, fused and reranked). *)
(* Requests run on threads of one process and share the cache of BM25      *)
(* indexes; every call of the store is a step of its own.                  *)
(***************************************************************************)
EXTENDS VectorStore, FiniteSetsExt

CONSTANTS
    Search,            \* the requests
    Requests,          \* what they may ask: user, resources and parameters
    ResourceOrder,     \* the resource ids, in the order requests name them
    EarlierIndexes,    \* the BM25 indexes earlier requests left in the cache
    cache_max_entries, \* bm25_cache_max_entries
    rrf_k,
    Tokens,            \* the token count of a text
    max_context_tokens

ASSUME SearchAssumption ==
    /\ IsFiniteSet(Search)
    /\ \A q \in Requests, s \in Search :
          /\ q[s].kind \in {"legacy", "llamaindex", "hybrid"}
          /\ q[s].user \in User
          /\ q[s].resources \subseteq ToSet(ResourceOrder)
          /\ q[s].top_k \in Nat \ {0} /\ q[s].rerank_top_n \in Nat \ {0}
          /\ q[s].max_docs \in Nat /\ q[s].score_threshold \in Nat
    /\ ResourceOrder \in Seq(Resource)
    /\ cache_max_entries \in Nat /\ Len(EarlierIndexes) <= cache_max_entries
    /\ EarlierIndexes \in Seq([key : User \X SUBSET Resource, docs : SUBSET Chunk])
    /\ rrf_k \in Nat
    /\ Tokens \in [Text -> Nat] /\ max_context_tokens \in Nat

VARIABLES
    request,   \* what each asks
    spc,       \* where a request is
    found,     \* what it has found so far: bm25 and vector hits, failures
    result,    \* its answer
    cache      \* _bm25_cache: indexes from the least to the most recently used

searchVars == <<request, spc, found, result, cache>>

NothingFound == [docs |-> {}, bm25 |-> <<>>, bm25_failed |-> FALSE,
                 vector |-> <<>>, vector_failed |-> FALSE, asked |-> 0]
NoResult == [chunks |-> <<>>, degraded |-> FALSE, tokens |-> 0]

SearchInit ==
    /\ request \in Requests
    /\ spc = [s \in Search |-> "new"]
    /\ found = [s \in Search |-> NothingFound]
    /\ result = [s \in Search |-> NoResult]
    /\ cache = EarlierIndexes

-----------------------------------------------------------------------------
(* Vectors only *)

Multi(s) == Cardinality(request[s].resources) > 1

Raised(s, error) ==
    /\ spc' = [spc EXCEPT ![s] = error]
    /\ UNCHANGED <<found, result>>

(* A request over several resources looks at more candidates than it wants.*)
candidate_top_k(s) ==
    LET top_k == request[s].top_k
        n == Cardinality(request[s].resources)
    IN  IF n <= 1 THEN top_k ELSE Min({Max({top_k * 8, top_k + n}), 100})

(* Embedding the question and the first search.                            *)
Retrieve(s) ==
    LET q == request[s]
    IN  /\ spc[s] = "new" /\ q.kind \in {"legacy", "llamaindex"}
        /\ \/ /\ \E hits \in search(store, q.user, q.resources, candidate_top_k(s)) :
                    found' = [found EXCEPT ![s].vector = hits]
              /\ spc' = [spc EXCEPT ![s] = IF Multi(s) THEN "each" ELSE "rank"]
              /\ Works /\ UNCHANGED result
           \/ /\ \E kind \in {"embedding", "search"} : Fails(kind)
              /\ Raised(s, "unavailable")
        /\ UNCHANGED <<store, cache>>

(* The resources of a request, in the order it names them.                 *)
Named(s) == Picked(ResourceOrder,
                   {i \in DOMAIN ResourceOrder : ResourceOrder[i] \in request[s].resources})

(* _search_per_resource_candidates: the best chunk of each resource.       *)
SearchNextResource(s) ==
    LET q == request[s]
        next == found[s].asked + 1
    IN  /\ spc[s] = "each"
        /\ \/ /\ \E hits \in search(store, q.user, {Named(s)[next]}, 1) :
                    found' = [found EXCEPT ![s].vector = @ \o hits, ![s].asked = next]
              /\ spc' = [spc EXCEPT ![s] = IF next = Len(Named(s)) THEN "rank" ELSE "each"]
              /\ Works /\ UNCHANGED result
           \/ Fails("search") /\ Raised(s, "unavailable")
        /\ UNCHANGED <<store, cache>>

(* sorted(..., reverse=True) by the points of the texts; it is stable.     *)
ByScore(hits, points) ==
    LET S(i) == points[hits[i].text]
        before == {p \in (DOMAIN hits) \X (DOMAIN hits) :
                      S(p[1]) > S(p[2]) \/ (S(p[1]) = S(p[2]) /\ p[1] < p[2])}
    IN  Arranged(hits, DOMAIN hits, before)

(* Mutant: duplicates are kept.                                            *)
Deduplicated_None(hits) == hits

(* _deduplicate_similar_chunks: the same text is kept once.                *)
Deduplicated(hits) ==
    Picked(hits, {i \in DOMAIN hits : \A k \in 1..(i - 1) : hits[k].text # hits[i].text})

InScope(hits, s) ==
    \A i \in DOMAIN hits : /\ hits[i].user = request[s].user
                           /\ hits[i].resource \in request[s].resources

(* _compress_context: in the order of relevance until the budget is spent; *)
(* the first chunk is kept even when it exceeds it.                        *)
TokenSum(hits) ==
    LET total[n \in 0..Len(hits)] ==
            IF n = 0 THEN 0 ELSE total[n - 1] + Tokens[hits[n].text]
    IN  total[Len(hits)]
compress_context(hits) ==
    LET Fits(n) == n <= 1 \/ TokenSum(SubSeq(hits, 1, n)) <= max_context_tokens
        first == {n \in 0..Len(hits) : \A m \in 1..n : Fits(m)}
    IN  SubSeq(hits, 1, Max(first))

(* LlamaIndexRetrievalEngine.retrieve tests the scope of all candidates,   *)
(* the legacy service that of the ones it keeps.                           *)
Tested(s, candidates, kept) ==
    IF request[s].kind = "llamaindex" THEN candidates ELSE kept

(* The rest of retrieve.                                                   *)
Rank(s) ==
    LET q == request[s]
        sorted == ByScore(found[s].vector, HitScore)
        deduped == IF Multi(s) THEN Deduplicated(sorted) ELSE sorted
        relevant == {i \in DOMAIN deduped : HitScore[deduped[i].text] >= q.score_threshold}
        kept == Truncated(Picked(deduped, relevant), q.top_k)
        chunks == compress_context(kept)
    IN  /\ spc[s] = "rank"
        /\ IF InScope(Tested(s, sorted, kept), s)
             THEN /\ spc' = [spc EXCEPT ![s] = "answered"]
                  /\ result' = [result EXCEPT ![s] =
                        [chunks |-> chunks, degraded |-> FALSE, tokens |-> TokenSum(chunks)]]
                  /\ UNCHANGED found
             ELSE Raised(s, "forbidden")
        /\ Works /\ UNCHANGED <<store, cache>>

-----------------------------------------------------------------------------
(* BM25 and vectors *)

cache_key(s) == <<request[s].user, request[s].resources>>

Cached(key) == \E i \in DOMAIN cache : cache[i].key = key
Entry(key) == cache[CHOOSE i \in DOMAIN cache : cache[i].key = key]
Without(key) == Picked(cache, {i \in DOMAIN cache : cache[i].key # key})

(* BM25Store.search: the best rerank_top_n of the whole corpus, then only  *)
(* those with a common word and in the scope.                              *)
bm25_search(docs, s) ==
    LET q == request[s]
        Matches(d) == Bm25Score[d.text] > 0 /\ search_filter(d, q.user, q.resources)
    IN  {Picked(top, {i \in DOMAIN top : Matches(top[i])}) :
            top \in Best(docs, Bm25Score, q.rerank_top_n)}

Bm25Hits(s, docs) ==
    /\ \E hits \in bm25_search(docs, s) :
          found' = [found EXCEPT ![s].bm25 = hits, ![s].docs = {}]
    /\ spc' = [spc EXCEPT ![s] = "vector"]
    /\ UNCHANGED result

(* except Exception: the path has failed and the other one goes on alone.  *)
Bm25Failed(s) ==
    /\ found' = [found EXCEPT ![s].bm25_failed = TRUE, ![s].docs = {}]
    /\ spc' = [spc EXCEPT ![s] = "vector"]
    /\ UNCHANGED result

(* _get_or_build_bm25: the test of the cache ...                           *)
LookUp(s) ==
    /\ spc[s] = "new" /\ request[s].kind = "hybrid"
    /\ spc' = [spc EXCEPT ![s] = IF Cached(cache_key(s)) THEN "hit" ELSE "load"]
    /\ Works /\ UNCHANGED <<store, found, result, cache>>

(* Mutant: the missing entry ends the request.                             *)
UseCached_Raises(s) ==
    LET key == cache_key(s)
    IN  /\ spc[s] = "hit"
        /\ IF Cached(key)
             THEN /\ Bm25Hits(s, Entry(key).docs)
                  /\ cache' = Append(Without(key), Entry(key))
             ELSE Raised(s, "unavailable") /\ UNCHANGED cache
        /\ Works /\ UNCHANGED store

(* ... the use of the entry, which another thread may have evicted by then *)
(* (move_to_end raises KeyError) ...                                       *)
UseCached(s) ==
    LET key == cache_key(s)
    IN  /\ spc[s] = "hit"
        /\ IF Cached(key)
             THEN /\ Bm25Hits(s, Entry(key).docs)
                  /\ cache' = Append(Without(key), Entry(key))
             ELSE Bm25Failed(s) /\ UNCHANGED cache
        /\ Works /\ UNCHANGED store

(* ... or loading the corpus and building the index.  The store's own      *)
(* error is an APIException and is raised; any other failure is contained. *)
Load(s) ==
    LET q == request[s]
    IN  /\ spc[s] = "load"
        /\ \/ /\ \E docs \in query(store, q.user, q.resources, q.max_docs) :
                    found' = [found EXCEPT ![s].docs = docs]
              /\ spc' = [spc EXCEPT ![s] = "built"]
              /\ Works /\ UNCHANGED result
           \/ Fails("search") /\ Raised(s, "unavailable")
           \/ Fails("tokenizer") /\ Bm25Failed(s)
        /\ UNCHANGED <<store, cache>>

(* The new index enters the cache, in the place of one another thread may  *)
(* have put there meanwhile ...                                            *)
Insert(s) ==
    LET key == cache_key(s)
        entry == [key |-> key, docs |-> found[s].docs]
    IN  /\ spc[s] = "built"
        /\ cache' = IF Cached(key)
                      THEN [i \in DOMAIN cache |-> IF cache[i].key = key THEN entry ELSE cache[i]]
                      ELSE Append(cache, entry)
        /\ spc' = [spc EXCEPT ![s] = "stored"]
        /\ Works /\ UNCHANGED <<store, found, result>>

(* ... becomes the most recently used one (KeyError if it was evicted) ... *)
Promote(s) ==
    LET key == cache_key(s)
    IN  /\ spc[s] = "stored"
        /\ IF Cached(key)
             THEN /\ cache' = Append(Without(key), Entry(key))
                  /\ spc' = [spc EXCEPT ![s] = "evict"]
                  /\ UNCHANGED <<found, result>>
             ELSE Bm25Failed(s) /\ UNCHANGED cache
        /\ Works /\ UNCHANGED store

(* Mutant: one entry too many.                                             *)
Crowded_Late(entries) == Len(entries) > cache_max_entries + 1

(* ... and as long as there are too many entries ...                       *)
Crowded(entries) == Len(entries) > cache_max_entries

EvictTest(s) ==
    /\ spc[s] = "evict"
    /\ IF Crowded(cache)
         THEN spc' = [spc EXCEPT ![s] = "pop"] /\ UNCHANGED <<found, result>>
         ELSE Bm25Hits(s, found[s].docs)
    /\ Works /\ UNCHANGED <<store, cache>>

(* ... the least recently used one leaves (KeyError if other threads have  *)
(* emptied the cache since the test).                                      *)
Evict(s) ==
    /\ spc[s] = "pop"
    /\ IF cache # <<>>
         THEN /\ cache' = Tail(cache)
              /\ spc' = [spc EXCEPT ![s] = "evict"]
              /\ UNCHANGED <<found, result>>
         ELSE Bm25Failed(s) /\ UNCHANGED cache
    /\ Works /\ UNCHANGED store

(* _vector_retrieve: the errors of the embedding service and of the store  *)
(* are APIExceptions too; what is left to contain is a malformed hit.      *)
VectorSearch(s) ==
    LET q == request[s]
    IN  /\ spc[s] = "vector"
        /\ \/ /\ \E hits \in search(store, q.user, q.resources, q.rerank_top_n) :
                    found' = [found EXCEPT ![s].vector = hits]
              /\ spc' = [spc EXCEPT ![s] = "fuse"]
              /\ Works /\ UNCHANGED result
           \/ /\ \E kind \in {"embedding", "search"} : Fails(kind)
              /\ Raised(s, "unavailable")
           \/ /\ Fails("malformed")
              /\ found' = [found EXCEPT ![s].vector_failed = TRUE]
              /\ spc' = [spc EXCEPT ![s] = "fuse"]
              /\ UNCHANGED result
        /\ UNCHANGED <<store, cache>>

(* A number that the denominators of the first ranks divide.               *)
Scale == (rrf_k + 1) * (rrf_k + 2) * (rrf_k + 3) * (rrf_k + 4) * (rrf_k + 5) * (rrf_k + 6)

(* reciprocal_rank_fusion: one entry for each chunk id, carried by the     *)
(* first hit with it (a BM25 hit before a vector hit), best score first.   *)
(* Scores are in hundredths, the unit of the constant Score.               *)
RankShare(hits, key) ==
    LET ranks == {i \in DOMAIN hits : id(hits[i]) = key}
    IN  IF ranks = {} THEN 0 ELSE Scale \div (rrf_k + Min(ranks))
Fused(bm25, vector, key) == RankShare(bm25, key) + RankShare(vector, key)
reciprocal_rank_fusion(bm25, vector) ==
    LET all == bm25 \o vector
        carriers == {i \in DOMAIN all : \A k \in 1..(i - 1) : id(all[k]) # id(all[i])}
        P(i) == Fused(bm25, vector, id(all[i]))
        before == {p \in carriers \X carriers :
                      P(p[1]) > P(p[2]) \/ (P(p[1]) = P(p[2]) /\ p[1] < p[2])}
    IN  Arranged(all, carriers, before)

(* Reranker.rerank: the cross-encoder's order of the candidates (its scores*)
(* are the similarities here), cut to top_n.                               *)
rerank(candidates, top_n) == Truncated(ByScore(candidates, Score), top_n)

(* Mutant: the answer forgets that it is degraded.                         *)
Finish_Unmarked(s, chunks, points, degraded) ==
    /\ spc' = [spc EXCEPT ![s] = "answered"]
    /\ result' = [result EXCEPT ![s] = [chunks |-> chunks, degraded |-> FALSE, tokens |-> 0]]
    /\ UNCHANGED found

(* _finalize_result: a chunk out of scope is an error, one below the       *)
(* threshold is dropped.  The score a chunk carries is that of the stage   *)
(* it comes from.                                                          *)
Finish(s, chunks, points, degraded) ==
    IF InScope(chunks, s)
      THEN /\ spc' = [spc EXCEPT ![s] = "answered"]
           /\ result' = [result EXCEPT ![s] =
                 [chunks |-> Picked(chunks, {i \in DOMAIN chunks :
                                               points[chunks[i]] >= request[s].score_threshold}),
                  degraded |-> degraded, tokens |-> 0]]
           /\ UNCHANGED found
      ELSE Raised(s, "forbidden")

(* The rest of retrieve: fusion, then the reranker, its failure, or the    *)
(* overall timeout, which leaves the vectors alone if there are any.       *)
Fuse(s) ==
    LET q == request[s]
        f == found[s]
        degraded == f.bm25_failed \/ f.vector_failed
        fused == Truncated(reciprocal_rank_fusion(f.bm25, f.vector), q.rerank_top_n)
        hits == ToSet(f.bm25 \o f.vector)
        Reranked == [c \in hits |-> Score[c.text]]
        Carried == [c \in hits |-> HitScore[c.text]]
        Rrf == [c \in hits |-> (100 * Fused(f.bm25, f.vector, id(c))) \div Scale]
    IN  /\ spc[s] = "fuse"
        /\ \/ /\ f.bm25_failed /\ f.vector_failed
              /\ Raised(s, "unavailable") /\ Works
           \/ /\ ~(f.bm25_failed /\ f.vector_failed)
              /\ fused = <<>>
              /\ Finish(s, <<>>, Carried, degraded) /\ Works
           \/ /\ fused # <<>>
              /\ Finish(s, rerank(fused, q.top_k), Reranked, degraded) /\ Works
           \/ /\ fused # <<>>
              /\ Finish(s, Truncated(fused, q.top_k), Rrf, TRUE) /\ Fails("reranker")
           \/ /\ fused # <<>>
              /\ IF f.vector # <<>>
                   THEN Finish(s, Truncated(f.vector, q.top_k), Carried, TRUE)
                   ELSE Finish(s, Truncated(fused, q.top_k), Rrf, TRUE)
              /\ Fails("timeout")
        /\ UNCHANGED <<store, cache>>

SearchStep(s) ==
    \/ Retrieve(s) \/ SearchNextResource(s) \/ Rank(s)
    \/ LookUp(s) \/ UseCached(s) \/ Load(s)
    \/ Insert(s) \/ Promote(s) \/ EvictTest(s) \/ Evict(s)
    \/ VectorSearch(s) \/ Fuse(s)
=============================================================================
