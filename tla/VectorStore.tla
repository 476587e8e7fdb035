---------------------------- MODULE VectorStore ----------------------------
(***************************************************************************)
(* The vector store (Milvus) and the embedding service in front of it.     *)
(*                                                                         *)
(* A record is one chunk of a resource.  A text is a number; how well it   *)
(* answers the question is given by two constants: Score, the cosine of    *)
(* the vectors in hundredths, and Bm25Score (0: no common word).  Earlier  *)
(* holds the records of documents indexed before.                          *)
(***************************************************************************)
EXTENDS Arrangement, SequencesExt

CONSTANTS Resource, User, Text, Score, Bm25Score, top_k_limit, Earlier, MaxFaults

(* VectorRecord, without the vector.                                       *)
Chunk == [resource : Resource, index : Nat, user : User, text : Text]

ASSUME StoreAssumption ==
    /\ Score \in [Text -> -100..100]
    /\ Bm25Score \in [Text -> Nat]
    /\ top_k_limit \in Nat \ {0}
    /\ MaxFaults \in Nat
    /\ Earlier \in SUBSET Chunk

VARIABLES
    store,    \* the records of the collection
    faults,   \* how many operations have failed
    trouble   \* the kinds of these failures

(* BaseChunker._make_chunk and VectorRecord: the primary key is made of    *)
(* the resource and the index of the chunk.                                *)
Record(resource, index, user, text) ==
    [resource |-> resource, index |-> index, user |-> user, text |-> text]
id(record) == <<record.resource, record.index>>

(* The places of a batch are pairs of a page and a position on it, and the *)
(* batch goes through them page after page.                                *)
Later(b, a) == b[1] > a[1] \/ (b[1] = a[1] /\ b[2] > a[2])

(* MilvusStore.upsert: a record replaces the one with its key, within the  *)
(* batch too.                                                              *)
Upserted(records, batch) ==
    LET places == DOMAIN batch
        last == {a \in places : \A b \in places : Later(b, a) => id(batch[b]) # id(batch[a])}
    IN  {r \in records : \A a \in places : id(batch[a]) # id(r)} \cup {batch[a] : a \in last}

(* Mutant: nothing is deleted before the new version is written.           *)
Kept_All(records, resource, user) == records

(* MilvusStore.delete_by_resource, with the user the callers always name.  *)
Kept(records, resource, user) ==
    {r \in records : r.resource # resource \/ r.user # user}

(* The best records of a set, best first: any ranking that is sorted and   *)
(* leaves out nothing better.  Equal ones come in any order.               *)
Best(records, score, limit) ==
    {hits \in UNION {[1..n -> records] : n \in 0..limit} :
        /\ \A i, k \in DOMAIN hits : i < k =>
              hits[i] # hits[k] /\ score[hits[i].text] >= score[hits[k].text]
        /\ \A r \in records \ {hits[i] : i \in DOMAIN hits} :
              Len(hits) = limit /\ \A i \in DOMAIN hits : score[hits[i].text] >= score[r.text]}

(* Mutant: the scope is that of the resources alone.                       *)
search_filter_AnyUser(record, user, resources) == record.resource \in resources

(* _search_filter and _resource_id_filter.                                 *)
search_filter(record, user, resources) ==
    record.resource \in resources /\ record.user = user

(* _distance_to_score for COSINE, the default metric.                      *)
distance_to_score(distance) == 100 - distance

(* _hit_to_result: the score a hit carries.  What Milvus reports as the    *)
(* distance under this metric is the cosine itself, larger for the nearer. *)
HitScore == [t \in Text |-> distance_to_score(Score[t])]

(* MilvusStore.search: the nearest records in the scope, nearest first,    *)
(* never more than the store's own limit.                                  *)
search(records, user, resources, top_k) ==
    Best({r \in records : search_filter(r, user, resources)}, Score,
         IF top_k < top_k_limit THEN top_k ELSE top_k_limit)

(* MilvusStore.query, ChromaStore.query: some records in the scope, at most*)
(* the store's limit even when the caller allows more.                     *)
query(records, user, resources, max_docs) ==
    LET scope == {r \in records : search_filter(r, user, resources)}
        limit == IF max_docs < top_k_limit THEN max_docs ELSE top_k_limit
    IN  {s \in SUBSET scope :
            Cardinality(s) = IF Cardinality(scope) > limit THEN limit ELSE Cardinality(scope)}

(* _with_retry and _embed_batch: the attempts of one operation are one step*)
(* of the model, which either succeeds or fails after all of them.  A      *)
(* failed write may have reached the server.                               *)
Works == UNCHANGED <<faults, trouble>>
Fails(kind) ==
    /\ faults < MaxFaults
    /\ faults' = faults + 1
    /\ trouble' = trouble \cup {kind}
=============================================================================
