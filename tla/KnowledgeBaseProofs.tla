------------------------ MODULE KnowledgeBaseProofs ------------------------
(***************************************************************************)
(* Proofs about indexing and searching over one vector store               *)
(* (KnowledgeBase), for any documents, any requests, any number of jobs    *)
(* and searches at a time, any scores and any outages.                     *)
(***************************************************************************)
EXTENDS KnowledgeBase, ArrangementProofs

-----------------------------------------------------------------------------
(* RANKINGS OF CHUNKS                                                      *)

(* What the properties say of the chunks of an answer.                     *)
Sorted(c, points) == \A i, k \in DOMAIN c : i < k => points[c[i].text] >= points[c[k].text]
AtLeast(c, points, m) == \A i \in DOMAIN c : points[c[i].text] >= m
Distinct(c) == \A i, k \in DOMAIN c : i < k => c[i].text # c[k].text

LEMMA SubsequenceKeeps ==
    ASSUME NEW sub, NEW seq, Subsequence(sub, seq)
    PROVE  /\ \A points : Sorted(seq, points) => Sorted(sub, points)
           /\ \A points, m : AtLeast(seq, points, m) => AtLeast(sub, points, m)
           /\ Distinct(seq) => Distinct(sub)
           /\ \A s : InScope(seq, s) => InScope(sub, s)
<1>1. PICK o \in [DOMAIN sub -> DOMAIN seq] :
        /\ \A i \in DOMAIN sub : sub[i] = seq[o[i]]
        /\ \A i, k \in DOMAIN sub : i < k => o[i] < o[k]
  BY DEF Subsequence
<1>2. \A i \in DOMAIN sub : o[i] \in DOMAIN seq
  BY <1>1
<1>3. \A points : Sorted(seq, points) => Sorted(sub, points)
  BY <1>1, <1>2 DEF Sorted
<1>6. \A points, m : AtLeast(seq, points, m) => AtLeast(sub, points, m)
  BY <1>1, <1>2 DEF AtLeast
<1>4. Distinct(seq) => Distinct(sub)
  BY <1>1, <1>2 DEF Distinct
<1>5. \A s : InScope(seq, s) => InScope(sub, s)
  BY <1>1, <1>2 DEF InScope
<1> QED
  BY <1>3, <1>4, <1>5, <1>6

LEMMA ScoreTypes == Score \in [Text -> Int] /\ HitScore \in [Text -> Int]
<1>1. Score \in [Text -> Int]
  BY StoreAssumption
<1> QED
  BY <1>1 DEF HitScore, distance_to_score

(* sorted(..., reverse=True): the hits, best first.                        *)
LEMMA ByScoreFacts ==
    ASSUME NEW hits \in Seq(Chunk), NEW points \in [Text -> Int]
    PROVE  /\ ByScore(hits, points) \in Seq(Chunk)
           /\ Sorted(ByScore(hits, points), points)
           /\ \A s : InScope(hits, s) => InScope(ByScore(hits, points), s)
<1> DEFINE S(i) == points[hits[i].text]
           before == {p \in (DOMAIN hits) \X (DOMAIN hits) :
                         S(p[1]) > S(p[2]) \/ (S(p[1]) = S(p[2]) /\ p[1] < p[2])}
           place == [i \in DOMAIN hits |-> S(i)]
<1>1. \A x \in DOMAIN hits : place[x] \in Int
  <2> SUFFICES ASSUME NEW x \in DOMAIN hits PROVE S(x) \in Int
    OBVIOUS
  <2>1. hits[x] \in Chunk
    OBVIOUS
  <2>2. hits[x].text \in Text
    BY <2>1 DEF Chunk
  <2> QED
    BY <2>2
<1>2. \A x, y \in DOMAIN hits : <<x, y>> \in before <=>
         place[x] > place[y] \/ (place[x] = place[y] /\ x < y)
  BY Zenon
<1>3. ByScore(hits, points) = Arranged(hits, DOMAIN hits, before)
  BY DEF ByScore
<1>11. RanksBy(before, place, DOMAIN hits)
  BY <1>1, <1>2, Zenon DEF RanksBy
<1>4. \A x \in DOMAIN hits : place[x] = points[hits[x].text]
  OBVIOUS
<1>5. DOMAIN hits \in SUBSET DOMAIN hits
  OBVIOUS
<1> HIDE DEF before, place
<1>6. /\ ByScore(hits, points) \in Seq(Chunk)
      /\ \E o \in [DOMAIN ByScore(hits, points) -> DOMAIN hits] :
            /\ \A i \in DOMAIN ByScore(hits, points) : ByScore(hits, points)[i] = hits[o[i]]
            /\ \A i, k \in DOMAIN ByScore(hits, points) : i < k => place[o[i]] >= place[o[k]]
  <2>1. /\ Arranged(hits, DOMAIN hits, before) \in Seq(Chunk)
        /\ Ranks(Arranged(hits, DOMAIN hits, before), hits, DOMAIN hits, place)
    BY <1>5, <1>11, RankedFacts
  <2> QED
    BY <1>3, <2>1, Zenon DEF Ranks
<1>7. PICK o \in [DOMAIN ByScore(hits, points) -> DOMAIN hits] :
        /\ \A i \in DOMAIN ByScore(hits, points) : ByScore(hits, points)[i] = hits[o[i]]
        /\ \A i, k \in DOMAIN ByScore(hits, points) : i < k => place[o[i]] >= place[o[k]]
  BY <1>6
<1>8. \A i \in DOMAIN ByScore(hits, points) : o[i] \in DOMAIN hits
  BY <1>7
<1>9. Sorted(ByScore(hits, points), points)
  BY <1>4, <1>7, <1>8 DEF Sorted
<1>10. \A s : InScope(hits, s) => InScope(ByScore(hits, points), s)
  BY <1>7, <1>8 DEF InScope
<1> QED
  BY <1>6, <1>9, <1>10

-----------------------------------------------------------------------------
(* INVARIANTS                                                              *)

IndexTypes ==
    /\ store \in SUBSET Chunk
    /\ faults \in 0..MaxFaults
    /\ document \in Documents
    /\ jpc \in [Job -> Active \cup {"queued", "done", "failed"}]
    /\ attempts \in [Job -> 0..MaxRetries]
    /\ target \in [Job -> {"none", "milvus", "memory"}]
    /\ writer \in [Resource -> SUBSET Job]
    /\ overlap \in SUBSET Resource

Of(r) == {j \in Job : document[j].resource = r}

(* A job that deletes has something to write, and what the store has of a  *)
(* resource belongs to the owner its jobs name: the delete misses nothing. *)
Prepared == \A j \in Job : jpc[j] \in {"delete", "upsert"} => HasChunks(j)
Owned == \A v \in store : \A j \in Job :
            v.resource = document[j].resource => v.user = document[j].user

(* HarmlessOutage with the target: a job on a store of its own that is     *)
(* about to write has deleted nothing.                                     *)
Emptied(j) == jpc[j] = "upsert" /\ target[j] = "milvus"
Filled(r) == writer[r] # {} /\ (\A j \in Of(r) : ~Emptied(j)) => Vectors(r) # {}
Searchable == trouble \cap {"write", "worker"} = {} => \A r \in Resource : Filled(r)

(* As long as the jobs of a resource do not overlap: one is active at most,*)
(* after its delete nothing is left, and the store holds what was written  *)
(* last unless a job that may have interfered is not over.                 *)
Unfinished(j) == HasChunks(j) /\ (jpc[j] # "done" \/ target[j] # "milvus")
Matches(r) == \A j \in writer[r] : Vectors(r) = Upserted({}, Chunked(j))
Alone(r) == \A j, k \in Of(r) : jpc[j] \in Active /\ jpc[k] \in Active => j = k
Cleared(r) == \A j \in Of(r) : Emptied(j) => Vectors(r) = {}
Current(r) == Matches(r) \/ \E j \in Of(r) : Unfinished(j)
Serial == \A r \in Resource \ overlap : Alone(r) /\ Cleared(r) /\ Current(r)

IndexInv == IndexTypes /\ Prepared /\ Owned /\ Searchable /\ Serial

IndexEntry == [key : User \X SUBSET Resource, docs : SUBSET Chunk]
Findings == [docs : SUBSET Chunk, bm25 : Seq(Chunk), bm25_failed : BOOLEAN,
             vector : Seq(Chunk), vector_failed : BOOLEAN, asked : Nat]
SearchLabel == Ended \cup {"new", "each", "rank", "hit", "load", "built",
                         "stored", "evict", "pop", "vector", "fuse"}

SearchTypes ==
    /\ request \in Requests
    /\ spc \in [Search -> SearchLabel]
    /\ found \in [Search -> Findings]
    /\ DOMAIN result = Search
    /\ \A s \in Search : result[s].chunks \in Seq(Chunk)
    /\ cache \in Seq(IndexEntry)

(* What holds of one request at label l, with findings f, result r and n   *)
(* failures so far.  It stays on its path and has no result before its end;*)
(* what it has found is in its scope.                                      *)
OnPath(s, l, f) ==
    /\ l \in {"each", "rank"} => request[s].kind # "hybrid"
    /\ l \in {"hit", "load", "built", "stored", "evict", "pop", "vector", "fuse"} => request[s].kind = "hybrid"
    /\ l = "new" => f.asked = 0
    /\ l = "each" => f.asked < Len(Named(s))
NotYet(l, r) == l # "answered" => r = NoResult
FoundInScope(s, f) == InScope(f.vector, s) /\ InScope(f.bm25, s)
AnswerInScope(s, l, r) == l # "forbidden" /\ InScope(r.chunks, s)
Blamed(l, f, n) == l = "unavailable" \/ f.vector_failed => n > 0
Marked(s, l, f, r) ==
    request[s].kind = "hybrid" /\ l = "answered" /\ ~r.degraded
        => ~f.bm25_failed /\ ~f.vector_failed /\ Sorted(r.chunks, Score)
Ranked(s, r) ==
    request[s].kind # "hybrid" =>
        /\ Sorted(r.chunks, HitScore)
        /\ AtLeast(r.chunks, HitScore, request[s].score_threshold)
        /\ Multi(s) => Distinct(r.chunks)
        /\ Len(r.chunks) <= request[s].top_k
        /\ r.tokens <= max_context_tokens \/ Len(r.chunks) = 1

Fine(s, l, f, r, n) ==
    /\ OnPath(s, l, f) /\ NotYet(l, r) /\ FoundInScope(s, f) /\ AnswerInScope(s, l, r)
    /\ Blamed(l, f, n) /\ Marked(s, l, f, r) /\ Ranked(s, r)

(* The entries of the cache beyond the limit are those a request is still  *)
(* entering: it has not yet evicted for them.                              *)
Bounded == Cardinality(Settled) <= cache_max_entries

SearchInv ==
    /\ SearchTypes /\ Bounded
    /\ \A s \in Search : Fine(s, spc[s], found[s], result[s], faults)

-----------------------------------------------------------------------------
(* WHAT A JOB WRITES                                                       *)

LEMMA DocumentFacts ==
    ASSUME document \in Documents, NEW j \in Job
    PROVE  /\ document[j].resource \in Resource /\ document[j].user \in User
           /\ document[j].pages \in Seq(Seq(Text))
<1>1. document[j] \in [resource : Resource, user : User, pages : Seq(Seq(Text))]
  BY IndexAssumption
<1> QED
  BY <1>1

(* The chunks of a document are numbered from 0 on every page.             *)
LEMMA ChunkedFacts ==
    ASSUME document \in Documents, NEW j \in Job
    PROVE  \A a \in DOMAIN Chunked(j) :
              /\ Chunked(j)[a] \in Chunk
              /\ Chunked(j)[a].resource = document[j].resource
              /\ Chunked(j)[a].user = document[j].user
              /\ Chunked(j)[a].index = a[2] - 1
              /\ a = <<a[1], a[2]>> /\ a[1] \in DOMAIN document[j].pages
              /\ a[2] \in DOMAIN document[j].pages[a[1]]
              /\ a[1] \in Nat /\ a[2] \in Nat
<1> DEFINE d == document[j]
           places == UNION {{<<p, i>> : i \in DOMAIN d.pages[p]} : p \in DOMAIN d.pages}
<1>1. d.resource \in Resource /\ d.user \in User /\ d.pages \in Seq(Seq(Text))
  BY DocumentFacts
<1>2. Chunked(j) = [a \in places |-> Record(d.resource, a[2] - 1, d.user, d.pages[a[1]][a[2]])]
  BY DEF Chunked
<1> SUFFICES ASSUME NEW a \in places
             PROVE  /\ Chunked(j)[a] \in Chunk
                    /\ Chunked(j)[a].resource = d.resource
                    /\ Chunked(j)[a].user = d.user
                    /\ Chunked(j)[a].index = a[2] - 1
                    /\ a = <<a[1], a[2]>> /\ a[1] \in DOMAIN d.pages
                    /\ a[2] \in DOMAIN d.pages[a[1]]
                    /\ a[1] \in Nat /\ a[2] \in Nat
  BY <1>2
<1>3. PICK p \in DOMAIN d.pages : \E i \in DOMAIN d.pages[p] : a = <<p, i>>
  OBVIOUS
<1>4. PICK i \in DOMAIN d.pages[p] : a = <<p, i>>
  BY <1>3
<1>5. a[1] = p /\ a[2] = i
  BY <1>4
<1>6. d.pages[p] \in Seq(Text) /\ p \in Nat
  BY <1>1
<1>7. d.pages[p][i] \in Text /\ i \in Nat /\ i - 1 \in Nat
  BY <1>6
<1>8. Chunked(j)[a] = [resource |-> d.resource, index |-> i - 1, user |-> d.user,
                       text |-> d.pages[p][i]]
  BY <1>2, <1>5 DEF Record
<1> HIDE DEF d
<1>9. Chunked(j)[a] \in Chunk
  BY <1>1, <1>7, <1>8 DEF Chunk
<1> QED
  BY <1>4, <1>5, <1>6, <1>7, <1>8, <1>9

LEMMA UpsertedMembers ==
    ASSUME NEW records, NEW batch, NEW v
    PROVE  v \in Upserted(records, batch) <=>
              \/ v \in records /\ \A a \in DOMAIN batch : id(batch[a]) # id(v)
              \/ \E a \in DOMAIN batch :
                    /\ v = batch[a]
                    /\ \A b \in DOMAIN batch : Later(b, a) => id(batch[b]) # id(batch[a])
BY DEF Upserted

(* An upsert leaves the other resources alone.  Where there was nothing,   *)
(* there is what the batch makes of an empty store.                        *)
LEMMA UpsertedOthers ==
    ASSUME NEW records, document \in Documents, NEW j \in Job,
           NEW r, r # document[j].resource
    PROVE  {v \in Upserted(records, Chunked(j)) : v.resource = r} = {v \in records : v.resource = r}
<1> DEFINE batch == Chunked(j)
<1>1. \A a \in DOMAIN batch : batch[a].resource = document[j].resource
  BY ChunkedFacts
<1> HIDE DEF batch
<1>2. \A v \in Upserted(records, batch) : v.resource = r => v \in records
  BY <1>1, UpsertedMembers
<1>3. ASSUME NEW v \in records, v.resource = r PROVE v \in Upserted(records, batch)
  <2>1. \A a \in DOMAIN batch : id(batch[a]) # id(v)
    BY <1>1, <1>3 DEF id
  <2> QED
    BY <2>1, UpsertedMembers
<1> QED
  BY <1>2, <1>3 DEF batch

LEMMA UpsertedOwn ==
    ASSUME NEW records, document \in Documents, NEW j \in Job,
           {v \in records : v.resource = document[j].resource} = {}
    PROVE  {v \in Upserted(records, Chunked(j)) : v.resource = document[j].resource}
              = Upserted({}, Chunked(j))
<1> DEFINE batch == Chunked(j)
           r == document[j].resource
<1>1. \A a \in DOMAIN batch : batch[a].resource = r
  BY ChunkedFacts
<1>2. \A v \in records : v.resource # r
  BY Zenon
<1> HIDE DEF batch, r
<1>3. \A v \in Upserted(records, batch) : v.resource = r => v \in Upserted({}, batch)
  BY <1>2, UpsertedMembers
<1>4. \A v \in Upserted({}, batch) : v.resource = r /\ v \in Upserted(records, batch)
  BY <1>1, UpsertedMembers
<1>5. {v \in Upserted(records, batch) : v.resource = r} = Upserted({}, batch)
  BY <1>3, <1>4
<1> QED
  BY <1>5 DEF batch, r

(* What a document with chunks leaves in the store is not empty: the chunks*)
(* of its last page with any.                                              *)
LEMMA UpsertedSomething ==
    ASSUME NEW records, document \in Documents, NEW j \in Job, HasChunks(j)
    PROVE  {v \in Upserted(records, Chunked(j)) : v.resource = document[j].resource} # {}
<1> DEFINE batch == Chunked(j)
           pages == document[j].pages
           used == {a[1] : a \in DOMAIN batch}
<1>1. /\ pages \in Seq(Seq(Text))
      /\ \A a \in DOMAIN batch : /\ batch[a].resource = document[j].resource
                                 /\ batch[a].index = a[2] - 1
                                 /\ a[1] \in DOMAIN pages /\ a[1] \in Nat /\ a[2] \in Nat
  BY DocumentFacts, ChunkedFacts
<1> HIDE DEF pages
<1>2. IsFiniteSet(DOMAIN pages)
  BY <1>1, DomainFacts
<1>3. used \in SUBSET DOMAIN pages /\ used \in SUBSET Nat
  BY <1>1
<1>4. IsFiniteSet(used)
  BY <1>2, <1>3, FS_Subset
<1>5. used # {}
  BY DEF HasChunks
<1> HIDE DEF batch
<1>6. PICK m \in used : \A x \in used : x <= m
  BY <1>3, <1>4, <1>5, LargestExists
<1>7. PICK a \in DOMAIN batch : a[1] = m
  BY <1>6
<1>8. ASSUME NEW b \in DOMAIN batch, Later(b, a) PROVE id(batch[b]) # id(batch[a])
  <2>1. b[1] <= a[1] /\ b[1] \in Nat /\ a[1] \in Nat /\ b[2] \in Nat /\ a[2] \in Nat
    BY <1>1, <1>6, <1>7
  <2>2. b[2] > a[2]
    BY <1>8, <2>1 DEF Later
  <2>3. batch[b].index # batch[a].index
    BY <1>1, <2>1, <2>2
  <2> QED
    BY <2>3 DEF id
<1>9. batch[a] \in Upserted(records, batch)
  BY <1>8, UpsertedMembers
<1>10. batch[a].resource = document[j].resource
  BY <1>1
<1> QED
  BY <1>9, <1>10 DEF batch
-----------------------------------------------------------------------------
(* THE STEPS OF A JOB                                                      *)

JobLabel == Active \cup {"queued", "done", "failed"}

LEMMA FailsFacts ==
    ASSUME faults \in 0..MaxFaults, NEW kind, Fails(kind)
    PROVE  /\ faults' \in 0..MaxFaults /\ faults' > 0 /\ faults' = faults + 1
           /\ trouble' = trouble \cup {kind}
BY StoreAssumption DEF Fails

LEMMA RaiseFacts ==
    ASSUME IndexTypes, NEW j \in Job, Raise(j)
    PROVE  /\ jpc' \in [Job -> JobLabel] /\ jpc'[j] \in {"queued", "failed"}
           /\ \A k \in Job : k # j => jpc'[k] = jpc[k]
           /\ attempts' \in [Job -> 0..MaxRetries]
<1>1. jpc' = [jpc EXCEPT ![j] = IF attempts[j] < MaxRetries THEN "queued" ELSE "failed"]
  BY DEF Raise
<1>2. jpc \in [Job -> JobLabel] /\ attempts \in [Job -> 0..MaxRetries] /\ MaxRetries \in Nat
  BY IndexAssumption DEF IndexTypes, JobLabel
<1>3. jpc' \in [Job -> JobLabel] /\ jpc'[j] \in {"queued", "failed"}
  BY <1>1, <1>2 DEF JobLabel
<1>4. \A k \in Job : k # j => jpc'[k] = jpc[k]
  BY <1>1, <1>2
<1>5. attempts[j] \in 0..MaxRetries
  BY <1>2
<1>6. (IF attempts[j] < MaxRetries THEN attempts[j] + 1 ELSE attempts[j]) \in 0..MaxRetries
  BY <1>2, <1>5
<1>7. attempts' = [attempts EXCEPT ![j] = IF attempts[j] < MaxRetries THEN attempts[j] + 1
                                          ELSE attempts[j]]
  BY DEF Raise
<1>8. attempts' \in [Job -> 0..MaxRetries]
  BY <1>2, <1>6, <1>7
<1> QED
  BY <1>3, <1>4, <1>8

(* A write is done, or it is not certain and the job fails.                *)
LEMMA WriteFacts ==
    ASSUME IndexTypes, NEW j \in Job, NEW after \in SUBSET Chunk,
           NEW goal \in {"upsert", "done"}, Write(j, after, goal)
    PROVE  /\ store' \in SUBSET Chunk /\ faults' \in 0..MaxFaults
           /\ jpc' \in [Job -> JobLabel] /\ attempts' \in [Job -> 0..MaxRetries]
           /\ \A k \in Job : k # j => jpc'[k] = jpc[k]
           /\ store' = store \/ (target[j] = "milvus" /\ store' = after)
           /\ \/ /\ jpc'[j] = goal /\ trouble' = trouble
                 /\ store' = IF target[j] = "milvus" THEN after ELSE store
              \/ jpc'[j] \in {"queued", "failed"} /\ trouble' = trouble \cup {"write"}
<1> DEFINE new == IF target[j] = "milvus" THEN after ELSE store
<1>1. /\ faults \in 0..MaxFaults /\ store \in SUBSET Chunk
      /\ jpc \in [Job -> JobLabel] /\ attempts \in [Job -> 0..MaxRetries]
  BY DEF IndexTypes, JobLabel
<1>2. new \in SUBSET Chunk
  BY <1>1
<1>3. CASE store' = new /\ jpc' = [jpc EXCEPT ![j] = goal] /\ Works /\ UNCHANGED attempts
  <2>1. jpc' \in [Job -> JobLabel] /\ jpc'[j] = goal /\ \A k \in Job : k # j => jpc'[k] = jpc[k]
    BY <1>1, <1>3 DEF JobLabel, Active
  <2>2. faults' = faults /\ trouble' = trouble
    BY <1>3 DEF Works
  <2> QED
    BY <1>1, <1>2, <1>3, <2>1, <2>2
<1>4. CASE (store' = new \/ UNCHANGED store) /\ Fails("write") /\ Raise(j)
  <2>1. faults' \in 0..MaxFaults /\ trouble' = trouble \cup {"write"}
    BY <1>1, <1>4, FailsFacts
  <2>2. /\ jpc' \in [Job -> JobLabel] /\ jpc'[j] \in {"queued", "failed"}
        /\ \A k \in Job : k # j => jpc'[k] = jpc[k]
        /\ attempts' \in [Job -> 0..MaxRetries]
    BY <1>4, RaiseFacts
  <2> QED
    BY <1>1, <1>2, <1>4, <2>1, <2>2
<1> QED
  BY <1>3, <1>4 DEF Write

LEMMA KeptFacts ==
    ASSUME IndexTypes, NEW j \in Job
    PROVE  /\ Kept(store, document[j].resource, document[j].user) \in SUBSET store
           /\ Upserted(store, Chunked(j)) \in SUBSET Chunk
           /\ store \in SUBSET Chunk
<1>1. store \in SUBSET Chunk /\ document \in Documents
  BY DEF IndexTypes
<1>2. Kept(store, document[j].resource, document[j].user) \in SUBSET store
  BY DEF Kept
<1>3. \A v \in Upserted(store, Chunked(j)) : v \in Chunk
  BY <1>1, UpsertedMembers, ChunkedFacts
<1> QED
  BY <1>1, <1>2, <1>3

(* What every step of a job has in common.                                 *)
LEMMA IndexStepTypes ==
    ASSUME IndexTypes, NEW j \in Job, IndexStep(j), document' = document
    PROVE  /\ IndexTypes'
           /\ \A k \in Job : k # j => jpc'[k] = jpc[k] /\ target'[k] = target[k]
           /\ overlap \subseteq overlap'
           /\ trouble \subseteq trouble'
<1> USE DEF JobLabel
<1>1. /\ store \in SUBSET Chunk /\ faults \in 0..MaxFaults /\ document \in Documents
      /\ jpc \in [Job -> JobLabel] /\ attempts \in [Job -> 0..MaxRetries]
      /\ target \in [Job -> {"none", "milvus", "memory"}]
      /\ writer \in [Resource -> SUBSET Job] /\ overlap \in SUBSET Resource
  BY DEF IndexTypes
<1>2. document[j].resource \in Resource
  BY <1>1, DocumentFacts
<1>3. CASE StartJob(j)
  <2>1. jpc' \in [Job -> JobLabel] /\ \A k \in Job : k # j => jpc'[k] = jpc[k]
    BY <1>1, <1>3 DEF StartJob, Active
  <2>2. /\ faults' \in 0..MaxFaults /\ trouble \subseteq trouble'
        /\ target' \in [Job -> {"none", "milvus", "memory"}]
        /\ \A k \in Job : k # j => target'[k] = target[k]
    <3>1. CASE Connected(j)
      BY <1>1, <3>1 DEF Connected, Works
    <3>2. CASE FallsBack(j)
      <4>1. faults' \in 0..MaxFaults /\ trouble' = trouble \cup {"connect"}
        BY <1>1, <3>2, FailsFacts DEF FallsBack
      <4> QED
        BY <1>1, <3>2, <4>1 DEF FallsBack
    <3> QED
      BY <1>3, <3>1, <3>2 DEF StartJob
  <2>3. overlap' \in SUBSET Resource /\ overlap \subseteq overlap'
    BY <1>1, <1>2, <1>3 DEF StartJob
  <2>4. UNCHANGED <<store, attempts, writer>>
    BY <1>3 DEF StartJob
  <2> QED
    BY <1>1, <2>1, <2>2, <2>3, <2>4 DEF IndexTypes
<1>4. CASE Embed(j)
  <2>1. /\ jpc' \in [Job -> JobLabel] /\ attempts' \in [Job -> 0..MaxRetries]
        /\ \A k \in Job : k # j => jpc'[k] = jpc[k]
        /\ faults' \in 0..MaxFaults /\ trouble \subseteq trouble'
    <3>1. CASE Fails("embedding") /\ Raise(j)
      <4>1. faults' \in 0..MaxFaults /\ trouble' = trouble \cup {"embedding"}
        BY <1>1, <3>1, FailsFacts
      <4> QED
        BY <3>1, <4>1, RaiseFacts
    <3>2. CASE Works /\ UNCHANGED attempts
               /\ (jpc' = [jpc EXCEPT ![j] = "done"] \/ jpc' = [jpc EXCEPT ![j] = "delete"])
      BY <1>1, <3>2 DEF Works, Active
    <3> QED
      BY <1>4, <3>1, <3>2 DEF Embed
  <2>2. UNCHANGED <<store, target, writer, overlap>>
    BY <1>4 DEF Embed
  <2> QED
    BY <1>1, <2>1, <2>2 DEF IndexTypes
<1>5. CASE Delete(j)
  <2>1. Write(j, Kept(store, document[j].resource, document[j].user), "upsert")
    BY <1>5 DEF Delete
  <2>2. PICK after \in SUBSET Chunk : after = Kept(store, document[j].resource, document[j].user)
    BY KeptFacts
  <2>3. Write(j, after, "upsert")
    BY <2>1, <2>2
  <2>4. /\ store' \in SUBSET Chunk /\ faults' \in 0..MaxFaults
        /\ jpc' \in [Job -> JobLabel] /\ attempts' \in [Job -> 0..MaxRetries]
        /\ \A k \in Job : k # j => jpc'[k] = jpc[k]
        /\ trouble \subseteq trouble'
    BY <2>3, WriteFacts
  <2>5. UNCHANGED <<target, writer, overlap>>
    BY <1>5 DEF Delete
  <2> QED
    BY <1>1, <2>4, <2>5 DEF IndexTypes
<1>6. CASE Upsert(j)
  <2>1. Write(j, Upserted(store, Chunked(j)), "done")
    BY <1>6 DEF Upsert
  <2>2. PICK after \in SUBSET Chunk : after = Upserted(store, Chunked(j))
    BY KeptFacts
  <2>3. Write(j, after, "done")
    BY <2>1, <2>2
  <2>4. /\ store' \in SUBSET Chunk /\ faults' \in 0..MaxFaults
        /\ jpc' \in [Job -> JobLabel] /\ attempts' \in [Job -> 0..MaxRetries]
        /\ \A k \in Job : k # j => jpc'[k] = jpc[k]
        /\ trouble \subseteq trouble'
    BY <2>3, WriteFacts
  <2>5. UNCHANGED <<target, overlap>>
    BY <1>6 DEF Upsert
  <2>6. writer' \in [Resource -> SUBSET Job]
    BY <1>1, <1>2, <1>6 DEF Upsert
  <2> QED
    BY <1>1, <2>4, <2>5, <2>6 DEF IndexTypes
<1>7. CASE WorkerLost(j)
  <2>1. faults' \in 0..MaxFaults /\ trouble' = trouble \cup {"worker"}
    BY <1>1, <1>7, FailsFacts DEF WorkerLost
  <2>2. jpc' \in [Job -> JobLabel] /\ \A k \in Job : k # j => jpc'[k] = jpc[k]
    BY <1>1, <1>7 DEF WorkerLost
  <2>3. UNCHANGED <<store, attempts, target, writer, overlap>>
    BY <1>7 DEF WorkerLost
  <2> QED
    BY <1>1, <2>1, <2>2, <2>3 DEF IndexTypes
<1> QED
  BY <1>3, <1>4, <1>5, <1>6, <1>7 DEF IndexStep
LEMMA SameChunks ==
    ASSUME document' = document, NEW k \in Job
    PROVE  Chunked(k)' = Chunked(k) /\ (HasChunks(k)' <=> HasChunks(k))
<1>1. Chunked(k)' = Chunked(k)
  BY DEF Chunked, Record
<1> QED
  BY <1>1 DEF HasChunks

LEMMA StepPrepared ==
    ASSUME IndexTypes, Prepared, NEW j \in Job, IndexStep(j), document' = document
    PROVE  Prepared'
<1> SUFFICES ASSUME NEW k \in Job, jpc'[k] \in {"delete", "upsert"} PROVE HasChunks(k)
  BY SameChunks DEF Prepared
<1>1. CASE k # j
  BY <1>1, IndexStepTypes DEF Prepared
<1>2. CASE k = j
  <2>0. jpc \in [Job -> JobLabel]
    BY DEF IndexTypes, JobLabel
  <2>1. CASE StartJob(j)
    BY <1>2, <2>0, <2>1 DEF StartJob
  <2>2. CASE Embed(j)
    <3>1. CASE HasChunks(j)
      BY <1>2, <3>1
    <3>2. CASE ~HasChunks(j)
      BY <1>2, <2>0, <2>2, <3>2 DEF Embed
    <3> QED
      BY <3>1, <3>2
  <2>3. CASE Delete(j) \/ Upsert(j)
    BY <1>2, <2>3 DEF Delete, Upsert, Prepared
  <2>4. CASE WorkerLost(j)
    BY <1>2, <2>0, <2>4 DEF WorkerLost
  <2> QED
    BY <2>1, <2>2, <2>3, <2>4 DEF IndexStep
<1> QED
  BY <1>1, <1>2

(* What a step does to the store: nothing, or the delete or the upsert of  *)
(* its document.                                                           *)
LEMMA StepStore ==
    ASSUME IndexTypes, NEW j \in Job, IndexStep(j)
    PROVE  \/ store' = store
           \/ store' = Kept(store, document[j].resource, document[j].user)
           \/ store' = Upserted(store, Chunked(j))
<1>1. CASE Delete(j)
  <2>1. PICK after \in SUBSET Chunk : after = Kept(store, document[j].resource, document[j].user)
    BY KeptFacts
  <2>2. Write(j, after, "upsert")
    BY <1>1, <2>1 DEF Delete
  <2>3. store' = store \/ store' = after
    BY <2>2, WriteFacts
  <2> QED
    BY <2>1, <2>3
<1>2. CASE Upsert(j)
  <2>1. PICK after \in SUBSET Chunk : after = Upserted(store, Chunked(j))
    BY KeptFacts
  <2>2. Write(j, after, "done")
    BY <1>2, <2>1 DEF Upsert
  <2>3. store' = store \/ store' = after
    BY <2>2, WriteFacts
  <2> QED
    BY <2>1, <2>3
<1>3. CASE StartJob(j) \/ Embed(j) \/ WorkerLost(j)
  BY <1>3 DEF StartJob, Embed, WorkerLost
<1> QED
  BY <1>1, <1>2, <1>3 DEF IndexStep

LEMMA StepOwned ==
    ASSUME IndexTypes, Owned, NEW j \in Job, IndexStep(j), document' = document
    PROVE  Owned'
<1>1. document \in Documents
  BY DEF IndexTypes
<1> SUFFICES ASSUME NEW v \in store', NEW k \in Job, v.resource = document[k].resource
             PROVE  v.user = document[k].user
  BY DEF Owned
<1>2. CASE v \in store
  BY <1>2 DEF Owned
<1>3. CASE v \notin store
  <2>1. store' = Upserted(store, Chunked(j))
    BY <1>3, StepStore, KeptFacts
  <2>2. PICK a \in DOMAIN Chunked(j) : v = Chunked(j)[a]
    BY <1>3, <2>1, UpsertedMembers
  <2>3. v.resource = document[j].resource /\ v.user = document[j].user
    BY <1>1, <2>2, ChunkedFacts
  <2> QED
    BY <1>1, <2>3, OwnerAssumption
<1> QED
  BY <1>2, <1>3

(* A job touches nothing of another resource.                              *)
LEMMA StepOthers ==
    ASSUME IndexTypes, NEW j \in Job, IndexStep(j), document' = document,
           NEW r \in Resource, r # document[j].resource
    PROVE  /\ Vectors(r)' = Vectors(r) /\ writer'[r] = writer[r]
           /\ Filled(r)' <=> Filled(r)
           /\ Alone(r)' <=> Alone(r)
           /\ Cleared(r)' <=> Cleared(r)
           /\ Current(r)' <=> Current(r)
<1>1. document \in Documents /\ writer \in [Resource -> SUBSET Job]
  BY DEF IndexTypes
<1>2. Vectors(r)' = Vectors(r)
  <2>1. CASE store' = store
    BY <2>1 DEF Vectors
  <2>2. CASE store' = Kept(store, document[j].resource, document[j].user)
    BY <2>2 DEF Vectors, Kept
  <2>3. CASE store' = Upserted(store, Chunked(j))
    BY <1>1, <2>3, UpsertedOthers DEF Vectors
  <2> QED
    BY <2>1, <2>2, <2>3, StepStore
<1>3. writer'[r] = writer[r]
  BY <1>1, DocumentFacts DEF IndexStep, StartJob, Embed, Delete, Upsert, WorkerLost
<1>4. Of(r)' = Of(r) /\ \A k \in Of(r) : k \in Job /\ k # j
  BY DEF Of
<1>5. \A k \in Of(r) : jpc'[k] = jpc[k] /\ target'[k] = target[k]
  BY <1>4, IndexStepTypes
<1>6. \A k \in Of(r) : Emptied(k)' <=> Emptied(k)
  BY <1>5 DEF Emptied
<1>7. \A k \in Of(r) : Unfinished(k)' <=> Unfinished(k)
  <2> SUFFICES ASSUME NEW k \in Of(r) PROVE Unfinished(k)' <=> Unfinished(k)
    OBVIOUS
  <2>1. HasChunks(k)' <=> HasChunks(k)
    BY <1>4, SameChunks
  <2> QED
    BY <1>5, <2>1 DEF Unfinished
<1>8. Matches(r)' <=> Matches(r)
  <2>1. \A k \in writer[r] : Chunked(k)' = Chunked(k)
    BY <1>1, SameChunks
  <2> QED
    BY <1>2, <1>3, <2>1 DEF Matches
<1>9. Filled(r)' <=> Filled(r)
  BY <1>2, <1>3, <1>4, <1>6 DEF Filled
<1>10. Alone(r)' <=> Alone(r)
  BY <1>4, <1>5 DEF Alone
<1>11. Cleared(r)' <=> Cleared(r)
  BY <1>2, <1>4, <1>6 DEF Cleared
<1>12. Current(r)' <=> Current(r)
  BY <1>4, <1>7, <1>8 DEF Current
<1> QED
  BY <1>2, <1>3, <1>9, <1>10, <1>11, <1>12
(* On its own resource a step that does not write changes where the job is.*)
LEMMA OwnWithoutWrite ==
    ASSUME IndexTypes, Serial, Searchable, NEW j \in Job, document' = document,
           NEW r \in Resource, r = document[j].resource,
           IndexStep(j), StartJob(j) \/ Embed(j) \/ WorkerLost(j)
    PROVE  /\ trouble' \cap {"write", "worker"} = {} => Filled(r)'
           /\ r \notin overlap' => Alone(r)' /\ Cleared(r)' /\ Current(r)'
<1>1. /\ document \in Documents /\ jpc \in [Job -> JobLabel] /\ r \in Resource
      /\ target \in [Job -> {"none", "milvus", "memory"}]
      /\ writer \in [Resource -> SUBSET Job]
  BY DocumentFacts DEF IndexTypes, JobLabel
<1>2. store' = store /\ writer' = writer
  BY DEF StartJob, Embed, WorkerLost
<1>3. Of(r)' = Of(r) /\ j \in Of(r) /\ \A k \in Of(r) : k \in Job
  BY DEF Of
<1>4. \A k \in Of(r) : k # j => jpc'[k] = jpc[k] /\ target'[k] = target[k]
  BY <1>3, IndexStepTypes
<1>5. overlap \subseteq overlap' /\ trouble \subseteq trouble'
  BY IndexStepTypes
<1>6. Vectors(r)' = Vectors(r) /\ writer'[r] = writer[r]
  BY <1>2 DEF Vectors
<1>7. Matches(r)' <=> Matches(r)
  <2>1. \A k \in writer[r] : Chunked(k)' = Chunked(k)
    BY <1>1, SameChunks
  <2> QED
    BY <1>6, <2>1 DEF Matches
<1>8. jpc'[j] # "upsert"
  BY <1>1 DEF StartJob, Embed, WorkerLost, Raise
<1>9. \A k \in Of(r) : Emptied(k)' => Emptied(k)
  BY <1>4, <1>8 DEF Emptied
<1>10. trouble' \cap {"write", "worker"} = {} => Filled(r)'
  <2> SUFFICES ASSUME trouble' \cap {"write", "worker"} = {} PROVE Filled(r)'
    OBVIOUS
  <2>1. trouble \cap {"write", "worker"} = {}
    BY <1>5
  <2>2. Filled(r)
    BY <1>1, <2>1 DEF Searchable
  <2>3. ~WorkerLost(j)
    BY DEF WorkerLost, Fails
  <2>4. jpc[j] # "upsert"
    BY <2>3 DEF StartJob, Embed
  <2>5. \A k \in Of(r) : Emptied(k) => Emptied(k)'
    BY <1>4, <2>4 DEF Emptied
  <2> QED
    BY <1>3, <1>6, <2>2, <2>5 DEF Filled
<1>11. \A k \in Of(r) : Unfinished(k) => Unfinished(k)'
  <2> SUFFICES ASSUME NEW k \in Of(r), Unfinished(k) PROVE Unfinished(k)'
    OBVIOUS
  <2>1. HasChunks(k) /\ HasChunks(k)'
    BY <1>3, SameChunks DEF Unfinished
  <2>2. CASE k # j
    BY <1>4, <2>1, <2>2 DEF Unfinished
  <2>3. CASE k = j
    <3>1. jpc'[j] # "done"
      BY <1>1, <2>1, <2>3 DEF StartJob, Embed, WorkerLost, Raise
    <3> QED
      BY <2>1, <2>3, <3>1 DEF Unfinished
  <2> QED
    BY <2>2, <2>3
<1>12. ASSUME r \notin overlap' PROVE Alone(r)' /\ Cleared(r)' /\ Current(r)'
  <2>1. Alone(r) /\ Cleared(r) /\ Current(r)
    BY <1>1, <1>5, <1>12 DEF Serial
  <2>2. Cleared(r)'
    BY <1>3, <1>6, <1>9, <2>1 DEF Cleared
  <2>3. Current(r)'
    BY <1>3, <1>7, <1>11, <2>1 DEF Current
  <2>4. Alone(r)'
    <3>1. CASE StartJob(j)
      <4>1. \A k \in Of(r) : k # j => jpc[k] \notin Active
        BY <1>12, <3>1 DEF StartJob, Of
      <4> QED
        BY <1>3, <1>4, <4>1 DEF Alone
    <3>2. CASE Embed(j) \/ WorkerLost(j)
      <4>1. jpc[j] \in Active
        BY <3>2 DEF Embed, WorkerLost, Active
      <4>2. \A k \in Of(r) : jpc'[k] \in Active => jpc[k] \in Active
        BY <1>4, <4>1
      <4> QED
        BY <1>3, <2>1, <4>2 DEF Alone
    <3> QED
      BY <3>1, <3>2
  <2> QED
    BY <2>2, <2>3, <2>4
<1> QED
  BY <1>10, <1>12

(* Delete: what it removes is everything, and the job is not over.         *)
LEMMA OwnDelete ==
    ASSUME IndexTypes, Prepared, Owned, Serial, Searchable, NEW j \in Job,
           NEW r \in Resource, r = document[j].resource,
           document' = document, IndexStep(j), Delete(j)
    PROVE  /\ trouble' \cap {"write", "worker"} = {} => Filled(r)'
           /\ r \notin overlap' => Alone(r)' /\ Cleared(r)' /\ Current(r)'
<1> DEFINE after == Kept(store, document[j].resource, document[j].user)
<1>1. /\ document \in Documents /\ jpc \in [Job -> JobLabel] /\ r \in Resource
      /\ writer \in [Resource -> SUBSET Job]
  BY DocumentFacts DEF IndexTypes, JobLabel
<1>2. jpc[j] = "delete" /\ target' = target /\ writer' = writer /\ overlap' = overlap
  BY DEF Delete
<1>3. Of(r)' = Of(r) /\ j \in Of(r) /\ \A k \in Of(r) : k \in Job
  BY DEF Of
<1>4. \A k \in Of(r) : k # j => jpc'[k] = jpc[k]
  BY <1>3, IndexStepTypes
<1>5. Write(j, after, "upsert") /\ after \in SUBSET Chunk
  BY KeptFacts DEF Delete
<1>6. {v \in after : v.resource = r} = {}
  BY DEF Kept, Owned
<1> HIDE DEF after
<1>7. \/ /\ jpc'[j] = "upsert" /\ trouble' = trouble
         /\ store' = IF target[j] = "milvus" THEN after ELSE store
      \/ jpc'[j] \in {"queued", "failed"} /\ trouble' = trouble \cup {"write"}
  BY <1>5, WriteFacts
<1>8. HasChunks(j)' /\ jpc'[j] # "done"
  BY <1>2, <1>7, SameChunks DEF Prepared
<1>9. Current(r)'
  BY <1>3, <1>8 DEF Current, Unfinished
<1>10. ASSUME trouble' \cap {"write", "worker"} = {} PROVE Filled(r)'
  <2>1. /\ jpc'[j] = "upsert" /\ trouble' = trouble
        /\ store' = IF target[j] = "milvus" THEN after ELSE store
    BY <1>7, <1>10
  <2>2. CASE target[j] = "milvus"
    <3>1. Emptied(j)'
      BY <1>2, <2>1, <2>2 DEF Emptied
    <3> QED
      BY <1>3, <3>1 DEF Filled
  <2>3. CASE target[j] # "milvus"
    <3>1. Filled(r)
      BY <1>1, <1>10, <2>1 DEF Searchable
    <3>2. \A k \in Of(r) : Emptied(k) => Emptied(k)'
      BY <1>2, <1>4 DEF Emptied
    <3>3. Vectors(r)' = Vectors(r)
      BY <2>1, <2>3 DEF Vectors
    <3> QED
      BY <1>2, <1>3, <3>1, <3>2, <3>3 DEF Filled
  <2> QED
    BY <2>2, <2>3
<1>11. ASSUME r \notin overlap' PROVE Alone(r)' /\ Cleared(r)'
  <2>1. Alone(r)
    BY <1>1, <1>2, <1>11 DEF Serial
  <2>2. jpc[j] \in Active
    BY <1>2 DEF Active
  <2>3. \A k \in Of(r) : jpc'[k] \in Active => jpc[k] \in Active
    BY <1>4, <2>2
  <2>4. Alone(r)'
    BY <1>3, <2>1, <2>3 DEF Alone
  <2>5. ASSUME NEW k \in Of(r), Emptied(k)' PROVE Vectors(r)' = {}
    <3>1. jpc'[k] = "upsert" /\ target[k] = "milvus"
      BY <1>2, <2>5 DEF Emptied
    <3>2. k = j
      BY <1>3, <2>1, <2>2, <2>3, <3>1 DEF Alone, Active
    <3>3. store' = after
      BY <1>7, <3>1, <3>2
    <3> QED
      BY <1>6, <3>3 DEF Vectors
  <2> QED
    BY <1>3, <2>4, <2>5 DEF Cleared
<1> QED
  BY <1>9, <1>10, <1>11

(* Upsert: it completes the index, or leaves the job with work to do.      *)
LEMMA OwnUpsert ==
    ASSUME IndexTypes, Prepared, Serial, Searchable, NEW j \in Job,
           NEW r \in Resource, r = document[j].resource,
           document' = document, IndexStep(j), Upsert(j)
    PROVE  /\ trouble' \cap {"write", "worker"} = {} => Filled(r)'
           /\ r \notin overlap' => Alone(r)' /\ Cleared(r)' /\ Current(r)'
<1> DEFINE after == Upserted(store, Chunked(j))
<1>1. /\ document \in Documents /\ jpc \in [Job -> JobLabel] /\ r \in Resource
      /\ writer \in [Resource -> SUBSET Job]
  BY DocumentFacts DEF IndexTypes, JobLabel
<1>2. jpc[j] = "upsert" /\ target' = target /\ overlap' = overlap
  BY DEF Upsert
<1>3. Of(r)' = Of(r) /\ j \in Of(r) /\ \A k \in Of(r) : k \in Job
  BY DEF Of
<1>4. \A k \in Of(r) : k # j => jpc'[k] = jpc[k]
  BY <1>3, IndexStepTypes
<1>5. Write(j, after, "done") /\ after \in SUBSET Chunk
  BY KeptFacts DEF Upsert
<1>6. HasChunks(j) /\ HasChunks(j)'
  BY <1>2, SameChunks DEF Prepared
<1>7. {v \in after : v.resource = r} # {}
  BY <1>1, <1>6, UpsertedSomething
<1>8. Vectors(r) = {} => {v \in after : v.resource = r} = Upserted({}, Chunked(j))
  BY <1>1, UpsertedOwn DEF Vectors
<1>9. writer' = IF jpc'[j] = "done" /\ target[j] = "milvus"
                  THEN [writer EXCEPT ![r] = {j}] ELSE writer
  BY DEF Upsert
<1> HIDE DEF after
<1>10. \/ /\ jpc'[j] = "done" /\ trouble' = trouble
          /\ store' = IF target[j] = "milvus" THEN after ELSE store
       \/ jpc'[j] \in {"queued", "failed"} /\ trouble' = trouble \cup {"write"}
  BY <1>5, WriteFacts
<1>11. ASSUME trouble' \cap {"write", "worker"} = {} PROVE Filled(r)'
  <2>1. /\ jpc'[j] = "done" /\ trouble' = trouble
        /\ store' = IF target[j] = "milvus" THEN after ELSE store
    BY <1>10, <1>11
  <2>2. CASE target[j] = "milvus"
    <3>1. Vectors(r)' # {}
      BY <1>7, <2>1, <2>2 DEF Vectors
    <3> QED
      BY <3>1 DEF Filled
  <2>3. CASE target[j] # "milvus"
    <3>1. Filled(r)
      BY <1>1, <1>11, <2>1 DEF Searchable
    <3>2. \A k \in Of(r) : Emptied(k) => Emptied(k)'
      BY <1>2, <1>4, <2>3 DEF Emptied
    <3>3. Vectors(r)' = Vectors(r) /\ writer' = writer
      BY <1>9, <2>1, <2>3 DEF Vectors
    <3> QED
      BY <1>3, <3>1, <3>2, <3>3 DEF Filled
  <2> QED
    BY <2>2, <2>3
<1>12. ASSUME r \notin overlap' PROVE Alone(r)' /\ Cleared(r)' /\ Current(r)'
  <2>1. Alone(r) /\ Cleared(r)
    BY <1>1, <1>2, <1>12 DEF Serial
  <2>2. jpc[j] \in Active /\ jpc'[j] \notin Active
    BY <1>2, <1>10 DEF Active
  <2>3. \A k \in Of(r) : jpc'[k] \notin Active
    BY <1>3, <1>4, <2>1, <2>2 DEF Alone
  <2>4. Alone(r)'
    BY <1>3, <2>3 DEF Alone
  <2>5. Cleared(r)'
    BY <1>3, <2>3 DEF Cleared, Emptied, Active
  <2>6. Current(r)'
    <3>1. CASE jpc'[j] = "done" /\ target[j] = "milvus"
      <4>1. store' = after
        BY <1>10, <3>1
      <4>2. Vectors(r) = {}
        BY <1>2, <1>3, <2>1, <3>1 DEF Cleared, Emptied
      <4>3. Vectors(r)' = Upserted({}, Chunked(j))
        BY <1>8, <4>1, <4>2 DEF Vectors
      <4>4. writer'[r] = {j} /\ Chunked(j)' = Chunked(j)
        BY <1>1, <1>9, <3>1, SameChunks
      <4>5. Matches(r)'
        BY <4>3, <4>4 DEF Matches
      <4> QED
        BY <4>5 DEF Current
    <3>2. CASE ~(jpc'[j] = "done" /\ target[j] = "milvus")
      BY <1>2, <1>3, <1>6, <3>2 DEF Current, Unfinished
    <3> QED
      BY <3>1, <3>2
  <2> QED
    BY <2>4, <2>5, <2>6
<1> QED
  BY <1>11, <1>12

(* A step of a job preserves the invariant of the index.                   *)
LEMMA IndexStepInv ==
    ASSUME IndexInv, NEW j \in Job, IndexStep(j), document' = document
    PROVE  IndexInv'
<1>1. IndexTypes /\ Prepared /\ Owned /\ Searchable /\ Serial
  BY DEF IndexInv
<1>2. IndexTypes' /\ overlap \subseteq overlap' /\ trouble \subseteq trouble'
  BY <1>1, IndexStepTypes
<1>7. PICK r \in Resource : r = document[j].resource
  BY <1>1, DocumentFacts DEF IndexTypes
<1>3. /\ trouble' \cap {"write", "worker"} = {} => Filled(r)'
      /\ r \notin overlap' => Alone(r)' /\ Cleared(r)' /\ Current(r)'
  BY <1>1, <1>7, OwnWithoutWrite, OwnDelete, OwnUpsert DEF IndexStep
<1>4. \A q \in Resource : q # r =>
         /\ Filled(q)' <=> Filled(q)
         /\ Alone(q)' <=> Alone(q)
         /\ Cleared(q)' <=> Cleared(q)
         /\ Current(q)' <=> Current(q)
  BY <1>1, <1>7, StepOthers
<1>5. Searchable'
  <2> SUFFICES ASSUME trouble' \cap {"write", "worker"} = {}, NEW q \in Resource
               PROVE  Filled(q)'
    BY DEF Searchable
  <2>1. trouble \cap {"write", "worker"} = {}
    BY <1>2
  <2>2. Filled(q)
    BY <1>1, <2>1 DEF Searchable
  <2> QED
    BY <1>3, <1>4, <2>2
<1>6. Serial'
  <2> SUFFICES ASSUME NEW q \in Resource, q \notin overlap'
               PROVE  Alone(q)' /\ Cleared(q)' /\ Current(q)'
    BY DEF Serial
  <2>1. Alone(q) /\ Cleared(q) /\ Current(q)
    BY <1>1, <1>2 DEF Serial
  <2> QED
    BY <1>3, <1>4, <2>1
<1> QED
  BY <1>1, <1>2, <1>5, <1>6, StepPrepared, StepOwned DEF IndexInv

(* Before the first job the store has what its owners indexed, and no job  *)
(* is active.                                                              *)
LEMMA IndexInitInv == Init => IndexInv
<1> SUFFICES ASSUME Init PROVE IndexInv
  OBVIOUS
<1>1. /\ store = Earlier /\ faults = 0 /\ document \in Documents
      /\ jpc = [j \in Job |-> "queued"] /\ attempts = [j \in Job |-> 0]
      /\ target = [j \in Job |-> "none"] /\ writer = [r \in Resource |-> {}] /\ overlap = {}
  BY DEF Init, IndexInit
<1>2. IndexTypes
  BY <1>1, StoreAssumption, IndexAssumption DEF IndexTypes
<1>3. Prepared
  BY <1>1 DEF Prepared
<1>4. Owned
  BY <1>1, OwnerAssumption DEF Owned
<1>5. Searchable
  BY <1>1 DEF Searchable, Filled
<1>6. Serial
  <2>1. \A j \in Job : jpc[j] \notin Active
    BY <1>1 DEF Active
  <2>2. ASSUME NEW r \in Resource PROVE Alone(r) /\ Cleared(r) /\ Current(r)
    <3>1. Alone(r) /\ Cleared(r)
      BY <2>1 DEF Alone, Cleared, Of, Emptied, Active
    <3>2. Matches(r)
      BY <1>1 DEF Matches
    <3> QED
      BY <3>1, <3>2 DEF Current
  <2> QED
    BY <2>2 DEF Serial
<1> QED
  BY <1>2, <1>3, <1>4, <1>5, <1>6 DEF IndexInv

(* A search writes nothing; it can only fail.                              *)
LEMMA SearchFrame ==
    ASSUME NEW s \in Search, SearchStep(s), faults \in 0..MaxFaults
    PROVE  /\ store' = store /\ faults' \in 0..MaxFaults /\ faults <= faults'
           /\ trouble \subseteq trouble'
<1>1. MaxFaults \in Nat
  BY StoreAssumption
<1>2. store' = store
  BY DEF SearchStep, Retrieve, SearchNextResource, Rank, LookUp, UseCached, Load, Insert,
         Promote, EvictTest, Evict, VectorSearch, Fuse
<1>3. Works \/ \E kind : Fails(kind)
  <2>1. CASE Retrieve(s) \/ SearchNextResource(s) \/ Rank(s) \/ LookUp(s) \/ UseCached(s)
    BY <2>1 DEF Retrieve, SearchNextResource, Rank, LookUp, UseCached
  <2>2. CASE Load(s) \/ VectorSearch(s)
    BY <2>2 DEF Load, VectorSearch
  <2>4. CASE Insert(s) \/ Promote(s) \/ EvictTest(s) \/ Evict(s)
    BY <2>4 DEF Insert, Promote, EvictTest, Evict
  <2>3. CASE Fuse(s)
    BY <2>3 DEF Fuse
  <2> QED
    BY <2>1, <2>2, <2>3, <2>4 DEF SearchStep
<1>4. CASE Works
  BY <1>1, <1>2, <1>4 DEF Works
<1>5. ASSUME NEW kind, Fails(kind) PROVE faults' \in 0..MaxFaults /\ faults <= faults' /\ trouble \subseteq trouble'
  BY <1>1, <1>5 DEF Fails
<1> QED
  BY <1>2, <1>3, <1>4, <1>5

LEMMA IndexKept ==
    ASSUME IndexInv, store' = store, UNCHANGED indexVars,
           faults' \in 0..MaxFaults, trouble \subseteq trouble'
    PROVE  IndexInv'
<1>1. /\ document' = document /\ jpc' = jpc /\ attempts' = attempts /\ target' = target
      /\ writer' = writer /\ overlap' = overlap
  BY DEF indexVars
<1>2. \A j \in Job : /\ Chunked(j)' = Chunked(j)
                     /\ HasChunks(j)' <=> HasChunks(j)
                     /\ Emptied(j)' <=> Emptied(j)
                     /\ Unfinished(j)' <=> Unfinished(j)
  <2> SUFFICES ASSUME NEW j \in Job
               PROVE  /\ Chunked(j)' = Chunked(j)
                      /\ HasChunks(j)' <=> HasChunks(j)
                      /\ Emptied(j)' <=> Emptied(j)
                      /\ Unfinished(j)' <=> Unfinished(j)
    OBVIOUS
  <2>1. Chunked(j)' = Chunked(j) /\ (HasChunks(j)' <=> HasChunks(j))
    BY <1>1, SameChunks
  <2> QED
    BY <1>1, <2>1 DEF Emptied, Unfinished
<1>3. \A r \in Resource : Of(r)' = Of(r) /\ Vectors(r)' = Vectors(r) /\ Of(r) \subseteq Job
  BY <1>1 DEF Of, Vectors
<1>4. \A r \in Resource : writer[r] \subseteq Job
  BY DEF IndexInv, IndexTypes
<1>5. \A r \in Resource : /\ Filled(r)' <=> Filled(r)
                          /\ Alone(r)' <=> Alone(r)
                          /\ Cleared(r)' <=> Cleared(r)
                          /\ Matches(r)' <=> Matches(r)
  BY <1>1, <1>2, <1>3, <1>4 DEF Filled, Alone, Cleared, Matches
<1>6. \A r \in Resource : Current(r)' <=> Current(r)
  BY <1>2, <1>3, <1>5 DEF Current
<1>7. IndexTypes' /\ Prepared' /\ Owned'
  BY <1>1, <1>2 DEF IndexInv, IndexTypes, Prepared, Owned
<1>8. Searchable'
  BY <1>5 DEF IndexInv, Searchable
<1>9. Serial'
  BY <1>1, <1>5, <1>6 DEF IndexInv, Serial
<1> QED
  BY <1>7, <1>8, <1>9 DEF IndexInv

LEMMA IndexNext == IndexInv /\ [Next]_vars => IndexInv'
<1> SUFFICES ASSUME IndexInv, [Next]_vars PROVE IndexInv'
  OBVIOUS
<1>1. faults \in 0..MaxFaults
  BY DEF IndexInv, IndexTypes
<1>2. ASSUME NEW j \in Job, IndexStep(j), UNCHANGED document PROVE IndexInv'
  BY <1>2, IndexStepInv
<1>3. ASSUME NEW s \in Search, SearchStep(s), UNCHANGED indexVars PROVE IndexInv'
  BY <1>1, <1>3, SearchFrame, IndexKept
<1>4. CASE UNCHANGED vars
  BY <1>1, <1>4, IndexKept DEF vars
<1> QED
  BY <1>2, <1>3, <1>4 DEF Next

(* What the invariant of the index says where no job is under way.         *)
LEMMA IndexInvImplies == IndexInv => IndexMatchesDocument /\ HarmlessOutage
<1> SUFFICES ASSUME IndexInv PROVE IndexMatchesDocument /\ HarmlessOutage
  OBVIOUS
<1>1. IndexMatchesDocument
  <2> SUFFICES ASSUME NEW r \in Resource, r \notin overlap,
                      \A j \in Job : document[j].resource = r
                                        => jpc[j] = "done" /\ target[j] = "milvus"
               PROVE  \A j \in writer[r] : Vectors(r) = Upserted({}, Chunked(j))
    BY DEF IndexMatchesDocument
  <2>1. Current(r)
    BY DEF IndexInv, Serial
  <2>2. \A j \in Of(r) : ~Unfinished(j)
    BY DEF Of, Unfinished
  <2> QED
    BY <2>1, <2>2 DEF Current, Matches
<1>2. HarmlessOutage
  <2> SUFFICES ASSUME trouble \cap {"write", "worker"} = {}, NEW r \in Resource, writer[r] # {},
                      \A j \in Job : document[j].resource = r => jpc[j] # "upsert"
               PROVE  Vectors(r) # {}
    BY DEF HarmlessOutage
  <2>1. Filled(r)
    BY DEF IndexInv, Searchable
  <2> QED
    BY <2>1 DEF Filled, Of, Emptied
<1> QED
  BY <1>1, <1>2

-----------------------------------------------------------------------------
(* WHAT A SEARCH FINDS                                                     *)

LEMMA RequestFacts ==
    ASSUME request \in Requests, NEW s \in Search
    PROVE  /\ request[s].kind \in {"legacy", "llamaindex", "hybrid"}
           /\ request[s].user \in User
           /\ request[s].resources \in SUBSET Resource
           /\ request[s].resources \subseteq ToSet(ResourceOrder)
           /\ IsFiniteSet(request[s].resources) /\ Cardinality(request[s].resources) \in Nat
           /\ request[s].top_k \in Nat \ {0} /\ request[s].rerank_top_n \in Nat \ {0}
           /\ request[s].max_docs \in Nat /\ request[s].score_threshold \in Nat
<1>1. /\ request[s].kind \in {"legacy", "llamaindex", "hybrid"}
      /\ request[s].user \in User
      /\ request[s].resources \subseteq ToSet(ResourceOrder)
      /\ request[s].top_k \in Nat \ {0} /\ request[s].rerank_top_n \in Nat \ {0}
      /\ request[s].max_docs \in Nat /\ request[s].score_threshold \in Nat
  BY SearchAssumption
<1>2. ResourceOrder \in Seq(Resource)
  BY SearchAssumption
<1>3. ToSet(ResourceOrder) \in SUBSET Resource
  BY <1>2 DEF ToSet
<1>4. IsFiniteSet(ToSet(ResourceOrder))
  <2>1. IsFiniteSet(DOMAIN ResourceOrder)
    BY <1>2, DomainFacts
  <2>2. ResourceOrder \in Surjection(DOMAIN ResourceOrder, ToSet(ResourceOrder))
    BY <1>2 DEF Surjection, ToSet
  <2> QED
    BY <2>1, <2>2, FS_Surjection
<1>5. IsFiniteSet(request[s].resources)
  BY <1>1, <1>4, FS_Subset
<1> QED
  BY <1>1, <1>3, <1>5, FS_CardinalityType

LEMMA BestFacts ==
    ASSUME NEW records \in SUBSET Chunk, NEW score, NEW limit \in Nat,
           NEW hits \in Best(records, score, limit)
    PROVE  hits \in Seq(Chunk) /\ \A i \in DOMAIN hits : hits[i] \in records
<1>1. PICK n \in 0..limit : hits \in [1..n -> records]
  BY DEF Best
<1>2. n \in Nat
  OBVIOUS
<1>3. \A i \in DOMAIN hits : hits[i] \in records
  BY <1>1
<1>4. hits \in [1..n -> Chunk]
  BY <1>1
<1>5. hits \in Seq(Chunk)
  BY <1>2, <1>4
<1> QED
  BY <1>3, <1>5

(* The store's filter: whatever the ranking, the hits are in the scope.    *)
LEMMA SearchHits ==
    ASSUME store \in SUBSET Chunk, NEW s, NEW R \in SUBSET request[s].resources,
           NEW k \in Nat, NEW hits \in search(store, request[s].user, R, k)
    PROVE  hits \in Seq(Chunk) /\ InScope(hits, s)
<1> DEFINE scope == {v \in store : search_filter(v, request[s].user, R)}
<1>1. PICK limit \in Nat : limit = IF k < top_k_limit THEN k ELSE top_k_limit
  BY StoreAssumption
<1>2. hits \in Best(scope, Score, limit)
  BY <1>1 DEF search
<1>3. scope \in SUBSET Chunk
  OBVIOUS
<1>4. \A v \in scope : v.user = request[s].user /\ v.resource \in request[s].resources
  BY DEF search_filter
<1> HIDE DEF scope
<1>5. hits \in Seq(Chunk) /\ \A i \in DOMAIN hits : hits[i] \in scope
  BY <1>2, <1>3, BestFacts
<1> QED
  BY <1>4, <1>5 DEF InScope

LEMMA CandidateFacts ==
    ASSUME request \in Requests, NEW s \in Search
    PROVE  candidate_top_k(s) \in Nat
<1>1. PICK top_k \in Nat : top_k = request[s].top_k
  BY RequestFacts
<1>2. PICK n \in Nat : n = Cardinality(request[s].resources)
  BY RequestFacts
<1>3. PICK m \in Nat : m = Max({top_k * 8, top_k + n})
  <2>1. top_k * 8 \in Nat /\ top_k + n \in Nat
    OBVIOUS
  <2>2. PICK a \in Nat, b \in Nat : a = top_k * 8 /\ b = top_k + n
    BY <2>1
  <2>3. \E x \in {a, b} : \A y \in {a, b} : x >= y
    OBVIOUS
  <2>4. Max({a, b}) \in {a, b}
    BY <2>3 DEF Max
  <2> QED
    BY <2>2, <2>4
<1>4. Min({m, 100}) \in Nat
  <2>1. \E x \in {m, 100} : \A y \in {m, 100} : x =< y
    OBVIOUS
  <2>2. Min({m, 100}) \in {m, 100}
    BY <2>1 DEF Min
  <2> QED
    BY <2>2
<1>5. candidate_top_k(s) = IF n <= 1 THEN top_k ELSE Min({m, 100})
  BY <1>1, <1>2, <1>3 DEF candidate_top_k
<1> QED
  BY <1>4, <1>5

(* The resources a request names, one after the other: all of them its own,*)
(* and at least one when it names several.                                 *)
LEMMA NamedFacts ==
    ASSUME request \in Requests, NEW s \in Search
    PROVE  /\ Len(Named(s)) \in Nat
           /\ \A i \in 1..Len(Named(s)) : Named(s)[i] \in request[s].resources
           /\ Multi(s) => Len(Named(s)) > 0
<1> DEFINE K == {i \in DOMAIN ResourceOrder : ResourceOrder[i] \in request[s].resources}
<1>1. ResourceOrder \in Seq(Resource) /\ K \in SUBSET DOMAIN ResourceOrder
  BY SearchAssumption
<1>2. Named(s) = Picked(ResourceOrder, K)
  BY DEF Named
<1>3. \A i \in K : ResourceOrder[i] \in request[s].resources
  OBVIOUS
<1>4. ASSUME Multi(s) PROVE K # {}
  <2>1. request[s].resources # {}
    BY <1>4, FS_EmptySet DEF Multi
  <2>2. PICK r \in request[s].resources : TRUE
    BY <2>1
  <2>3. PICK i \in DOMAIN ResourceOrder : ResourceOrder[i] = r
    BY <2>2, RequestFacts DEF ToSet
  <2> QED
    BY <2>3
<1> HIDE DEF K
<1>5. /\ Len(Named(s)) = Cardinality(K) /\ IsFiniteSet(K) /\ Cardinality(K) \in Nat
      /\ \E o \in [1..Cardinality(K) -> K] :
            \A i \in 1..Cardinality(K) : Named(s)[i] = ResourceOrder[o[i]]
  <2>1. /\ Len(Picked(ResourceOrder, K)) = Cardinality(K)
        /\ IsFiniteSet(K) /\ Cardinality(K) \in Nat
        /\ Picks(Picked(ResourceOrder, K), ResourceOrder, K)
    BY <1>1, PickedFacts
  <2> QED
    BY <1>2, <2>1 DEF Picks
<1>6. K # {} => Cardinality(K) # 0
  BY <1>5, FS_EmptySet, Zenon
<1>7. \A i \in 1..Cardinality(K) : Named(s)[i] \in request[s].resources
  BY <1>3, <1>5
<1> QED
  BY <1>4, <1>5, <1>6, <1>7

LEMMA JoinedScope ==
    ASSUME NEW a \in Seq(Chunk), NEW b \in Seq(Chunk), NEW s, InScope(a, s), InScope(b, s)
    PROVE  a \o b \in Seq(Chunk) /\ InScope(a \o b, s)
<1>1. /\ a \o b \in Seq(Chunk) /\ Len(a) \in Nat /\ Len(b) \in Nat
      /\ DOMAIN (a \o b) = 1..(Len(a) + Len(b))
  OBVIOUS
<1>2. ASSUME NEW i \in DOMAIN (a \o b)
      PROVE (\E k \in DOMAIN a : (a \o b)[i] = a[k]) \/ (\E k \in DOMAIN b : (a \o b)[i] = b[k])
  <2>1. CASE i <= Len(a)
    BY <1>1, <2>1
  <2>2. CASE i > Len(a)
    <3>1. i - Len(a) \in DOMAIN b /\ (a \o b)[i] = b[i - Len(a)]
      BY <1>1, <2>2
    <3> QED
      BY <3>1
  <2> QED
    BY <1>1, <2>1, <2>2
<1> QED
  BY <1>1, <1>2 DEF InScope

(* _deduplicate_similar_chunks leaves no text twice.                       *)
LEMMA DeduplicatedFacts ==
    ASSUME NEW hits \in Seq(Chunk)
    PROVE  /\ Deduplicated(hits) \in Seq(Chunk)
           /\ Subsequence(Deduplicated(hits), hits)
           /\ Distinct(Deduplicated(hits))
<1> DEFINE K == {i \in DOMAIN hits : \A k \in 1..(i - 1) : hits[k].text # hits[i].text}
<1>1. K \in SUBSET DOMAIN hits /\ \A i \in K : i \in Nat \ {0}
  BY SMT
<1>2. \A i, k \in K : k < i => hits[k].text # hits[i].text
  BY <1>1
<1>3. Deduplicated(hits) = Picked(hits, K)
  BY DEF Deduplicated
<1> HIDE DEF K
<1>4. Picked(hits, K) \in Seq(Chunk) /\ Subsequence(Picked(hits, K), hits)
  BY <1>1, PickedFacts, PickedSubsequence
<1>5. PICK o \in [1..Cardinality(K) -> K] :
        /\ \A i \in 1..Cardinality(K) : Picked(hits, K)[i] = hits[o[i]]
        /\ \A i, k \in 1..Cardinality(K) : i < k => o[i] < o[k]
  <2>1. Picks(Picked(hits, K), hits, K)
    BY <1>1, PickedFacts
  <2> QED
    BY <2>1 DEF Picks
<1>6. DOMAIN Picked(hits, K) = 1..Cardinality(K)
  BY <1>1, PickedFacts
<1>7. Distinct(Picked(hits, K))
  <2> SUFFICES ASSUME NEW i \in 1..Cardinality(K), NEW k \in 1..Cardinality(K), i < k
               PROVE  Picked(hits, K)[i].text # Picked(hits, K)[k].text
    BY <1>6 DEF Distinct
  <2>1. o[i] \in K /\ o[k] \in K /\ o[i] < o[k]
    BY <1>5
  <2> QED
    BY <1>2, <1>5, <2>1
<1> QED
  BY <1>3, <1>4, <1>7

LEMMA NoTokens == ASSUME NEW hits \in Seq(Chunk), Len(hits) = 0 PROVE TokenSum(hits) = 0
<1> DEFINE F(g) == [n \in 0..Len(hits) |->
                       IF n = 0 THEN 0 ELSE g[n - 1] + Tokens[hits[n].text]]
           total == CHOOSE g : g = F(g)
           none == [n \in 0..0 |-> 0]
<1>1. none = F(none)
  OBVIOUS
<1>2. total = F(total)
  BY <1>1
<1>3. TokenSum(hits) = total[Len(hits)]
  BY DEF TokenSum
<1> HIDE DEF total
<1> QED
  BY <1>2, <1>3

(* _compress_context keeps the beginning of what it is given, within the   *)
(* budget unless that is a single chunk.                                   *)
LEMMA CompressedFacts ==
    ASSUME NEW hits \in Seq(Chunk)
    PROVE  LET c == compress_context(hits)
           IN  /\ c \in Seq(Chunk) /\ Subsequence(c, hits) /\ Len(c) <= Len(hits)
               /\ TokenSum(c) <= max_context_tokens \/ Len(c) = 1
<1> DEFINE Fits(n) == n <= 1 \/ TokenSum(SubSeq(hits, 1, n)) <= max_context_tokens
           first == {n \in 0..Len(hits) : \A m \in 1..n : Fits(m)}
<1>1. Len(hits) \in Nat /\ max_context_tokens \in Nat
  BY SearchAssumption
<1>2. 0 \in first /\ first \in SUBSET (0..Len(hits)) /\ first \in SUBSET Nat
  BY <1>1
<1>3. \A n \in first : n > 1 => TokenSum(SubSeq(hits, 1, n)) <= max_context_tokens
  <2> SUFFICES ASSUME NEW n \in first, n > 1
               PROVE  TokenSum(SubSeq(hits, 1, n)) <= max_context_tokens
    OBVIOUS
  <2>1. n \in 1..n /\ ~(n <= 1)
    BY <1>2
  <2>2. Fits(n)
    BY <2>1
  <2> QED
    BY <2>1, <2>2
<1>4. compress_context(hits) = SubSeq(hits, 1, Max(first))
  BY DEF compress_context
<1> HIDE DEF first, Fits
<1>5. IsFiniteSet(0..Len(hits))
  BY <1>1, FS_Interval
<1>6. IsFiniteSet(first)
  BY <1>2, <1>5, FS_Subset
<1>7. \E m \in first : \A x \in first : x <= m
  BY <1>2, <1>6, LargestExists
<1>8. \E m \in first : \A x \in first : m >= x
  BY <1>2, <1>7
<1>9. Max(first) \in first
  BY <1>8 DEF Max
<1>10. PICK n \in first : n = Max(first)
  BY <1>9
<1>11. PICK c : c = compress_context(hits)
  OBVIOUS
<1>12. c = SubSeq(hits, 1, n) /\ n \in 0..Len(hits)
  BY <1>2, <1>4, <1>10, <1>11
<1>13. c \in Seq(Chunk) /\ Len(c) = n /\ Subsequence(c, hits)
  BY <1>12, SubSeqFacts, PrefixSubsequence
<1>14. TokenSum(c) <= max_context_tokens \/ Len(c) = 1
  <2>1. CASE n = 0
    <3>1. TokenSum(c) = 0
      BY <1>13, <2>1, NoTokens
    <3> QED
      BY <1>1, <3>1
  <2>2. CASE n = 1
    BY <1>13, <2>2
  <2>3. CASE n > 1
    BY <1>3, <1>12, <2>3
  <2> QED
    BY <1>12, <2>1, <2>2, <2>3
<1> QED
  BY <1>1, <1>11, <1>12, <1>13, <1>14

(* The cache of BM25 indexes.                                              *)
KeysOf(c) == {c[i].key : i \in DOMAIN c}

LEMMA KeysFacts ==
    ASSUME NEW c \in Seq(IndexEntry)
    PROVE  IsFiniteSet(KeysOf(c)) /\ Cardinality(KeysOf(c)) <= Len(c)
<1> DEFINE f == [i \in DOMAIN c |-> c[i].key]
<1>1. IsFiniteSet(DOMAIN c) /\ Cardinality(DOMAIN c) = Len(c)
  BY DomainFacts
<1>2. f \in Surjection(DOMAIN c, KeysOf(c))
  BY DEF Surjection, KeysOf
<1> HIDE DEF f
<1> QED
  BY <1>1, <1>2, FS_Surjection

(* What leaves the settled entries as few: nobody stops entering a key that*)
(* stays in the cache, and no key comes but the one that s enters.         *)
LEMMA SettledShrinks ==
    ASSUME NEW s \in Search, request' = request,
           \A t \in Search \ {s} : spc'[t] = spc[t],
           KeysOf(cache') \subseteq KeysOf(cache) \cup {cache_key(s)},
           cache_key(s) \in KeysOf(cache') =>
               \/ spc'[s] \in {"stored", "evict", "pop"}
               \/ /\ cache_key(s) \in KeysOf(cache)
                  /\ spc[s] \notin {"stored", "evict", "pop"}
    PROVE  Settled' \subseteq Settled
<1>1. \A t : cache_key(t)' = cache_key(t)
  BY DEF cache_key
<1>2. Settled = KeysOf(cache) \ {cache_key(t) : t \in Entering}
  BY DEF Settled, KeysOf
<1>3. Settled' = KeysOf(cache') \ {cache_key(t) : t \in Entering'}
  BY <1>1 DEF Settled, KeysOf
<1>4. \A t \in Search \ {s} : t \in Entering <=> t \in Entering'
  BY DEF Entering
<1>5. /\ s \in Entering <=> spc[s] \in {"stored", "evict", "pop"}
      /\ s \in Entering' <=> spc'[s] \in {"stored", "evict", "pop"}
      /\ Entering \subseteq Search
  BY DEF Entering
<1>6. SUFFICES ASSUME NEW x \in Settled' PROVE x \in Settled
  OBVIOUS
<1>7. x \in KeysOf(cache') /\ \A t \in Entering' : x # cache_key(t)
  BY <1>3, <1>6
<1>8. x \in KeysOf(cache)
  BY <1>5, <1>7
<1>9. ASSUME NEW t \in Entering PROVE x # cache_key(t)
  BY <1>4, <1>5, <1>7, <1>9
<1> QED
  BY <1>2, <1>8, <1>9

LEMMA BoundedKept ==
    ASSUME SearchTypes, Bounded, Settled' \subseteq Settled
    PROVE  Bounded'
<1>1. cache_max_entries \in Nat /\ cache \in Seq(IndexEntry)
  BY SearchAssumption DEF SearchTypes
<1>2. Settled \subseteq KeysOf(cache)
  BY DEF Settled, KeysOf
<1>3. IsFiniteSet(Settled)
  BY <1>1, <1>2, KeysFacts, FS_Subset
<1>4. PICK old, new : old = Settled /\ new = Settled'
  OBVIOUS
<1>5. Cardinality(new) <= Cardinality(old) /\ Cardinality(new) \in Nat /\ Cardinality(old) \in Nat
  BY <1>3, <1>4, FS_Subset, FS_CardinalityType
<1>6. Cardinality(old) <= cache_max_entries
  BY <1>4 DEF Bounded
<1>7. Cardinality(new) <= cache_max_entries
  BY <1>1, <1>5, <1>6
<1> QED
  BY <1>4, <1>7 DEF Bounded

LEMMA BoundedByLength ==
    ASSUME NEW c \in Seq(IndexEntry), Len(c) <= cache_max_entries, NEW S \in SUBSET KeysOf(c)
    PROVE  Cardinality(S) <= cache_max_entries
<1>1. IsFiniteSet(KeysOf(c)) /\ Cardinality(KeysOf(c)) <= Len(c)
  BY KeysFacts
<1>2. /\ IsFiniteSet(S) /\ Cardinality(S) <= Cardinality(KeysOf(c))
      /\ Cardinality(S) \in Nat /\ Cardinality(KeysOf(c)) \in Nat
  BY <1>1, FS_Subset, FS_CardinalityType
<1> QED
  BY <1>1, <1>2, SearchAssumption

LEMMA WithoutFacts ==
    ASSUME cache \in Seq(IndexEntry), NEW key
    PROVE  /\ Cached(key) <=> key \in KeysOf(cache)
           /\ Cached(key) =>
                 /\ Entry(key) \in IndexEntry
                 /\ Append(Without(key), Entry(key)) \in Seq(IndexEntry)
                 /\ KeysOf(Append(Without(key), Entry(key))) \subseteq KeysOf(cache)
<1> DEFINE K == {i \in DOMAIN cache : cache[i].key # key}
<1>1. K \in SUBSET DOMAIN cache
  OBVIOUS
<1>2. Without(key) = Picked(cache, K)
  BY DEF Without
<1>3. Cached(key) <=> key \in KeysOf(cache)
  BY DEF Cached, KeysOf
<1> HIDE DEF K
<1>4. PICK w \in Seq(IndexEntry) : w = Without(key) /\ Subsequence(w, cache)
  BY <1>1, <1>2, PickedFacts, PickedSubsequence
<1>5. PICK o \in [DOMAIN w -> DOMAIN cache] : \A i \in DOMAIN w : w[i] = cache[o[i]]
  BY <1>4 DEF Subsequence
<1>6. ASSUME Cached(key)
      PROVE  /\ Entry(key) \in IndexEntry
             /\ Append(w, Entry(key)) \in Seq(IndexEntry)
             /\ KeysOf(Append(w, Entry(key))) \subseteq KeysOf(cache)
  <2>1. PICK j \in DOMAIN cache : Entry(key) = cache[j]
    BY <1>6 DEF Cached, Entry
  <2>2. PICK e \in IndexEntry : e = cache[j] /\ e = Entry(key)
    BY <2>1
  <2>3. /\ Append(w, e) \in Seq(IndexEntry) /\ Len(w) \in Nat /\ DOMAIN w = 1..Len(w)
        /\ DOMAIN Append(w, e) = 1..(Len(w) + 1)
        /\ \A i \in 1..Len(w) : Append(w, e)[i] = w[i]
        /\ Append(w, e)[Len(w) + 1] = e
    OBVIOUS
  <2>4. ASSUME NEW i \in DOMAIN Append(w, e) PROVE \E k \in DOMAIN cache : Append(w, e)[i] = cache[k]
    <3>1. CASE i \in 1..Len(w)
      BY <1>5, <2>3, <3>1
    <3>2. CASE i = Len(w) + 1
      BY <2>2, <2>3, <3>2
    <3> QED
      BY <2>3, <3>1, <3>2
  <2> QED
    BY <2>2, <2>3, <2>4 DEF KeysOf
<1> QED
  BY <1>3, <1>4, <1>6

(* The scope of BM25: hits of an index of any documents, filtered.         *)
LEMMA Bm25Facts ==
    ASSUME request \in Requests, NEW s \in Search, NEW docs \in SUBSET Chunk,
           NEW hits \in bm25_search(docs, s)
    PROVE  hits \in Seq(Chunk) /\ InScope(hits, s)
<1> DEFINE q == request[s]
           Matching(d) == Bm25Score[d.text] > 0 /\ search_filter(d, q.user, q.resources)
<1>1. PICK top \in Best(docs, Bm25Score, q.rerank_top_n) :
         hits = Picked(top, {i \in DOMAIN top : Matching(top[i])})
  BY DEF bm25_search
<1>2. PICK limit \in Nat : limit = q.rerank_top_n
  BY RequestFacts
<1>3. top \in Seq(Chunk)
  BY <1>1, <1>2, BestFacts
<1> DEFINE K == {i \in DOMAIN top : Matching(top[i])}
<1>4. /\ K \in SUBSET DOMAIN top
      /\ \A i \in K : top[i].user = q.user /\ top[i].resource \in q.resources
  BY DEF search_filter
<1>5. hits = Picked(top, K)
  BY <1>1
<1> HIDE DEF K
<1>6. Picked(top, K) \in Seq(Chunk) /\ DOMAIN Picked(top, K) = 1..Cardinality(K)
  BY <1>3, <1>4, PickedFacts
<1>7. PICK o \in [1..Cardinality(K) -> K] :
         \A i \in 1..Cardinality(K) : Picked(top, K)[i] = top[o[i]]
  <2>1. Picks(Picked(top, K), top, K)
    BY <1>3, <1>4, PickedFacts
  <2> QED
    BY <2>1 DEF Picks
<1>8. \A i \in DOMAIN hits : hits[i] = top[o[i]] /\ o[i] \in K
  BY <1>5, <1>6, <1>7
<1>9. InScope(hits, s)
  BY <1>4, <1>8 DEF InScope
<1> QED
  BY <1>5, <1>6, <1>9

LEMMA ScaleFacts == Scale \in Nat
<1>1. PICK k \in Nat : k = rrf_k
  BY SearchAssumption
<1>2. PICK a \in Nat, b \in Nat, c \in Nat, d \in Nat, e \in Nat, f \in Nat :
         a = k + 1 /\ b = k + 2 /\ c = k + 3 /\ d = k + 4 /\ e = k + 5 /\ f = k + 6
  OBVIOUS
<1>3. PICK ab \in Nat : ab = a * b
  OBVIOUS
<1>4. PICK abc \in Nat : abc = ab * c
  OBVIOUS
<1>5. PICK abcd \in Nat : abcd = abc * d
  OBVIOUS
<1>6. PICK abcde \in Nat : abcde = abcd * e
  OBVIOUS
<1>7. abcde * f \in Nat
  OBVIOUS
<1>8. Scale = abcde * f
  BY <1>1, <1>2, <1>3, <1>4, <1>5, <1>6 DEF Scale
<1> QED
  BY <1>7, <1>8

LEMMA RankShareFacts ==
    ASSUME NEW hits \in Seq(Chunk), NEW key
    PROVE  RankShare(hits, key) \in Int
<1> DEFINE ranks == {i \in DOMAIN hits : id(hits[i]) = key}
<1>1. PICK n \in Nat : n = Len(hits)
  OBVIOUS
<1>2. ranks \in SUBSET (0..n) /\ \A i \in ranks : i \in Nat \ {0}
  BY <1>1
<1>3. RankShare(hits, key) = IF ranks = {} THEN 0 ELSE Scale \div (rrf_k + Min(ranks))
  BY DEF RankShare
<1> HIDE DEF ranks
<1>4. CASE ranks = {}
  BY <1>3, <1>4
<1>5. CASE ranks # {}
  <2>1. \E m \in ranks : \A x \in ranks : m <= x
    BY <1>2, <1>5, SmallestExists
  <2>2. Min(ranks) \in ranks
    BY <2>1 DEF Min
  <2>3. PICK d \in Nat \ {0} : d = rrf_k + Min(ranks)
    <3>1. PICK m \in Nat \ {0} : m = Min(ranks)
      BY <1>2, <2>2
    <3>2. rrf_k \in Nat
      BY SearchAssumption
    <3> QED
      BY <3>1, <3>2
  <2>4. PICK c \in Nat : c = Scale
    BY ScaleFacts
  <2>5. c \div d \in Int
    OBVIOUS
  <2> QED
    BY <1>3, <1>5, <2>3, <2>4, <2>5
<1> QED
  BY <1>4, <1>5

(* reciprocal_rank_fusion makes up no hit.                                 *)
LEMMA FusionFacts ==
    ASSUME NEW bm25 \in Seq(Chunk), NEW vector \in Seq(Chunk)
    PROVE  /\ reciprocal_rank_fusion(bm25, vector) \in Seq(Chunk)
           /\ \A s : InScope(bm25, s) /\ InScope(vector, s)
                        => InScope(reciprocal_rank_fusion(bm25, vector), s)
<1> DEFINE joined == bm25 \o vector
           carriers == {i \in DOMAIN joined : \A k \in 1..(i - 1) : id(joined[k]) # id(joined[i])}
           P(i) == Fused(bm25, vector, id(joined[i]))
           before == {p \in carriers \X carriers :
                         P(p[1]) > P(p[2]) \/ (P(p[1]) = P(p[2]) /\ p[1] < p[2])}
           points == [i \in carriers |-> P(i)]
<1>1. joined \in Seq(Chunk) /\ carriers \in SUBSET DOMAIN joined
  OBVIOUS
<1>2. \A key : Fused(bm25, vector, key) \in Int
  <2> SUFFICES ASSUME NEW key PROVE Fused(bm25, vector, key) \in Int
    OBVIOUS
  <2>1. RankShare(bm25, key) \in Int /\ RankShare(vector, key) \in Int
    BY RankShareFacts
  <2> QED
    BY <2>1 DEF Fused
<1>3. reciprocal_rank_fusion(bm25, vector) = Arranged(joined, carriers, before)
  BY DEF reciprocal_rank_fusion
<1> HIDE DEF joined, carriers
<1>4. \A x, y \in carriers : <<x, y>> \in before <=>
         points[x] > points[y] \/ (points[x] = points[y] /\ x < y)
  BY Zenon
<1>5. \A x \in carriers : points[x] \in Int
  BY <1>2
<1>6. RanksBy(before, points, carriers)
  BY <1>4, <1>5, Zenon DEF RanksBy
<1> HIDE DEF before, points, P
<1>7. /\ Arranged(joined, carriers, before) \in Seq(Chunk)
      /\ Ranks(Arranged(joined, carriers, before), joined, carriers, points)
  BY <1>1, <1>6, RankedFacts
<1>8. PICK fused \in Seq(Chunk) : fused = Arranged(joined, carriers, before)
  BY <1>7
<1>9. PICK o \in [DOMAIN fused -> carriers] : \A i \in DOMAIN fused : fused[i] = joined[o[i]]
  BY <1>7, <1>8, Zenon DEF Ranks
<1>10. ASSUME NEW s, InScope(bm25, s), InScope(vector, s) PROVE InScope(fused, s)
  <2>1. InScope(joined, s)
    BY <1>10, JoinedScope DEF joined
  <2>2. \A i \in DOMAIN fused : o[i] \in DOMAIN joined
    BY <1>1, <1>9
  <2> QED
    BY <1>9, <2>1, <2>2 DEF InScope
<1> QED
  BY <1>3, <1>8, <1>10

-----------------------------------------------------------------------------
(* STEPS OF A SEARCH                                                       *)

Moved(s, l, f, r) ==
    /\ spc' = [spc EXCEPT ![s] = l]
    /\ found' = [found EXCEPT ![s] = f]
    /\ result' = [result EXCEPT ![s] = r] \/ (result' = result /\ r = result[s])
FineStep(s) ==
    \E l \in SearchLabel, f \in Findings : \E r :
        r.chunks \in Seq(Chunk) /\ Moved(s, l, f, r) /\ Fine(s, l, f, r, faults')

LEMMA FineKept ==
    ASSUME request' = request, NEW s, NEW n \in Nat, faults' \in Nat, n <= faults',
           Fine(s, spc'[s], found'[s], result'[s], n)
    PROVE  Fine(s, spc[s], found[s], result[s], faults)'
<1>1. OnPath(s, spc[s], found[s])'
  <2>1. Named(s)' = Named(s)
    BY DEF Named
  <2> QED
    BY <2>1 DEF Fine, OnPath
<1>2. NotYet(spc[s], result[s])'
  BY DEF Fine, NotYet
<1>3. FoundInScope(s, found[s])' /\ AnswerInScope(s, spc[s], result[s])'
  BY DEF Fine, FoundInScope, AnswerInScope, InScope
<1>4. Blamed(spc[s], found[s], faults)'
  BY DEF Fine, Blamed
<1>5. Marked(s, spc[s], found[s], result[s])'
  BY DEF Fine, Marked, Sorted
<1>6. Ranked(s, result[s])'
  <2>1. Multi(s)' <=> Multi(s)
    BY DEF Multi
  <2> QED
    BY <2>1 DEF Fine, Ranked, Sorted, AtLeast, Distinct
<1> QED
  BY <1>1, <1>2, <1>3, <1>4, <1>5, <1>6 DEF Fine

LEMMA StepKeeps ==
    ASSUME SearchInv, request' = request, NEW s \in Search, FineStep(s),
           faults \in Nat, faults' \in Nat, faults <= faults',
           cache' \in Seq(IndexEntry), Bounded'
    PROVE  SearchInv'
<1>1. PICK l \in SearchLabel, f \in Findings : \E r :
         r.chunks \in Seq(Chunk) /\ Moved(s, l, f, r) /\ Fine(s, l, f, r, faults')
  BY DEF FineStep
<1>2. PICK r : r.chunks \in Seq(Chunk) /\ Moved(s, l, f, r) /\ Fine(s, l, f, r, faults')
  BY <1>1
<1>3. /\ spc \in [Search -> SearchLabel] /\ found \in [Search -> Findings]
      /\ DOMAIN result = Search /\ \A t \in Search : result[t].chunks \in Seq(Chunk)
      /\ request \in Requests
  BY DEF SearchInv, SearchTypes
<1>4. spc' \in [Search -> SearchLabel] /\ found' \in [Search -> Findings] /\ DOMAIN result' = Search
  BY <1>2, <1>3 DEF Moved
<1>5. spc'[s] = l /\ found'[s] = f /\ result'[s] = r
  BY <1>2, <1>3 DEF Moved
<1>6. \A t \in Search : t # s => spc'[t] = spc[t] /\ found'[t] = found[t] /\ result'[t] = result[t]
  BY <1>2, <1>3 DEF Moved
<1>7. \A t \in Search : result'[t].chunks \in Seq(Chunk)
  BY <1>2, <1>3, <1>5, <1>6
<1>8. SearchTypes'
  BY <1>3, <1>4, <1>7 DEF SearchTypes
<1>9. ASSUME NEW t \in Search PROVE Fine(t, spc[t], found[t], result[t], faults)'
  <2>1. CASE t = s
    <3>1. PICK n \in Nat : n = faults'
      OBVIOUS
    <3>2. Fine(s, spc'[s], found'[s], result'[s], n)
      BY <1>2, <1>5, <3>1
    <3>3. n <= faults'
      BY <3>1
    <3> QED
      BY <2>1, <3>2, <3>3, FineKept
  <2>2. CASE t # s
    <3>1. PICK n \in Nat : n = faults
      OBVIOUS
    <3>2. Fine(t, spc'[t], found'[t], result'[t], n)
      BY <1>6, <2>2, <3>1 DEF SearchInv
    <3> QED
      BY <3>1, <3>2, FineKept
  <2> QED
    BY <2>1, <2>2
<1> QED
  BY <1>8, <1>9 DEF SearchInv

(* A request that goes on, or ends without an answer.                      *)
LEMMA Onward ==
    ASSUME SearchTypes, NEW s \in Search, Fine(s, spc[s], found[s], result[s], faults),
           spc[s] # "answered",
           NEW l \in SearchLabel \ {"answered", "forbidden"}, NEW f \in Findings,
           spc' = [spc EXCEPT ![s] = l], found' = [found EXCEPT ![s] = f], result' = result,
           FoundInScope(s, f), OnPath(s, l, f), Blamed(l, f, faults')
    PROVE  FineStep(s)
<1>1. PICK r : r = result[s]
  OBVIOUS
<1>2. r.chunks \in Seq(Chunk)
  BY <1>1 DEF SearchTypes
<1>3. r = NoResult /\ AnswerInScope(s, spc[s], r) /\ Ranked(s, r)
  BY <1>1 DEF Fine, NotYet
<1>4. NotYet(l, r) /\ AnswerInScope(s, l, r) /\ Marked(s, l, f, r)
  BY <1>3 DEF NotYet, AnswerInScope, Marked
<1>5. Fine(s, l, f, r, faults')
  BY <1>3, <1>4 DEF Fine
<1>6. Moved(s, l, f, r)
  BY <1>1 DEF Moved
<1> QED
  BY <1>2, <1>5, <1>6 DEF FineStep

LEMMA Unavailable ==
    ASSUME SearchTypes, NEW s \in Search, Fine(s, spc[s], found[s], result[s], faults),
           spc[s] # "answered", Raised(s, "unavailable"), faults' > 0
    PROVE  FineStep(s)
<1>1. found \in [Search -> Findings] /\ found[s] \in Findings
  BY DEF SearchTypes
<1>2. spc' = [spc EXCEPT ![s] = "unavailable"] /\ found' = found /\ result' = result
  BY DEF Raised
<1>3. PICK f \in Findings : f = found[s]
  BY <1>1
<1>4. found' = [found EXCEPT ![s] = f]
  BY <1>1, <1>2, <1>3
<1>5. FoundInScope(s, f)
  BY <1>3 DEF Fine
<1>6. OnPath(s, "unavailable", f) /\ Blamed("unavailable", f, faults')
  BY DEF OnPath, Blamed
<1>7. "unavailable" \in SearchLabel \ {"answered", "forbidden"}
  BY DEF SearchLabel, Ended
<1> QED
  BY <1>2, <1>4, <1>5, <1>6, <1>7, Onward

LEMMA FaultFacts ==
    ASSUME faults \in Nat
    PROVE  /\ Works => faults' = faults
           /\ \A kind : Fails(kind) => faults' \in Nat /\ faults' > 0 /\ faults <= faults'
BY DEF Works, Fails

Ready(s) ==
    /\ store \in SUBSET Chunk /\ faults \in Nat
    /\ SearchTypes /\ Fine(s, spc[s], found[s], result[s], faults)

LEMMA ReadyFacts ==
    ASSUME NEW s \in Search, Ready(s)
    PROVE  /\ store \in SUBSET Chunk /\ faults \in Nat /\ request \in Requests
           /\ SearchTypes /\ Fine(s, spc[s], found[s], result[s], faults)
           /\ found \in [Search -> Findings] /\ found[s] \in Findings
           /\ FoundInScope(s, found[s]) /\ OnPath(s, spc[s], found[s])
           /\ Blamed(spc[s], found[s], faults)
BY DEF Ready, SearchTypes, Fine

(* New findings of one request.                                            *)
LEMMA VectorFound ==
    ASSUME NEW f \in Findings, NEW hits \in Seq(Chunk), NEW g, g = [f EXCEPT !.vector = hits]
    PROVE  /\ g \in Findings /\ g.vector = hits /\ g.bm25 = f.bm25 /\ g.asked = f.asked
           /\ g.vector_failed = f.vector_failed
BY DEF Findings

LEMMA NoVectorFound ==
    ASSUME NEW f \in Findings, NEW g, g = [f EXCEPT !.vector_failed = TRUE]
    PROVE  g \in Findings /\ g.vector = f.vector /\ g.bm25 = f.bm25
BY DEF Findings

LEMMA RetrieveFine ==
    ASSUME NEW s \in Search, Ready(s), Retrieve(s)
    PROVE  FineStep(s)
<1>1. spc[s] = "new" /\ request[s].kind # "hybrid"
  BY DEF Retrieve
<1>2. ASSUME NEW hits \in search(store, request[s].user, request[s].resources, candidate_top_k(s)),
             found' = [found EXCEPT ![s].vector = hits],
             spc' = [spc EXCEPT ![s] = IF Multi(s) THEN "each" ELSE "rank"],
             Works, result' = result
      PROVE  FineStep(s)
  <2>1. PICK k \in Nat : k = candidate_top_k(s)
    BY ReadyFacts, CandidateFacts
  <2>2. request[s].resources \in SUBSET request[s].resources
    OBVIOUS
  <2>3. hits \in Seq(Chunk) /\ InScope(hits, s)
    BY <1>2, <2>1, <2>2, ReadyFacts, SearchHits
  <2>4. PICK f : f = [found[s] EXCEPT !.vector = hits]
    OBVIOUS
  <2>5. /\ f \in Findings /\ f.vector = hits /\ f.bm25 = found[s].bm25
        /\ f.asked = found[s].asked /\ f.vector_failed = found[s].vector_failed
    BY <2>3, <2>4, ReadyFacts, VectorFound
  <2>6. found' = [found EXCEPT ![s] = f]
    BY <1>2, <2>4
  <2>7. PICK l \in SearchLabel \ {"answered", "forbidden"} :
           l = IF Multi(s) THEN "each" ELSE "rank"
    BY DEF SearchLabel, Ended
  <2>8. FoundInScope(s, f)
    BY <2>3, <2>5, ReadyFacts DEF FoundInScope
  <2>9. OnPath(s, l, f)
    <3>1. f.asked = 0
      BY <1>1, <2>5, ReadyFacts DEF OnPath
    <3>2. Multi(s) => Len(Named(s)) > 0
      BY ReadyFacts, NamedFacts
    <3> QED
      BY <1>1, <2>7, <3>1, <3>2 DEF OnPath
  <2>10. Blamed(l, f, faults')
    BY <1>1, <1>2, <2>5, <2>7, ReadyFacts, FaultFacts DEF Blamed
  <2> QED
    BY <1>1, <1>2, <2>5, <2>6, <2>7, <2>8, <2>9, <2>10, ReadyFacts, Onward
<1>3. ASSUME NEW kind, Fails(kind), Raised(s, "unavailable") PROVE FineStep(s)
  BY <1>1, <1>3, ReadyFacts, FaultFacts, Unavailable
<1> QED
  BY <1>2, <1>3 DEF Retrieve

LEMMA SearchNextResourceFine ==
    ASSUME NEW s \in Search, Ready(s), SearchNextResource(s)
    PROVE  FineStep(s)
<1>1. spc[s] = "each"
  BY DEF SearchNextResource
<1>2. PICK asked \in Nat : asked = found[s].asked
  BY ReadyFacts DEF Findings
<1>3. PICK next \in Nat : next = asked + 1
  OBVIOUS
<1>4. PICK n \in Nat : n = Len(Named(s))
  BY ReadyFacts, NamedFacts
<1>5. asked < n /\ request[s].kind # "hybrid"
  BY <1>1, <1>2, <1>4, ReadyFacts DEF OnPath
<1>6. ASSUME NEW hits \in search(store, request[s].user, {Named(s)[next]}, 1),
             found' = [found EXCEPT ![s].vector = @ \o hits, ![s].asked = next],
             spc' = [spc EXCEPT ![s] = IF next = Len(Named(s)) THEN "rank" ELSE "each"],
             Works, result' = result
      PROVE  FineStep(s)
  <2>1. next \in 1..n
    BY <1>3, <1>5
  <2>2. {Named(s)[next]} \in SUBSET request[s].resources
    BY <1>4, <2>1, ReadyFacts, NamedFacts
  <2>3. hits \in Seq(Chunk) /\ InScope(hits, s)
    BY <2>2, ReadyFacts, SearchHits
  <2>14. PICK vector \in Seq(Chunk) : vector = found[s].vector
    BY ReadyFacts DEF Findings
  <2>15. vector \o hits \in Seq(Chunk) /\ InScope(vector \o hits, s)
    BY <2>3, <2>14, ReadyFacts, JoinedScope DEF FoundInScope
  <2>4. PICK all \in Seq(Chunk) : all = found[s].vector \o hits
    BY <2>14, <2>15
  <2>5. InScope(all, s)
    BY <2>4, <2>14, <2>15
  <2>6. PICK f : f = [found[s] EXCEPT !.vector = all, !.asked = next]
    OBVIOUS
  <2>7. /\ f \in Findings /\ f.vector = all /\ f.bm25 = found[s].bm25
        /\ f.asked = next /\ f.vector_failed = found[s].vector_failed
    <3>1. PICK e \in Findings : e = found[s]
      BY ReadyFacts
    <3>2. f = [e EXCEPT !.vector = all, !.asked = next]
      BY <2>6, <3>1
    <3>3. /\ f \in Findings /\ f.vector = all /\ f.bm25 = e.bm25
          /\ f.asked = next /\ f.vector_failed = e.vector_failed
      BY <3>2 DEF Findings
    <3> QED
      BY <3>1, <3>3
  <2>8. found' = [found EXCEPT ![s] = f]
    BY <1>6, <2>4, <2>6, ReadyFacts
  <2>9. PICK l \in SearchLabel \ {"answered", "forbidden"} :
           l = IF next = n THEN "rank" ELSE "each"
    BY DEF SearchLabel, Ended
  <2>10. spc' = [spc EXCEPT ![s] = l]
    BY <1>4, <1>6, <2>9
  <2>11. FoundInScope(s, f)
    BY <2>5, <2>7, ReadyFacts DEF FoundInScope
  <2>12. OnPath(s, l, f)
    BY <1>3, <1>4, <1>5, <2>7, <2>9 DEF OnPath
  <2>13. Blamed(l, f, faults')
    BY <1>1, <1>6, <2>7, <2>9, ReadyFacts, FaultFacts DEF Blamed
  <2> QED
    BY <1>1, <1>6, <2>7, <2>8, <2>9, <2>10, <2>11, <2>12, <2>13, ReadyFacts, Onward
<1>7. ASSUME Fails("search"), Raised(s, "unavailable") PROVE FineStep(s)
  BY <1>1, <1>7, ReadyFacts, FaultFacts, Unavailable
<1> QED
  BY <1>2, <1>3, <1>6, <1>7 DEF SearchNextResource

(* LookUp changes nothing but the place.                                   *)
LEMMA LookUpFine ==
    ASSUME NEW s \in Search, Ready(s), LookUp(s)
    PROVE  FineStep(s)
<1>1. /\ spc[s] = "new" /\ request[s].kind = "hybrid" /\ Works
      /\ spc' = [spc EXCEPT ![s] = IF Cached(cache_key(s)) THEN "hit" ELSE "load"]
      /\ found' = found /\ result' = result
  BY DEF LookUp
<1>2. PICK f \in Findings : f = found[s]
  BY ReadyFacts
<1>3. found' = [found EXCEPT ![s] = f]
  BY <1>1, <1>2, ReadyFacts
<1>4. PICK l \in SearchLabel \ {"answered", "forbidden"} :
         l = IF Cached(cache_key(s)) THEN "hit" ELSE "load"
  BY DEF SearchLabel, Ended
<1>5. FoundInScope(s, f)
  BY <1>2, ReadyFacts
<1>6. OnPath(s, l, f)
  BY <1>1, <1>4 DEF OnPath
<1>7. Blamed(l, f, faults')
  BY <1>1, <1>2, <1>4, ReadyFacts, FaultFacts DEF Blamed
<1> QED
  BY <1>1, <1>3, <1>4, <1>5, <1>6, <1>7, ReadyFacts, Onward

LEMMA Bm25HitsFine ==
    ASSUME NEW s \in Search, Ready(s), request[s].kind = "hybrid", spc[s] # "answered",
           spc[s] # "unavailable",
           NEW docs \in SUBSET Chunk, Bm25Hits(s, docs), faults' = faults
    PROVE  FineStep(s)
<1>1. PICK hits \in bm25_search(docs, s) :
         found' = [found EXCEPT ![s].bm25 = hits, ![s].docs = {}]
  BY DEF Bm25Hits
<1>2. spc' = [spc EXCEPT ![s] = "vector"] /\ result' = result
  BY DEF Bm25Hits
<1>3. hits \in Seq(Chunk) /\ InScope(hits, s)
  BY ReadyFacts, Bm25Facts
<1>4. PICK e \in Findings : e = found[s]
  BY ReadyFacts
<1>5. PICK f : f = [e EXCEPT !.bm25 = hits, !.docs = {}]
  OBVIOUS
<1>6. /\ f \in Findings /\ f.vector = e.vector /\ f.bm25 = hits
      /\ f.vector_failed = e.vector_failed
  BY <1>3, <1>5 DEF Findings
<1>7. found' = [found EXCEPT ![s] = f]
  BY <1>1, <1>4, <1>5, ReadyFacts
<1>8. FoundInScope(s, f)
  BY <1>3, <1>4, <1>6, ReadyFacts DEF FoundInScope
<1>9. OnPath(s, "vector", f)
  BY DEF OnPath
<1>10. Blamed("vector", f, faults')
  BY <1>4, <1>6, ReadyFacts DEF Blamed
<1>11. "vector" \in SearchLabel \ {"answered", "forbidden"}
  BY DEF SearchLabel
<1> QED
  BY <1>2, <1>6, <1>7, <1>8, <1>9, <1>10, <1>11, ReadyFacts, Onward

LEMMA Bm25FailedFine ==
    ASSUME NEW s \in Search, Ready(s), request[s].kind = "hybrid", spc[s] # "answered",
           Bm25Failed(s), faults' \in Nat, faults <= faults'
    PROVE  FineStep(s)
<1>1. /\ found' = [found EXCEPT ![s].bm25_failed = TRUE, ![s].docs = {}]
      /\ spc' = [spc EXCEPT ![s] = "vector"] /\ result' = result
  BY DEF Bm25Failed
<1>4. PICK e \in Findings : e = found[s]
  BY ReadyFacts
<1>5. PICK f : f = [e EXCEPT !.bm25_failed = TRUE, !.docs = {}]
  OBVIOUS
<1>6. /\ f \in Findings /\ f.vector = e.vector /\ f.bm25 = e.bm25
      /\ f.vector_failed = e.vector_failed
  BY <1>5 DEF Findings
<1>7. found' = [found EXCEPT ![s] = f]
  BY <1>1, <1>4, <1>5, ReadyFacts
<1>8. FoundInScope(s, f)
  BY <1>4, <1>6, ReadyFacts DEF FoundInScope
<1>9. OnPath(s, "vector", f)
  BY DEF OnPath
<1>10. Blamed("vector", f, faults')
  BY <1>4, <1>6, ReadyFacts DEF Blamed
<1>11. "vector" \in SearchLabel \ {"answered", "forbidden"}
  BY DEF SearchLabel
<1> QED
  BY <1>1, <1>6, <1>7, <1>8, <1>9, <1>10, <1>11, ReadyFacts, Onward

(* The entry that LookUp has seen is used, or is gone: neither ends the    *)
(* request.                                                                *)
LEMMA UseCachedFine ==
    ASSUME NEW s \in Search, Ready(s), UseCached(s)
    PROVE  FineStep(s) /\ cache' \in Seq(IndexEntry) /\ KeysOf(cache') \subseteq KeysOf(cache)
<1>1. PICK key : key = cache_key(s)
  OBVIOUS
<1>2. /\ spc[s] = "hit" /\ Works
      /\ IF Cached(key)
           THEN /\ Bm25Hits(s, Entry(key).docs)
                /\ cache' = Append(Without(key), Entry(key))
           ELSE Bm25Failed(s) /\ UNCHANGED cache
  BY <1>1 DEF UseCached
<1>3. request[s].kind = "hybrid"
  BY <1>2, ReadyFacts DEF OnPath
<1>4. faults' = faults /\ faults \in Nat /\ faults <= faults
  BY <1>2, ReadyFacts, FaultFacts
<1>5. cache \in Seq(IndexEntry)
  BY ReadyFacts DEF SearchTypes
<1>6. CASE Cached(key)
  <2>1. /\ Append(Without(key), Entry(key)) \in Seq(IndexEntry)
        /\ KeysOf(Append(Without(key), Entry(key))) \subseteq KeysOf(cache)
    BY <1>5, <1>6, WithoutFacts
  <2>2. PICK e \in IndexEntry : e = Entry(key)
    BY <1>5, <1>6, WithoutFacts
  <2>3. e.docs \in SUBSET Chunk
    BY DEF IndexEntry
  <2>4. FineStep(s)
    BY <1>2, <1>3, <1>4, <1>6, <2>2, <2>3, Bm25HitsFine
  <2> QED
    BY <1>2, <1>6, <2>1, <2>4
<1>7. CASE ~Cached(key)
  BY <1>2, <1>3, <1>4, <1>5, <1>7, Bm25FailedFine
<1> QED
  BY <1>6, <1>7

LEMMA LoadFine ==
    ASSUME NEW s \in Search, Ready(s), Load(s)
    PROVE  FineStep(s)
<1>1. spc[s] = "load" /\ request[s].kind = "hybrid"
  BY ReadyFacts DEF Load, OnPath
<1>2. ASSUME NEW docs \in query(store, request[s].user, request[s].resources, request[s].max_docs),
             found' = [found EXCEPT ![s].docs = docs],
             spc' = [spc EXCEPT ![s] = "built"], Works, result' = result
      PROVE  FineStep(s)
  <2>1. docs \in SUBSET Chunk
    BY ReadyFacts DEF query
  <2>2. PICK f : f = [found[s] EXCEPT !.docs = docs]
    OBVIOUS
  <2>3. /\ f \in Findings /\ f.vector = found[s].vector /\ f.bm25 = found[s].bm25
        /\ f.vector_failed = found[s].vector_failed
    <3>1. PICK e \in Findings : e = found[s]
      BY ReadyFacts
    <3>2. f = [e EXCEPT !.docs = docs]
      BY <2>2, <3>1
    <3>3. /\ f \in Findings /\ f.vector = e.vector /\ f.bm25 = e.bm25
          /\ f.vector_failed = e.vector_failed
      BY <2>1, <3>2 DEF Findings
    <3> QED
      BY <3>1, <3>3
  <2>4. found' = [found EXCEPT ![s] = f]
    BY <1>2, <2>2
  <2>5. FoundInScope(s, f)
    BY <2>3, ReadyFacts DEF FoundInScope
  <2>6. OnPath(s, "built", f)
    BY <1>1 DEF OnPath
  <2>7. Blamed("built", f, faults')
    BY <1>2, <2>3, ReadyFacts, FaultFacts DEF Blamed
  <2>8. "built" \in SearchLabel \ {"answered", "forbidden"}
    BY DEF SearchLabel
  <2> QED
    BY <1>1, <1>2, <2>3, <2>4, <2>5, <2>6, <2>7, <2>8, ReadyFacts, Onward
<1>3. ASSUME Fails("search"), Raised(s, "unavailable") PROVE FineStep(s)
  BY <1>1, <1>3, ReadyFacts, FaultFacts, Unavailable
<1>4. ASSUME Fails("tokenizer"), Bm25Failed(s) PROVE FineStep(s)
  BY <1>1, <1>4, ReadyFacts, FaultFacts, Bm25FailedFine
<1> QED
  BY <1>2, <1>3, <1>4 DEF Load

(* A request goes on entering its index.                                   *)
LEMMA EnteringFine ==
    ASSUME NEW s \in Search, Ready(s), request[s].kind = "hybrid", spc[s] # "answered",
           spc[s] # "unavailable", NEW l \in {"stored", "evict", "pop"},
           spc' = [spc EXCEPT ![s] = l], UNCHANGED <<found, result>>, faults' = faults
    PROVE  FineStep(s)
<1>1. PICK f \in Findings : f = found[s]
  BY ReadyFacts
<1>2. found' = [found EXCEPT ![s] = f]
  BY <1>1, ReadyFacts
<1>3. l \in SearchLabel \ {"answered", "forbidden"}
  BY DEF SearchLabel, Ended
<1>4. FoundInScope(s, f)
  BY <1>1, ReadyFacts
<1>5. OnPath(s, l, f)
  BY DEF OnPath
<1>6. Blamed(l, f, faults')
  BY <1>1, ReadyFacts DEF Blamed
<1> QED
  BY <1>2, <1>3, <1>4, <1>5, <1>6, ReadyFacts, Onward

LEMMA InsertFine ==
    ASSUME NEW s \in Search, Ready(s), Insert(s)
    PROVE  /\ FineStep(s) /\ cache' \in Seq(IndexEntry) /\ spc'[s] = "stored"
           /\ KeysOf(cache') \subseteq KeysOf(cache) \cup {cache_key(s)}
<1>1. PICK docs \in SUBSET Chunk : docs = found[s].docs
  BY ReadyFacts DEF Findings
<1>2. PICK key \in User \X SUBSET Resource : key = cache_key(s)
  BY ReadyFacts, RequestFacts DEF cache_key
<1>3. PICK e \in IndexEntry : e = [key |-> key, docs |-> docs] /\ e.key = key
  <2>1. [key |-> key, docs |-> docs] \in IndexEntry
    BY DEF IndexEntry
  <2>2. [key |-> key, docs |-> docs].key = key
    OBVIOUS
  <2> QED
    BY <2>1, <2>2, Zenon
<1>4. /\ spc[s] = "built" /\ Works /\ spc' = [spc EXCEPT ![s] = "stored"]
      /\ UNCHANGED <<found, result>>
      /\ cache' = IF Cached(key)
                    THEN [i \in DOMAIN cache |-> IF cache[i].key = key THEN e ELSE cache[i]]
                    ELSE Append(cache, e)
  BY <1>1, <1>2, <1>3 DEF Insert
<1>5. request[s].kind = "hybrid"
  BY <1>4, ReadyFacts DEF OnPath
<1>6. FineStep(s)
  BY <1>4, <1>5, ReadyFacts, FaultFacts, EnteringFine
<1>7. cache \in Seq(IndexEntry) /\ spc \in [Search -> SearchLabel]
  BY ReadyFacts DEF SearchTypes
<1>8. CASE Cached(key)
  <2>1. PICK n \in Nat : n = Len(cache) /\ DOMAIN cache = 1..n /\ \A i \in 1..n : cache[i] \in IndexEntry
    BY <1>7
  <2>2. /\ DOMAIN cache' = 1..n
        /\ \A i \in 1..n : cache'[i] = IF cache[i].key = key THEN e ELSE cache[i]
        /\ cache' = [i \in 1..n |-> IF cache[i].key = key THEN e ELSE cache[i]]
    BY <1>4, <1>8, <2>1
  <2>3. cache' \in Seq(IndexEntry)
    BY <2>1, <2>2
  <2>4. \A i \in 1..n : cache'[i].key = cache[i].key
    BY <1>3, <2>2
  <2>5. KeysOf(cache') \subseteq KeysOf(cache)
    BY <2>1, <2>2, <2>4 DEF KeysOf
  <2> QED
    BY <1>4, <1>6, <1>7, <2>3, <2>5
<1>9. CASE ~Cached(key)
  <2>1. cache' = Append(cache, e)
    BY <1>4, <1>9
  <2>2. /\ Append(cache, e) \in Seq(IndexEntry) /\ Len(cache) \in Nat /\ DOMAIN cache = 1..Len(cache)
        /\ DOMAIN Append(cache, e) = 1..(Len(cache) + 1)
        /\ \A i \in 1..Len(cache) : Append(cache, e)[i] = cache[i]
        /\ Append(cache, e)[Len(cache) + 1] = e
    BY <1>7
  <2>3. ASSUME NEW i \in DOMAIN Append(cache, e)
        PROVE  Append(cache, e)[i].key \in KeysOf(cache) \cup {key}
    <3>1. CASE i \in 1..Len(cache)
      BY <2>2, <3>1 DEF KeysOf
    <3>2. CASE i = Len(cache) + 1
      BY <1>3, <2>2, <3>2
    <3> QED
      BY <2>2, <3>1, <3>2
  <2>4. KeysOf(Append(cache, e)) \subseteq KeysOf(cache) \cup {key}
    BY <2>3 DEF KeysOf
  <2> QED
    BY <1>2, <1>4, <1>6, <1>7, <2>1, <2>2, <2>4
<1> QED
  BY <1>8, <1>9

LEMMA PromoteFine ==
    ASSUME NEW s \in Search, Ready(s), Promote(s)
    PROVE  /\ FineStep(s) /\ cache' \in Seq(IndexEntry) /\ KeysOf(cache') \subseteq KeysOf(cache)
           /\ cache_key(s) \in KeysOf(cache') => spc'[s] = "evict"
<1>1. PICK key : key = cache_key(s)
  OBVIOUS
<1>2. /\ spc[s] = "stored" /\ Works
      /\ IF Cached(key)
           THEN /\ cache' = Append(Without(key), Entry(key))
                /\ spc' = [spc EXCEPT ![s] = "evict"] /\ UNCHANGED <<found, result>>
           ELSE Bm25Failed(s) /\ UNCHANGED cache
  BY <1>1 DEF Promote
<1>3. request[s].kind = "hybrid"
  BY <1>2, ReadyFacts DEF OnPath
<1>4. faults' = faults /\ faults \in Nat /\ faults <= faults
  BY <1>2, ReadyFacts, FaultFacts
<1>5. cache \in Seq(IndexEntry) /\ spc \in [Search -> SearchLabel]
  BY ReadyFacts DEF SearchTypes
<1>6. CASE Cached(key)
  <2>1. /\ Append(Without(key), Entry(key)) \in Seq(IndexEntry)
        /\ KeysOf(Append(Without(key), Entry(key))) \subseteq KeysOf(cache)
    BY <1>5, <1>6, WithoutFacts
  <2>2. FineStep(s)
    BY <1>2, <1>3, <1>4, <1>6, EnteringFine
  <2> QED
    BY <1>2, <1>5, <1>6, <2>1, <2>2
<1>7. CASE ~Cached(key)
  <2>1. FineStep(s)
    BY <1>2, <1>3, <1>4, <1>7, Bm25FailedFine
  <2>2. cache_key(s) \notin KeysOf(cache)
    BY <1>1, <1>5, <1>7, WithoutFacts
  <2> QED
    BY <1>2, <1>5, <1>7, <2>1, <2>2
<1> QED
  BY <1>6, <1>7

(* The loop ends below the limit, or goes on.                              *)
LEMMA EvictTestFine ==
    ASSUME NEW s \in Search, Ready(s), EvictTest(s)
    PROVE  FineStep(s) /\ cache' = cache /\ (spc'[s] = "pop" \/ Len(cache) <= cache_max_entries)
<1>1. /\ spc[s] = "evict" /\ Works /\ cache' = cache
      /\ IF Crowded(cache)
           THEN spc' = [spc EXCEPT ![s] = "pop"] /\ UNCHANGED <<found, result>>
           ELSE Bm25Hits(s, found[s].docs)
  BY DEF EvictTest
<1>2. request[s].kind = "hybrid"
  BY <1>1, ReadyFacts DEF OnPath
<1>3. faults' = faults
  BY <1>1, ReadyFacts, FaultFacts
<1>4. PICK docs \in SUBSET Chunk : docs = found[s].docs
  BY ReadyFacts DEF Findings
<1>5. FineStep(s)
  BY <1>1, <1>2, <1>3, <1>4, EnteringFine, Bm25HitsFine
<1>6. cache \in Seq(IndexEntry) /\ spc \in [Search -> SearchLabel]
  BY ReadyFacts DEF SearchTypes
<1>7. spc'[s] = "pop" \/ Len(cache) <= cache_max_entries
  BY <1>1, <1>6, SearchAssumption DEF Crowded
<1> QED
  BY <1>1, <1>5, <1>7

LEMMA EvictFine ==
    ASSUME NEW s \in Search, Ready(s), Evict(s)
    PROVE  /\ FineStep(s) /\ cache' \in Seq(IndexEntry) /\ KeysOf(cache') \subseteq KeysOf(cache)
           /\ spc'[s] = "evict" \/ cache' = <<>>
<1>1. /\ spc[s] = "pop" /\ Works
      /\ IF cache # <<>>
           THEN /\ cache' = Tail(cache)
                /\ spc' = [spc EXCEPT ![s] = "evict"] /\ UNCHANGED <<found, result>>
           ELSE Bm25Failed(s) /\ UNCHANGED cache
  BY DEF Evict
<1>2. request[s].kind = "hybrid"
  BY <1>1, ReadyFacts DEF OnPath
<1>3. faults' = faults /\ faults \in Nat /\ faults <= faults
  BY <1>1, ReadyFacts, FaultFacts
<1>4. cache \in Seq(IndexEntry) /\ spc \in [Search -> SearchLabel]
  BY ReadyFacts DEF SearchTypes
<1>5. CASE cache # <<>>
  <2>1. FineStep(s)
    BY <1>1, <1>2, <1>3, <1>5, EnteringFine
  <2>2. PICK n \in Nat : n = Len(cache) /\ n > 0 /\ DOMAIN cache = 1..n
    BY <1>4, <1>5
  <2>3. /\ Tail(cache) \in Seq(IndexEntry) /\ DOMAIN Tail(cache) = 1..(n - 1)
        /\ \A i \in 1..(n - 1) : Tail(cache)[i] = cache[i + 1]
    BY <1>4, <1>5, <2>2
  <2>4. \A i \in 1..(n - 1) : i + 1 \in 1..n
    OBVIOUS
  <2>5. KeysOf(Tail(cache)) \subseteq KeysOf(cache)
    BY <2>2, <2>3, <2>4 DEF KeysOf
  <2> QED
    BY <1>1, <1>4, <1>5, <2>1, <2>3, <2>5
<1>6. CASE cache = <<>>
  BY <1>1, <1>2, <1>3, <1>4, <1>6, Bm25FailedFine
<1> QED
  BY <1>5, <1>6

LEMMA VectorSearchFine ==
    ASSUME NEW s \in Search, Ready(s), VectorSearch(s)
    PROVE  FineStep(s)
<1>1. spc[s] = "vector" /\ request[s].kind = "hybrid"
  BY ReadyFacts DEF VectorSearch, OnPath
<1>8. "fuse" \in SearchLabel \ {"answered", "forbidden"}
  BY DEF SearchLabel
<1>2. ASSUME NEW hits \in search(store, request[s].user, request[s].resources, request[s].rerank_top_n),
             found' = [found EXCEPT ![s].vector = hits],
             spc' = [spc EXCEPT ![s] = "fuse"], Works, result' = result
      PROVE  FineStep(s)
  <2>1. PICK k \in Nat : k = request[s].rerank_top_n
    BY ReadyFacts, RequestFacts
  <2>2. request[s].resources \in SUBSET request[s].resources
    OBVIOUS
  <2>3. hits \in Seq(Chunk) /\ InScope(hits, s)
    BY <1>2, <2>1, <2>2, ReadyFacts, SearchHits
  <2>4. PICK f : f = [found[s] EXCEPT !.vector = hits]
    OBVIOUS
  <2>5. /\ f \in Findings /\ f.vector = hits /\ f.bm25 = found[s].bm25
        /\ f.vector_failed = found[s].vector_failed
    BY <2>3, <2>4, ReadyFacts, VectorFound
  <2>6. found' = [found EXCEPT ![s] = f]
    BY <1>2, <2>4
  <2>7. FoundInScope(s, f)
    BY <2>3, <2>5, ReadyFacts DEF FoundInScope
  <2>8. OnPath(s, "fuse", f)
    BY <1>1 DEF OnPath
  <2>9. Blamed("fuse", f, faults')
    BY <1>2, <2>5, ReadyFacts, FaultFacts DEF Blamed
  <2> QED
    BY <1>1, <1>2, <1>8, <2>5, <2>6, <2>7, <2>8, <2>9, ReadyFacts, Onward
<1>3. ASSUME NEW kind, Fails(kind), Raised(s, "unavailable") PROVE FineStep(s)
  BY <1>1, <1>3, ReadyFacts, FaultFacts, Unavailable
<1>4. ASSUME Fails("malformed"), found' = [found EXCEPT ![s].vector_failed = TRUE],
             spc' = [spc EXCEPT ![s] = "fuse"], result' = result
      PROVE  FineStep(s)
  <2>1. PICK f : f = [found[s] EXCEPT !.vector_failed = TRUE]
    OBVIOUS
  <2>2. f \in Findings /\ f.vector = found[s].vector /\ f.bm25 = found[s].bm25
    BY <2>1, ReadyFacts, NoVectorFound
  <2>3. found' = [found EXCEPT ![s] = f]
    BY <1>4, <2>1
  <2>4. FoundInScope(s, f)
    BY <2>2, ReadyFacts DEF FoundInScope
  <2>5. OnPath(s, "fuse", f)
    BY <1>1 DEF OnPath
  <2>6. Blamed("fuse", f, faults')
    BY <1>4, ReadyFacts, FaultFacts DEF Blamed
  <2> QED
    BY <1>1, <1>4, <1>8, <2>2, <2>3, <2>4, <2>5, <2>6, ReadyFacts, Onward
<1> QED
  BY <1>2, <1>3, <1>4 DEF VectorSearch

(* A request that ends with an answer.                                     *)
LEMMA Answered ==
    ASSUME NEW s \in Search, Ready(s), spc[s] # "unavailable",
           faults' \in Nat, faults <= faults',
           NEW r, r.chunks \in Seq(Chunk), InScope(r.chunks, s),
           spc' = [spc EXCEPT ![s] = "answered"], found' = found,
           result' = [result EXCEPT ![s] = r],
           Marked(s, "answered", found[s], r), Ranked(s, r)
    PROVE  FineStep(s)
<1>1. PICK f \in Findings : f = found[s]
  BY ReadyFacts
<1>2. found' = [found EXCEPT ![s] = f]
  BY <1>1, ReadyFacts
<1>3. OnPath(s, "answered", f) /\ NotYet("answered", r)
  BY DEF OnPath, NotYet
<1>4. FoundInScope(s, f) /\ AnswerInScope(s, "answered", r)
  BY <1>1, ReadyFacts DEF AnswerInScope
<1>5. Blamed("answered", f, faults')
  BY <1>1, ReadyFacts DEF Blamed
<1>6. Marked(s, "answered", f, r)
  BY <1>1
<1>7. Fine(s, "answered", f, r, faults')
  BY <1>3, <1>4, <1>5, <1>6 DEF Fine
<1>8. Moved(s, "answered", f, r)
  BY <1>2 DEF Moved
<1>9. "answered" \in SearchLabel
  BY DEF SearchLabel, Ended
<1> QED
  BY <1>7, <1>8, <1>9 DEF FineStep

(* The rest of RetrievalService.retrieve: what is left of the hits is      *)
(* sorted and in the scope, so that the scope test passes.                 *)
LEMMA RankFine ==
    ASSUME NEW s \in Search, Ready(s), Rank(s)
    PROVE  FineStep(s)
<1>1. spc[s] = "rank" /\ request[s].kind # "hybrid"
  BY ReadyFacts DEF Rank, OnPath
<1>2. faults' = faults
  BY ReadyFacts, FaultFacts DEF Rank
<1>3. PICK vector \in Seq(Chunk) : vector = found[s].vector /\ InScope(vector, s)
  BY ReadyFacts DEF Findings, FoundInScope
<1>4. PICK sorted \in Seq(Chunk) : sorted = ByScore(vector, HitScore) /\ Sorted(sorted, HitScore) /\ InScope(sorted, s)
  BY <1>3, ScoreTypes, ByScoreFacts
<1>5. PICK deduped \in Seq(Chunk) :
         /\ deduped = IF Multi(s) THEN Deduplicated(sorted) ELSE sorted
         /\ Sorted(deduped, HitScore) /\ InScope(deduped, s)
         /\ Multi(s) => Distinct(deduped)
  <2>1. CASE Multi(s)
    <3>1. PICK d \in Seq(Chunk) : d = Deduplicated(sorted) /\ Subsequence(d, sorted) /\ Distinct(d)
      BY DeduplicatedFacts
    <3>2. Sorted(d, HitScore) /\ InScope(d, s)
      BY <1>4, <3>1, SubsequenceKeeps
    <3> QED
      BY <2>1, <3>1, <3>2
  <2>2. CASE ~Multi(s)
    BY <1>4, <2>2
  <2> QED
    BY <2>1, <2>2
<1> DEFINE relevant == {i \in DOMAIN deduped :
                           HitScore[deduped[i].text] >= request[s].score_threshold}
<1>6. relevant \in SUBSET DOMAIN deduped
  OBVIOUS
<1>7. PICK top_k \in Nat : top_k = request[s].top_k
  BY ReadyFacts, RequestFacts
<1>22. PICK m \in Nat : m = request[s].score_threshold
  BY ReadyFacts, RequestFacts
<1>23. \A i \in relevant : HitScore[deduped[i].text] >= m
  BY <1>22
<1> HIDE DEF relevant
<1>8. PICK enough \in Seq(Chunk) : enough = Picked(deduped, relevant) /\ Subsequence(enough, deduped)
  BY <1>6, PickedFacts, PickedSubsequence
<1>9. Sorted(enough, HitScore) /\ InScope(enough, s) /\ (Multi(s) => Distinct(enough))
  BY <1>5, <1>8, SubsequenceKeeps
<1>24. AtLeast(enough, HitScore, m)
  <2>1. /\ Picks(Picked(deduped, relevant), deduped, relevant)
        /\ DOMAIN Picked(deduped, relevant) = 1..Cardinality(relevant)
    BY <1>6, PickedFacts
  <2>2. DOMAIN enough = 1..Cardinality(relevant) /\ Picks(enough, deduped, relevant)
    BY <1>8, <2>1
  <2>3. PICK o \in [1..Cardinality(relevant) -> relevant] :
          \A i \in 1..Cardinality(relevant) : enough[i] = deduped[o[i]]
    BY <2>2, Zenon DEF Picks
  <2>4. \A i \in 1..Cardinality(relevant) : o[i] \in relevant
    BY <2>3
  <2> QED
    BY <1>23, <2>2, <2>3, <2>4 DEF AtLeast
<1>10. PICK kept \in Seq(Chunk) :
          kept = Truncated(enough, top_k) /\ Len(kept) <= top_k /\ Subsequence(kept, enough)
  BY TruncatedFacts, TruncatedSubsequence
<1>11. Sorted(kept, HitScore) /\ InScope(kept, s) /\ (Multi(s) => Distinct(kept))
  BY <1>9, <1>10, SubsequenceKeeps
<1>12. PICK chunks \in Seq(Chunk) :
          /\ chunks = compress_context(kept) /\ Subsequence(chunks, kept) /\ Len(chunks) <= Len(kept)
          /\ TokenSum(chunks) <= max_context_tokens \/ Len(chunks) = 1
  BY CompressedFacts
<1>13. Sorted(chunks, HitScore) /\ InScope(chunks, s) /\ (Multi(s) => Distinct(chunks))
  BY <1>11, <1>12, SubsequenceKeeps
<1>25. AtLeast(chunks, HitScore, m)
  <2>1. AtLeast(kept, HitScore, m)
    BY <1>10, <1>24, SubsequenceKeeps
  <2> QED
    BY <1>12, <2>1, SubsequenceKeeps
<1>14. InScope(Tested(s, sorted, kept), s)
  BY <1>4, <1>11 DEF Tested
<1>15. PICK r : r = [chunks |-> chunks, degraded |-> FALSE, tokens |-> TokenSum(chunks)]
  OBVIOUS
<1>16. r.chunks = chunks /\ r.tokens = TokenSum(chunks)
  BY <1>15
<1>17. /\ spc' = [spc EXCEPT ![s] = "answered"]
       /\ result' = [result EXCEPT ![s] = r]
       /\ found' = found
  <2>1. IF InScope(Tested(s, sorted, kept), s)
          THEN /\ spc' = [spc EXCEPT ![s] = "answered"]
               /\ result' = [result EXCEPT ![s] =
                     [chunks |-> chunks, degraded |-> FALSE, tokens |-> TokenSum(chunks)]]
               /\ UNCHANGED found
          ELSE Raised(s, "forbidden")
    BY <1>3, <1>4, <1>5, <1>7, <1>8, <1>10, <1>12, Zenon DEF Rank, relevant
  <2> QED
    BY <1>14, <1>15, <2>1
<1>18. Len(chunks) <= request[s].top_k
  <2>1. Len(chunks) \in Nat /\ Len(kept) \in Nat
    OBVIOUS
  <2> QED
    BY <1>7, <1>10, <1>12, <2>1
<1>19. Ranked(s, r)
  BY <1>12, <1>13, <1>16, <1>18, <1>22, <1>25 DEF Ranked
<1>20. Marked(s, "answered", found[s], r)
  BY <1>1 DEF Marked
<1>21. faults' \in Nat /\ faults <= faults'
  BY <1>2, ReadyFacts
<1> QED
  BY <1>1, <1>13, <1>16, <1>17, <1>19, <1>20, <1>21, Answered

(* _finalize_result with hits in the scope: the test passes, and what is   *)
(* dropped below the threshold does not disturb the order.                 *)
LEMMA FinishFine ==
    ASSUME NEW s \in Search, Ready(s), spc[s] = "fuse", faults' \in Nat, faults <= faults',
           NEW chunks \in Seq(Chunk), InScope(chunks, s), NEW points, NEW degraded,
           degraded \/ (~found[s].bm25_failed /\ ~found[s].vector_failed /\ Sorted(chunks, Score)),
           Finish(s, chunks, points, degraded)
    PROVE  FineStep(s)
<1> DEFINE K == {i \in DOMAIN chunks : points[chunks[i]] >= request[s].score_threshold}
<1>1. K \in SUBSET DOMAIN chunks
  OBVIOUS
<1>2. /\ spc' = [spc EXCEPT ![s] = "answered"] /\ found' = found
      /\ result' = [result EXCEPT ![s] =
            [chunks |-> Picked(chunks, K), degraded |-> degraded, tokens |-> 0]]
  BY DEF Finish
<1> HIDE DEF K
<1>3. PICK c \in Seq(Chunk) : c = Picked(chunks, K) /\ Subsequence(c, chunks)
  BY <1>1, PickedFacts, PickedSubsequence
<1>4. InScope(c, s) /\ (Sorted(chunks, Score) => Sorted(c, Score))
  BY <1>3, SubsequenceKeeps
<1>5. PICK r : r = [chunks |-> c, degraded |-> degraded, tokens |-> 0]
  OBVIOUS
<1>6. r.chunks = c /\ (r.degraded <=> degraded)
  BY <1>5
<1>7. result' = [result EXCEPT ![s] = r]
  BY <1>2, <1>3, <1>5
<1>8. request[s].kind = "hybrid"
  BY ReadyFacts DEF OnPath
<1>9. Marked(s, "answered", found[s], r)
  BY <1>4, <1>6 DEF Marked
<1>10. Ranked(s, r)
  BY <1>8 DEF Ranked
<1> QED
  BY <1>2, <1>4, <1>6, <1>7, <1>9, <1>10, Answered

(* The rest of HybridRetrievalService.retrieve.                            *)
LEMMA FuseFine ==
    ASSUME NEW s \in Search, Ready(s), Fuse(s)
    PROVE  FineStep(s)
<1>1. spc[s] = "fuse" /\ faults \in Nat
  BY ReadyFacts DEF Fuse
<1>2. PICK bm25 \in Seq(Chunk), vector \in Seq(Chunk) :
         /\ bm25 = found[s].bm25 /\ InScope(bm25, s)
         /\ vector = found[s].vector /\ InScope(vector, s)
  BY ReadyFacts DEF Findings, FoundInScope
<1>3. PICK top_n \in Nat, top_k \in Nat : top_n = request[s].rerank_top_n /\ top_k = request[s].top_k
  BY ReadyFacts, RequestFacts
<1>4. PICK merged \in Seq(Chunk) : merged = reciprocal_rank_fusion(bm25, vector) /\ InScope(merged, s)
  BY <1>2, FusionFacts
<1>5. PICK fused \in Seq(Chunk) : fused = Truncated(merged, top_n) /\ Subsequence(fused, merged)
  BY TruncatedFacts, TruncatedSubsequence
<1>6. InScope(fused, s)
  BY <1>4, <1>5, SubsequenceKeeps
<1>7. PICK degraded \in BOOLEAN : degraded = (found[s].bm25_failed \/ found[s].vector_failed)
  BY Zenon
<1>8. PICK similarity, carried :
         /\ similarity = [c \in ToSet(bm25 \o vector) |-> Score[c.text]]
         /\ carried = [c \in ToSet(bm25 \o vector) |-> HitScore[c.text]]
  OBVIOUS
<1>9. PICK rrf : rrf = [c \in ToSet(bm25 \o vector) |->
                          (100 * Fused(bm25, vector, id(c))) \div Scale]
  OBVIOUS
<1>10. \/ /\ found[s].bm25_failed /\ found[s].vector_failed
          /\ Raised(s, "unavailable") /\ Works
       \/ Finish(s, <<>>, carried, degraded) /\ Works
       \/ Finish(s, rerank(fused, top_k), similarity, degraded) /\ Works
       \/ Finish(s, Truncated(fused, top_k), rrf, TRUE) /\ Fails("reranker")
       \/ /\ \/ Finish(s, Truncated(vector, top_k), carried, TRUE)
             \/ Finish(s, Truncated(fused, top_k), rrf, TRUE)
          /\ Fails("timeout")
  BY <1>2, <1>3, <1>4, <1>5, <1>7, <1>8, <1>9, Zenon DEF Fuse
<1>11. ASSUME found[s].vector_failed, Raised(s, "unavailable"), Works PROVE FineStep(s)
  <2>1. faults' > 0
    BY <1>11, ReadyFacts, FaultFacts DEF Blamed
  <2> QED
    BY <1>1, <1>11, <2>1, ReadyFacts, Unavailable
<1>12. ASSUME Finish(s, <<>>, carried, degraded), Works PROVE FineStep(s)
  <2>5. <<>> \in Seq(Chunk)
    OBVIOUS
  <2>1. PICK none \in Seq(Chunk) : none = <<>>
    BY <2>5
  <2>2. InScope(none, s) /\ Sorted(none, Score)
    BY <2>1 DEF InScope, Sorted
  <2>3. faults' \in Nat /\ faults <= faults'
    BY <1>1, <1>12, FaultFacts
  <2>4. Finish(s, none, carried, degraded)
    BY <1>12, <2>1
  <2> QED
    BY <1>1, <1>7, <2>2, <2>3, <2>4, FinishFine
<1>13. ASSUME Finish(s, rerank(fused, top_k), similarity, degraded), Works PROVE FineStep(s)
  <2>1. PICK ordered \in Seq(Chunk) :
           ordered = ByScore(fused, Score) /\ Sorted(ordered, Score) /\ InScope(ordered, s)
    BY <1>6, ScoreTypes, ByScoreFacts
  <2>2. PICK chunks \in Seq(Chunk) :
           chunks = Truncated(ordered, top_k) /\ Subsequence(chunks, ordered)
    BY TruncatedFacts, TruncatedSubsequence
  <2>3. Sorted(chunks, Score) /\ InScope(chunks, s)
    BY <2>1, <2>2, SubsequenceKeeps
  <2>4. Finish(s, chunks, similarity, degraded)
    BY <1>13, <2>1, <2>2 DEF rerank
  <2>5. faults' \in Nat /\ faults <= faults'
    BY <1>1, <1>13, FaultFacts
  <2> QED
    BY <1>1, <1>7, <2>3, <2>4, <2>5, FinishFine
<1>14. ASSUME NEW from \in Seq(Chunk), InScope(from, s), NEW points, NEW kind, Fails(kind),
              Finish(s, Truncated(from, top_k), points, TRUE)
       PROVE  FineStep(s)
  <2>1. PICK chunks \in Seq(Chunk) : chunks = Truncated(from, top_k) /\ Subsequence(chunks, from)
    BY TruncatedFacts, TruncatedSubsequence
  <2>2. InScope(chunks, s)
    BY <1>14, <2>1, SubsequenceKeeps
  <2>3. faults' \in Nat /\ faults <= faults'
    BY <1>1, <1>14, FaultFacts
  <2>4. Finish(s, chunks, points, TRUE)
    BY <1>14, <2>1
  <2> QED
    BY <1>1, <2>2, <2>3, <2>4, FinishFine
<1> QED
  BY <1>2, <1>6, <1>10, <1>11, <1>12, <1>13, <1>14

LEMMA SearchStepInv ==
    ASSUME SearchInv, NEW s \in Search, SearchStep(s), request' = request,
           store \in SUBSET Chunk, faults \in 0..MaxFaults
    PROVE  SearchInv'
<1>1. faults \in Nat
  BY StoreAssumption
<1>2. Ready(s)
  BY <1>1 DEF Ready, SearchInv
<1>3. faults' \in Nat /\ faults <= faults'
  BY SearchFrame, StoreAssumption
<1>4. /\ cache \in Seq(IndexEntry) /\ cache_max_entries \in Nat
      /\ SearchTypes /\ Bounded /\ spc \in [Search -> SearchLabel]
  BY SearchAssumption DEF SearchInv, SearchTypes
<1>7. ASSUME FineStep(s), cache' \in Seq(IndexEntry),
             KeysOf(cache') \subseteq KeysOf(cache) \cup {cache_key(s)},
             cache_key(s) \in KeysOf(cache') =>
                 \/ spc'[s] \in {"stored", "evict", "pop"}
                 \/ /\ cache_key(s) \in KeysOf(cache)
                    /\ spc[s] \notin {"stored", "evict", "pop"}
      PROVE  SearchInv'
  <2>1. \A t \in Search \ {s} : spc'[t] = spc[t]
    BY <1>4, <1>7 DEF FineStep, Moved
  <2>2. Bounded'
    BY <1>4, <1>7, <2>1, SettledShrinks, BoundedKept
  <2> QED
    BY <1>1, <1>3, <1>7, <2>2, StepKeeps
<1>8. ASSUME FineStep(s), cache' \in Seq(IndexEntry), Len(cache') <= cache_max_entries
      PROVE  SearchInv'
  <2>1. PICK c \in Seq(IndexEntry) : c = cache'
    BY <1>8
  <2>2. Settled' \subseteq KeysOf(c)
    BY <2>1 DEF Settled, KeysOf
  <2>3. Bounded'
    BY <1>8, <2>1, <2>2, BoundedByLength DEF Bounded
  <2> QED
    BY <1>1, <1>3, <1>8, <2>3, StepKeeps
<1>5. CASE UseCached(s)
  <2>1. spc[s] = "hit"
    BY <1>5 DEF UseCached
  <2> QED
    BY <1>2, <1>5, <1>7, <2>1, UseCachedFine
<1>9. CASE Insert(s)
  BY <1>2, <1>7, <1>9, InsertFine
<1>10. CASE Promote(s)
  BY <1>2, <1>7, <1>10, PromoteFine
<1>11. CASE EvictTest(s)
  <2>1. FineStep(s) /\ cache' = cache /\ (spc'[s] = "pop" \/ Len(cache) <= cache_max_entries)
    BY <1>2, <1>11, EvictTestFine
  <2>2. CASE spc'[s] = "pop"
    BY <1>4, <1>7, <2>1, <2>2
  <2>3. CASE Len(cache) <= cache_max_entries
    BY <1>4, <1>8, <2>1, <2>3
  <2> QED
    BY <2>1, <2>2, <2>3
<1>12. CASE Evict(s)
  <2>1. /\ FineStep(s) /\ cache' \in Seq(IndexEntry) /\ KeysOf(cache') \subseteq KeysOf(cache)
        /\ spc'[s] = "evict" \/ cache' = <<>>
    BY <1>2, <1>12, EvictFine
  <2>2. CASE spc'[s] = "evict"
    BY <1>7, <2>1, <2>2
  <2>3. CASE cache' = <<>>
    <3>1. Len(<<>>) = 0
      OBVIOUS
    <3> QED
      BY <1>4, <1>8, <2>1, <2>3, <3>1
  <2> QED
    BY <2>1, <2>2, <2>3
<1>6. CASE Retrieve(s) \/ SearchNextResource(s) \/ Rank(s) \/ LookUp(s) \/ Load(s)
           \/ VectorSearch(s) \/ Fuse(s)
  <2>1. FineStep(s)
    BY <1>2, <1>6, RetrieveFine, SearchNextResourceFine, RankFine, LookUpFine, LoadFine,
       VectorSearchFine, FuseFine
  <2>2. cache' = cache
    BY <1>6 DEF Retrieve, SearchNextResource, Rank, LookUp, Load, VectorSearch, Fuse
  <2>3. spc[s] \notin {"stored", "evict", "pop"}
    BY <1>6 DEF Retrieve, SearchNextResource, Rank, LookUp, Load, VectorSearch, Fuse
  <2> QED
    BY <1>4, <1>7, <2>1, <2>2, <2>3
<1> QED
  BY <1>5, <1>6, <1>9, <1>10, <1>11, <1>12 DEF SearchStep

(* Other steps leave the searches as they are; a failure of a job only     *)
(* adds to the failures.                                                   *)
LEMMA SearchKept ==
    ASSUME SearchInv, UNCHANGED searchVars, faults \in Nat, faults' \in Nat, faults <= faults'
    PROVE  SearchInv'
<1>1. request' = request /\ spc' = spc /\ found' = found /\ result' = result /\ cache' = cache
  BY DEF searchVars
<1>2. SearchTypes' /\ Bounded'
  BY <1>1 DEF SearchInv, SearchTypes, Bounded, Settled, Entering, cache_key
<1>3. ASSUME NEW s \in Search PROVE Fine(s, spc[s], found[s], result[s], faults)'
  <2>1. PICK n \in Nat : n = faults
    OBVIOUS
  <2>2. Fine(s, spc'[s], found'[s], result'[s], n)
    BY <1>1, <2>1 DEF SearchInv
  <2> QED
    BY <1>1, <2>1, <2>2, FineKept
<1> QED
  BY <1>2, <1>3 DEF SearchInv

LEMMA SearchInitInv == Init => SearchInv
<1> SUFFICES ASSUME Init PROVE SearchInv
  OBVIOUS
<1>1. /\ request \in Requests /\ spc = [s \in Search |-> "new"]
      /\ found = [s \in Search |-> NothingFound] /\ result = [s \in Search |-> NoResult]
      /\ cache = EarlierIndexes
  BY DEF Init, SearchInit
<1>2. <<>> \in Seq(Chunk) /\ Len(<<>>) = 0 /\ \A i \in DOMAIN <<>> : FALSE
  OBVIOUS
<1>3. NothingFound \in Findings
  BY <1>2 DEF NothingFound, Findings
<1>4. NoResult.chunks = <<>> /\ NoResult.tokens = 0
  BY DEF NoResult
<1>5. SearchTypes
  BY <1>1, <1>2, <1>3, <1>4, SearchAssumption DEF SearchTypes, SearchLabel, IndexEntry
<1>7. Bounded
  <2>1. PICK c \in Seq(IndexEntry) : c = cache
    BY <1>5 DEF SearchTypes
  <2>2. Settled \subseteq KeysOf(c)
    BY <2>1 DEF Settled, KeysOf
  <2>3. Len(c) <= cache_max_entries
    BY <1>1, <2>1, SearchAssumption
  <2> QED
    BY <2>2, <2>3, BoundedByLength DEF Bounded
<1>6. ASSUME NEW s \in Search PROVE Fine(s, spc[s], found[s], result[s], faults)
  <2>1. spc[s] = "new" /\ found[s] = NothingFound /\ result[s] = NoResult
    BY <1>1
  <2>2. OnPath(s, "new", NothingFound) /\ NotYet("new", NoResult)
        /\ Blamed("new", NothingFound, faults) /\ Marked(s, "new", NothingFound, NoResult)
    BY DEF OnPath, NotYet, Blamed, Marked, NothingFound
  <2>3. /\ InScope(<<>>, s) /\ Sorted(<<>>, HitScore) /\ Distinct(<<>>)
        /\ AtLeast(<<>>, HitScore, request[s].score_threshold)
    BY <1>2 DEF InScope, Sorted, Distinct, AtLeast
  <2>4. FoundInScope(s, NothingFound) /\ AnswerInScope(s, "new", NoResult)
    BY <1>4, <2>3 DEF FoundInScope, AnswerInScope, NothingFound
  <2>5. request[s].top_k \in Nat /\ max_context_tokens \in Nat
    BY <1>1, RequestFacts, SearchAssumption
  <2>6. Ranked(s, NoResult)
    BY <1>2, <1>4, <2>3, <2>5 DEF Ranked
  <2> QED
    BY <2>1, <2>2, <2>4, <2>6 DEF Fine
<1> QED
  BY <1>5, <1>6, <1>7 DEF SearchInv

LEMMA SearchNext == IndexInv /\ SearchInv /\ [Next]_vars => SearchInv'
<1> SUFFICES ASSUME IndexInv, SearchInv, [Next]_vars PROVE SearchInv'
  OBVIOUS
<1>1. store \in SUBSET Chunk /\ faults \in 0..MaxFaults /\ MaxFaults \in Nat
  BY StoreAssumption DEF IndexInv, IndexTypes
<1>2. faults \in Nat /\ faults <= faults
  BY <1>1
<1>3. ASSUME NEW j \in Job, IndexStep(j), UNCHANGED <<document, searchVars>> PROVE SearchInv'
  <2>1. Works \/ \E kind : Fails(kind)
    BY <1>3 DEF IndexStep, StartJob, Connected, FallsBack, Embed, Delete, Upsert, Write, WorkerLost
  <2>2. faults' \in Nat /\ faults <= faults'
    BY <1>2, <2>1, FaultFacts
  <2> QED
    BY <1>2, <1>3, <2>2, SearchKept
<1>4. ASSUME NEW s \in Search, SearchStep(s), UNCHANGED <<request, indexVars>> PROVE SearchInv'
  BY <1>1, <1>4, SearchStepInv
<1>5. CASE UNCHANGED vars
  BY <1>2, <1>5, SearchKept DEF vars
<1> QED
  BY <1>3, <1>4, <1>5 DEF Next

LEMMA SearchInvImplies ==
    SearchInv => ScopeEnforced /\ DegradedIsMarked /\ AnswersWithoutFaults /\ RetrievedRanked
<1> SUFFICES ASSUME SearchInv
             PROVE  ScopeEnforced /\ DegradedIsMarked /\ AnswersWithoutFaults /\ RetrievedRanked
  OBVIOUS
<1>1. \A s \in Search :
         /\ AnswerInScope(s, spc[s], result[s])
         /\ Blamed(spc[s], found[s], faults)
         /\ Marked(s, spc[s], found[s], result[s])
         /\ Ranked(s, result[s])
  BY DEF SearchInv, Fine
<1>2. ScopeEnforced
  BY <1>1 DEF ScopeEnforced, AnswerInScope
<1>3. DegradedIsMarked
  BY <1>1 DEF DegradedIsMarked, Marked, Sorted
<1>4. AnswersWithoutFaults
  BY <1>1 DEF AnswersWithoutFaults, Blamed
<1>5. RetrievedRanked
  BY <1>1 DEF RetrievedRanked, Ranked, Sorted, AtLeast, Distinct
<1> QED
  BY <1>2, <1>3, <1>4, <1>5

LEMMA InvariantsHold == Spec => [](IndexInv /\ SearchInv)
BY IndexInitInv, SearchInitInv, IndexNext, SearchNext, PTL DEF Spec

-----------------------------------------------------------------------------
(* THEOREMS                                                                *)

(* Types, and the bound of the cache of BM25 indexes: however many requests*)
(* look up, insert and evict at a time, _bm25_cache has no more than       *)
(* bm25_cache_max_entries entries beside those still being entered.        *)
THEOREM KnowledgeBaseTypeCorrect == Spec => []TypeOK
<1>1. IndexInv /\ SearchInv => TypeOK
  BY DEF IndexInv, IndexTypes, SearchInv, SearchTypes, SearchLabel, IndexEntry, Bounded, TypeOK
<1> QED
  BY <1>1, InvariantsHold, PTL

(* index_resource_vectors is idempotent: for any documents, any number of  *)
(* jobs, retries and redeliveries, a resource whose jobs are over holds    *)
(* exactly what the last of them wrote.                                    *)
THEOREM IndexIdempotent == Spec => []IndexMatchesDocument
BY InvariantsHold, IndexInvImplies, PTL

(* _upsert_chunks embeds before it deletes: whatever else fails, as long as*)
(* the store works and no worker is lost a searchable resource stays so.   *)
THEOREM OutageHarmless == Spec => []HarmlessOutage
BY InvariantsHold, IndexInvImplies, PTL

(* The filters of MilvusStore.search, MilvusStore.query and BM25Store are  *)
(* complete: no search meets a chunk of another user or of a resource it   *)
(* did not ask for, also with a cached index and after fusion.             *)
THEOREM ScopeAlwaysEnforced == Spec => []ScopeEnforced
BY InvariantsHold, SearchInvImplies, PTL

(* HybridRetrievalService.retrieve: an answer that is not marked degraded  *)
(* comes from both paths and in the order of the reranker.                 *)
THEOREM DegradedAlwaysMarked == Spec => []DegradedIsMarked
BY InvariantsHold, SearchInvImplies, PTL

(* Without an outage no request is refused: the eviction of a BM25 index   *)
(* between LookUp and UseCached costs one path, never the answer.          *)
THEOREM AnsweredWithoutFaults == Spec => []AnswersWithoutFaults
BY InvariantsHold, SearchInvImplies, PTL

(* RetrievalService.retrieve: in descending order of the scores that       *)
(* _distance_to_score gives, none below the threshold, no text twice over  *)
(* several resources, at most top_k chunks, and within max_context_tokens  *)
(* unless a single chunk exceeds it.                                       *)
THEOREM RetrievedAlwaysRanked == Spec => []RetrievedRanked
BY InvariantsHold, SearchInvImplies, PTL
=============================================================================
