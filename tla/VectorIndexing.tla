-------------------------- MODULE VectorIndexing ---------------------------
(***************************************************************************)
(* The Celery task index_resource_vectors: it follows every parsed PDF and *)
(* every transcription and is tried again after any failure.  Two runs of  *)
(* the parsing task leave two indexing jobs for one resource.              *)
(*                                                                         *)
(* A document is a sequence of pages, a page the sequence of the texts of  *)
(* its chunks; a transcription is a document of one page.                  *)
(***************************************************************************)
EXTENDS VectorStore

CONSTANTS Job, Documents, MaxRetries

ASSUME IndexAssumption ==
    /\ IsFiniteSet(Job)
    /\ MaxRetries \in Nat
    /\ \A d \in Documents, j \in Job :
          d[j] \in [resource : Resource, user : User, pages : Seq(Seq(Text))]

(* A resource row names its owner, and buildDispatchRequest of the gateway *)
(* sends this user with every job of the resource.                         *)
ASSUME OwnerAssumption ==
    \A d \in Documents, j \in Job :
        /\ \A k \in Job : d[k].resource = d[j].resource => d[k].user = d[j].user
        /\ \A v \in Earlier : v.resource = d[j].resource => v.user = d[j].user

VARIABLES
    document,  \* what each job has to index: resource, user and pages
    jpc,       \* where a job is
    attempts,  \* the retries it has had
    target,    \* the store its worker is connected to
    writer,    \* a resource's last complete index: the job that wrote it, if any
    overlap    \* the resources with two indexing jobs at a time

indexVars == <<document, jpc, attempts, target, writer, overlap>>

Active == {"embed", "delete", "upsert"}

IndexInit ==
    /\ document \in Documents
    /\ jpc = [j \in Job |-> "queued"]
    /\ attempts = [j \in Job |-> 0]
    /\ target = [j \in Job |-> "none"]
    /\ writer = [r \in Resource |-> {}]
    /\ overlap = {}

(* VectorIndexService.index_pdf: the pages are chunked one by one, and each*)
(* call of the chunker counts its chunks from 0 again.                     *)
Chunked(j) ==
    LET d == document[j]
        places == UNION {{<<p, i>> : i \in DOMAIN d.pages[p]} : p \in DOMAIN d.pages}
    IN  [a \in places |-> Record(d.resource, a[2] - 1, d.user, d.pages[a[1]][a[2]])]
HasChunks(j) == DOMAIN Chunked(j) # {}

(* MilvusStore: the connection, with its retries, and the collection.      *)
Connected(j) == target' = [target EXCEPT ![j] = "milvus"] /\ Works

(* build_vector_store: a worker that cannot connect to Milvus is given a   *)
(* store of its own, in memory, and goes on.                               *)
FallsBack(j) == target' = [target EXCEPT ![j] = "memory"] /\ Fails("connect")

StartJob(j) ==
    /\ jpc[j] = "queued"
    /\ Connected(j) \/ FallsBack(j)
    /\ jpc' = [jpc EXCEPT ![j] = "embed"]
    /\ overlap' = IF \E k \in Job \ {j} : document[k].resource = document[j].resource
                                          /\ jpc[k] \in Active
                    THEN overlap \cup {document[j].resource} ELSE overlap
    /\ UNCHANGED <<store, attempts, writer>>

(* autoretry_for=(Exception,)                                              *)
Raise(j) ==
    /\ jpc' = [jpc EXCEPT ![j] = IF attempts[j] < MaxRetries THEN "queued" ELSE "failed"]
    /\ attempts' = [attempts EXCEPT ![j] = IF @ < MaxRetries THEN @ + 1 ELSE @]

(* Mutant: the old vectors are deleted before the embeddings are there.    *)
Embed_DeleteFirst(j) ==
    /\ jpc[j] = "embed" /\ HasChunks(j)
    /\ \/ jpc' = [jpc EXCEPT ![j] = "delete"] /\ Works /\ UNCHANGED attempts
       \/ Fails("embedding") /\ Raise(j)
    /\ store' = Kept(store, document[j].resource, document[j].user)
    /\ UNCHANGED <<target, writer, overlap>>

(* _upsert_chunks: without chunks there is nothing to do, and what the     *)
(* store holds of the resource stays; the embeddings are computed before   *)
(* anything is deleted.                                                    *)
Embed(j) ==
    /\ jpc[j] = "embed"
    /\ \/ /\ ~HasChunks(j)
          /\ jpc' = [jpc EXCEPT ![j] = "done"]
          /\ Works
          /\ UNCHANGED attempts
       \/ /\ HasChunks(j)
          /\ jpc' = [jpc EXCEPT ![j] = "delete"]
          /\ Works
          /\ UNCHANGED attempts
       \/ /\ HasChunks(j)
          /\ Fails("embedding")
          /\ Raise(j)
    /\ UNCHANGED <<store, target, writer, overlap>>

(* A write that succeeds, and one that fails with or without effect.  A    *)
(* job on a store in memory changes nothing that a search can see.         *)
Write(j, after, goal) ==
    LET Effect == store' = IF target[j] = "milvus" THEN after ELSE store
    IN  \/ Effect /\ jpc' = [jpc EXCEPT ![j] = goal] /\ Works /\ UNCHANGED attempts
        \/ (Effect \/ UNCHANGED store) /\ Fails("write") /\ Raise(j)

Delete(j) ==
    /\ jpc[j] = "delete"
    /\ Write(j, Kept(store, document[j].resource, document[j].user), "upsert")
    /\ UNCHANGED <<target, writer, overlap>>

Upsert(j) ==
    /\ jpc[j] = "upsert"
    /\ Write(j, Upserted(store, Chunked(j)), "done")
    /\ writer' = IF jpc'[j] = "done" /\ target[j] = "milvus"
                   THEN [writer EXCEPT ![document[j].resource] = {j}] ELSE writer
    /\ UNCHANGED <<target, overlap>>

(* A worker is lost in the middle of a job: its message is delivered again *)
(* (task_acks_late, task_reject_on_worker_lost).                           *)
WorkerLost(j) ==
    /\ jpc[j] \in Active
    /\ Fails("worker")
    /\ jpc' = [jpc EXCEPT ![j] = "queued"]
    /\ UNCHANGED <<store, attempts, target, writer, overlap>>

IndexStep(j) == StartJob(j) \/ Embed(j) \/ Delete(j) \/ Upsert(j) \/ WorkerLost(j)
=============================================================================
