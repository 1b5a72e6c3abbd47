----------------------------- MODULE RebuildIndex -----------------------------
(***************************************************************************)
(* The rebuild of the search index (scripts/rebuild_search_index.py) while *)
(* clients create articles and index workers index them.                   *)
(*                                                                         *)
(* The script deletes the index, creates it with its mappings, reads all   *)
(* active articles through a cursor and indexes them in batches, each      *)
(* batch in a TaskGroup whose tasks share a semaphore.  Elasticsearch      *)
(* creates a missing index by itself when a document arrives, with a       *)
(* mapping of its own making.  A request whose caller has given up may be  *)
(* executed later.  One rebuild runs at a time.                            *)
(***************************************************************************)
EXTENDS Naturals, FiniteSets

CONSTANTS
  Articles,     \* articles that clients may create, all of them active
  BatchSize,    \* BATCH_SIZE (100)
  Concurrency,  \* REINDEX_CONCURRENCY (10)
  MaxFaults     \* bound: faults of the environment in one behaviour

ASSUME NumberAssumption ==
  BatchSize \in Nat \ {0} /\ Concurrency \in Nat \ {0} /\ MaxFaults \in Nat

VARIABLES
  stored,    \* articles in MongoDB
  job,       \* where the indexing job of each article is
  index,     \* the index: absent, created by us ("mapped") or by itself
  docs,      \* articles in the index
  visible,   \* those that searches see
  pc,        \* where the rebuild is in main
  snapshot,  \* articles in MongoDB when its cursor was opened
  read,      \* articles its cursor has returned
  batch,     \* documents of the batch whose request is not sent yet
  sent,      \* documents whose task holds the semaphore, request under way
  late,      \* late[a]: requests for a without a caller, not yet executed
  faults     \* faults so far

indexVars   == <<index, docs, visible>>
rebuildVars == <<pc, snapshot, read, batch, sent>>
vars == <<stored, job, index, docs, visible, pc, snapshot, read, batch, sent, late, faults>>

Init ==
  /\ stored = {}
  /\ job = [a \in Articles |-> "none"]
  /\ index = "absent" /\ docs = {} /\ visible = {}
  /\ pc = "idle" /\ snapshot = {} /\ read = {} /\ batch = {} /\ sent = {}
  /\ late = [a \in Articles |-> 0]
  /\ faults = 0

Fault == faults < MaxFaults /\ faults' = faults + 1

-----------------------------------------------------------------------------
(* Elasticsearch                                                           *)

\* A document arrives; one with the same identity is overwritten.
Put(a) ==
  /\ index' = IF index = "absent" THEN "dynamic" ELSE index
  /\ docs' = docs \cup {a}
  /\ UNCHANGED visible

Drop == index' = "absent" /\ docs' = {} /\ visible' = {}

Refresh ==
  /\ visible # docs
  /\ visible' = docs
  /\ UNCHANGED <<stored, job, index, docs, rebuildVars, late, faults>>

\* A request without a caller is executed, or lost with its connection.
LateRequest(a) ==
  /\ late[a] > 0
  /\ late' = [late EXCEPT ![a] = @ - 1]
  /\ Put(a) \/ UNCHANGED indexVars
  /\ UNCHANGED <<stored, job, rebuildVars, faults>>

-----------------------------------------------------------------------------
(* Clients and index workers                                               *)

\* The insert brings the article and the intention to index it (Outbox); the
\* job is queued until it is handled or dead-lettered (IndexJobs).
Create(a) ==
  /\ a \notin stored
  /\ stored' = stored \cup {a}
  /\ job' = [job EXCEPT ![a] = "queued"]
  /\ UNCHANGED <<indexVars, rebuildVars, late, faults>>

WorkerIndexes(a) ==
  /\ job[a] = "queued"
  /\ Put(a)
  /\ job' = [job EXCEPT ![a] = "indexed"]
  /\ UNCHANGED <<stored, rebuildVars, late, faults>>

WorkerAcks(a) ==
  /\ job[a] = "indexed"
  /\ job' = [job EXCEPT ![a] = "done"]
  /\ UNCHANGED <<stored, indexVars, rebuildVars, late, faults>>

\* Processing fails or the worker dies; the job is delivered again, or has no
\* retries left.  A request that timed out may still be executed.
WorkerFails(a) ==
  /\ job[a] \in {"queued", "indexed"}
  /\ Fault
  /\ \E j \in {"queued", "dead"} : job' = [job EXCEPT ![a] = j]
  /\ \/ UNCHANGED late
     \/ job[a] = "queued" /\ late' = [late EXCEPT ![a] = @ + 1]
  /\ UNCHANGED <<stored, indexVars, rebuildVars>>

-----------------------------------------------------------------------------
(* main                                                                    *)

GoTo(where) == pc' = where /\ UNCHANGED <<snapshot, read, batch, sent>>

\* An operator starts the script, for the first time or again.
Start ==
  /\ pc \in {"idle", "done", "failed"}
  /\ pc' = "exists"
  /\ snapshot' = {} /\ read' = {}
  /\ UNCHANGED <<stored, job, indexVars, batch, sent, late, faults>>

\* Mutation: the index is not deleted first.
CheckExists_KeepsIndex ==
  /\ pc = "exists"
  /\ GoTo("create")
  /\ UNCHANGED <<stored, job, indexVars, late, faults>>

CheckExists ==
  /\ pc = "exists"
  /\ GoTo(IF index = "absent" THEN "create" ELSE "delete")
  /\ UNCHANGED <<stored, job, indexVars, late, faults>>

DeleteIndex ==
  /\ pc = "delete"
  /\ Drop
  /\ GoTo("create")
  /\ UNCHANGED <<stored, job, late, faults>>

\* Mutation: an index that exists is as good as one that was created.
CreateIndex_AnyIndex ==
  /\ pc = "create"
  /\ index' = IF index = "absent" THEN "mapped" ELSE index
  /\ GoTo("open")
  /\ UNCHANGED <<stored, job, docs, visible, late, faults>>

\* The index may be there again, created by the request of a worker or by a
\* late one: indices.create raises.
CreateIndex ==
  /\ pc = "create"
  /\ IF index = "absent" THEN index' = "mapped" /\ GoTo("open")
                         ELSE UNCHANGED index /\ GoTo("failed")
  /\ UNCHANGED <<stored, job, docs, visible, late, faults>>

\* Mutation: the cursor reads from a secondary, which may lag behind.
OpenCursor_Secondary ==
  /\ pc = "open"
  /\ snapshot' \in SUBSET stored
  /\ pc' = "read"
  /\ UNCHANGED <<stored, job, indexVars, read, batch, sent, late, faults>>

\* The first read of the cursor opens it on the server.
OpenCursor ==
  /\ pc = "open"
  /\ snapshot' = stored
  /\ pc' = "read"
  /\ UNCHANGED <<stored, job, indexVars, read, batch, sent, late, faults>>

\* The cursor returns each article once; it may return one that is inserted
\* while it is open.
ReadDocument(a) ==
  /\ pc = "read"
  /\ a \in stored \ read
  /\ read' = read \cup {a}
  /\ batch' = batch \cup {a}
  /\ pc' = IF Cardinality(batch') >= BatchSize THEN "batch" ELSE "read"
  /\ UNCHANGED <<stored, job, indexVars, snapshot, sent, late, faults>>

\* The cursor is exhausted: what was there when it was opened has been read.
EndOfCursor ==
  /\ pc = "read"
  /\ snapshot \subseteq read
  /\ GoTo(IF batch = {} THEN "refresh" ELSE "rest")
  /\ UNCHANGED <<stored, job, indexVars, late, faults>>

Indexing == pc \in {"batch", "rest"}

\* Mutation: no semaphore.
Send_Unbounded(a) ==
  /\ Indexing
  /\ a \in batch
  /\ batch' = batch \ {a}
  /\ sent' = sent \cup {a}
  /\ UNCHANGED <<stored, job, indexVars, pc, snapshot, read, late, faults>>

\* index_document: a task gets the semaphore and sends its request ...
Send(a) ==
  /\ Indexing
  /\ a \in batch
  /\ Cardinality(sent) < Concurrency
  /\ batch' = batch \ {a}
  /\ sent' = sent \cup {a}
  /\ UNCHANGED <<stored, job, indexVars, pc, snapshot, read, late, faults>>

\* ... and is answered.
DocumentIndexed(a) ==
  /\ a \in sent
  /\ Put(a)
  /\ sent' = sent \ {a}
  /\ UNCHANGED <<stored, job, pc, snapshot, read, batch, late, faults>>

\* The requests under way lose their callers.
Abandon ==
  /\ late' = [a \in Articles |-> late[a] + (IF a \in sent THEN 1 ELSE 0)]
  /\ pc' = "failed"
  /\ batch' = {} /\ sent' = {}
  /\ UNCHANGED <<snapshot, read>>

\* Mutation: the failure of a document is logged and the batch goes on.
DocumentFails_Logged(a) ==
  /\ a \in sent
  /\ Fault
  /\ sent' = sent \ {a}
  /\ UNCHANGED <<stored, job, indexVars, pc, snapshot, read, batch, late>>

\* A task raises, by its timeout or otherwise: the TaskGroup cancels all the
\* others, those that wait for the semaphore included, and raises.
DocumentFails(a) ==
  /\ a \in sent
  /\ Fault
  /\ Abandon
  /\ UNCHANGED <<stored, job, indexVars>>

\* All tasks of the batch have ended.
BatchIndexed ==
  /\ Indexing
  /\ batch = {} /\ sent = {}
  /\ GoTo(IF pc = "batch" THEN "read" ELSE "refresh")
  /\ UNCHANGED <<stored, job, indexVars, late, faults>>

RefreshIndex ==
  /\ pc = "refresh"
  /\ visible' = docs
  /\ GoTo("done")
  /\ UNCHANGED <<stored, job, index, docs, late, faults>>

\* Another call raises, applied or not, or the process dies.
Aborts ==
  /\ pc \notin {"idle", "done", "failed"}
  /\ Fault
  /\ \/ UNCHANGED indexVars
     \/ pc = "delete" /\ Drop
     \/ pc = "create" /\ index = "absent" /\ index' = "mapped" /\ UNCHANGED <<docs, visible>>
  /\ Abandon
  /\ UNCHANGED <<stored, job>>

-----------------------------------------------------------------------------
Rebuild ==
  \/ CheckExists \/ DeleteIndex \/ CreateIndex
  \/ OpenCursor \/ EndOfCursor \/ BatchIndexed \/ RefreshIndex
  \/ \E a \in Articles : ReadDocument(a) \/ Send(a) \/ DocumentIndexed(a)

Next ==
  \/ Rebuild \/ Aborts \/ Start \/ Refresh
  \/ \E a \in Articles :
       \/ DocumentFails(a) \/ LateRequest(a)
       \/ Create(a) \/ WorkerIndexes(a) \/ WorkerAcks(a) \/ WorkerFails(a)

Spec == Init /\ [][Next]_vars

(***************************************************************************)
(* The script runs on: every call it makes is answered or times out.  An   *)
(* operator starts it again when it has failed.  Nothing is asked of the   *)
(* workers, whose requests may create the index at the wrong moment.       *)
(***************************************************************************)
FairSpec == Spec /\ WF_vars(Rebuild) /\ WF_vars(pc = "failed" /\ Start)

-----------------------------------------------------------------------------
(* Properties                                                              *)

\* Types, and the limits of a batch and of the semaphore (Readme.md: "uses
\* asyncio.Semaphore to bound concurrent Elasticsearch requests").
TypeOK ==
  /\ stored \in SUBSET Articles
  /\ job \in [Articles -> {"none", "queued", "indexed", "done", "dead"}]
  /\ index \in {"absent", "mapped", "dynamic"}
  /\ docs \in SUBSET Articles
  /\ visible \in SUBSET docs
  /\ pc \in {"idle", "exists", "delete", "create", "open", "read", "batch", "rest",
             "refresh", "done", "failed"}
  /\ snapshot \in SUBSET stored
  /\ read \in SUBSET stored
  /\ batch \in SUBSET read
  /\ sent \in SUBSET read
  /\ IsFiniteSet(batch) /\ Cardinality(batch) <= BatchSize
  /\ IsFiniteSet(sent) /\ Cardinality(sent) <= Concurrency
  /\ late \in [Articles -> Nat]
  /\ faults \in 0..MaxFaults

\* A rebuild that reports success leaves an index with our mappings in which
\* searches see every article that was in MongoDB when the cursor was opened,
\* those whose jobs are in the dead-letter queue included, although workers
\* and late requests of an earlier, aborted rebuild write to the index, and
\* may create it, at any time (main; Readme.md: "Keep rebuild_search_index
\* for repairs").
SuccessIsComplete ==
  pc = "done" => index = "mapped" /\ snapshot \subseteq visible

\* The deletion forgets nothing: an article that a worker has indexed, and
\* whose job is gone, is in the index once the rebuild is over, or else its
\* job was dead-lettered after the cursor had been opened (the cursor is
\* opened after the deletion and the creation).
NothingForgotten ==
  pc \in {"idle", "done"} =>
    \A a \in stored : \/ a \in docs
                      \/ job[a] = "queued"
                      \/ job[a] = "dead" /\ a \notin snapshot

Owed == {a \in stored : job[a] \in {"queued", "dead"}}

\* How far the rebuild is, to those who do not see its calls.
Progress ==
  CASE pc \in {"exists", "delete", "create"}         -> "clearing"
    [] pc = "open"                                   -> "created"
    [] pc \in {"read", "batch", "rest", "refresh"}   -> "filling"
    [] OTHER                                         -> pc

Promise == INSTANCE RebuildPromise WITH
  owed <- Owed, rebuild <- Progress, due <- snapshot

\* Only the deletion of a rebuild removes anything from the index, and from
\* our creation of it to the success it only grows; success comes when every
\* article of the snapshot is in it and all others are somebody's to index.
\* Only what MongoDB holds gets into it, and whatever an aborted rebuild or a
\* worker has left under way counts as a write like any other.
KeepsPromise == Promise!Spec

\* Repeated until it reports success, the rebuild succeeds in the end: nothing
\* an aborted one leaves behind (an index without its documents, requests
\* still to be executed) stands in the way for ever.
RebuildSucceeds == pc \notin {"idle", "done"} ~> pc = "done"

-----------------------------------------------------------------------------
(* The invariant that module RebuildIndexProofs proves inductive           *)

\* From its creation to its success the rebuild works on an index of its own.
OwnIndexOK ==
  pc \in {"open", "read", "batch", "rest", "refresh", "done"} => index = "mapped"

\* What has been read is in the index, in the batch, or under way.
ProgressOK ==
  /\ pc \notin {"read", "batch", "rest"} => batch = {}
  /\ pc = "read" => Cardinality(batch) < BatchSize
  /\ ~ Indexing => sent = {}
  /\ pc \in {"exists", "delete", "create", "open"} => read = {}
  /\ pc \in {"read", "batch", "rest", "refresh"} => read \subseteq docs \cup batch \cup sent
  /\ pc \in {"rest", "refresh"} => snapshot \subseteq read
  /\ pc = "idle" => snapshot = {}

\* An article is in the index, or to be read, or somebody is to index it.
KeptOK ==
  pc \in {"idle", "read", "batch", "rest", "refresh", "done"} =>
    \A a \in stored : a \in docs \/ a \in snapshot \/ job[a] \in {"queued", "dead"}

\* Jobs and requests are about articles of MongoDB.
SourcesOK ==
  \A a \in Articles : job[a] # "none" \/ late[a] > 0 => a \in stored

Inv == TypeOK /\ OwnIndexOK /\ ProgressOK /\ KeptOK /\ SuccessIsComplete /\ SourcesOK
=============================================================================
