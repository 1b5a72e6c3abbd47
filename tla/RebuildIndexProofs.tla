-------------------------- MODULE RebuildIndexProofs --------------------------
(***************************************************************************)
(* What holds of the rebuild for any articles, any size of a batch, any    *)
(* concurrency and any number of faults.                                   *)
(***************************************************************************)
EXTENDS RebuildIndex, FiniteSetTheorems, TLAPS

\* Counting a fault leaves the counter within its bound.
LEMMA FaultCounted ==
  ASSUME TypeOK, Fault
  PROVE  faults' \in 0..MaxFaults
BY NumberAssumption DEF TypeOK, Fault

\* A set without its element is as finite and no larger.
LEMMA SmallerSet ==
  ASSUME NEW S, NEW x, NEW n \in Nat, IsFiniteSet(S), Cardinality(S) <= n
  PROVE  IsFiniteSet(S \ {x}) /\ Cardinality(S \ {x}) <= n
<1>1. IsFiniteSet(S \ {x}) /\ Cardinality(S \ {x}) \in Nat /\ Cardinality(S) \in Nat
  BY FS_RemoveElement, FS_CardinalityType, FS_EmptySet
<1>2. Cardinality(S \ {x}) <= Cardinality(S)
  BY FS_Subset
<1> QED
  BY <1>1, <1>2

\* One element more.
LEMMA LargerSet ==
  ASSUME NEW S, NEW x, NEW n \in Nat, IsFiniteSet(S), Cardinality(S) < n
  PROVE  IsFiniteSet(S \cup {x}) /\ Cardinality(S \cup {x}) <= n
<1>1. IsFiniteSet(S \cup {x}) /\ Cardinality(S) \in Nat
  BY FS_AddElement, FS_CardinalityType
<1>2. Cardinality(S \cup {x}) = Cardinality(S) \/ Cardinality(S \cup {x}) = Cardinality(S) + 1
  BY FS_AddElement
<1> QED
  BY <1>1, <1>2

\* The empty set fits everywhere.
LEMMA NoElements ==
  IsFiniteSet({}) /\ Cardinality({}) = 0
BY FS_EmptySet

-----------------------------------------------------------------------------
(* Init                                                                    *)

\* The invariant holds at the start.
LEMMA InitInv ==
  ASSUME Init
  PROVE  Inv
<1>1. TypeOK
  BY NoElements, NumberAssumption DEF Init, TypeOK
<1> QED
  BY <1>1 DEF Init, Inv, OwnIndexOK, ProgressOK, KeptOK, SuccessIsComplete, SourcesOK, Indexing

-----------------------------------------------------------------------------
(* Elasticsearch, clients and workers                                      *)

\* A step that leaves the rebuild alone, removes nothing from the index, the
\* articles or what searches see, and gives up no job that was not queued.
LEMMA OutsideStep ==
  ASSUME Inv, TypeOK', UNCHANGED rebuildVars,
         docs \subseteq docs', visible \subseteq visible',
         index = "mapped" => index' = "mapped",
         SourcesOK',
         \A a \in stored' :
           \/ a \in stored /\ (job[a] \in {"queued", "dead"} =>
                                 a \in docs' \/ job'[a] \in {"queued", "dead"})
           \/ job'[a] \in {"queued", "dead"}
  PROVE  Inv'
<1>1. OwnIndexOK'
  BY DEF Inv, OwnIndexOK, rebuildVars
<1>2. ProgressOK'
  BY DEF Inv, ProgressOK, Indexing, rebuildVars
<1>3. KeptOK'
  <2>1. SUFFICES ASSUME pc \in {"idle", "read", "batch", "rest", "refresh", "done"},
                        NEW a \in stored'
                 PROVE  a \in docs' \/ a \in snapshot \/ job'[a] \in {"queued", "dead"}
    BY DEF KeptOK, rebuildVars
  <2>2. CASE job'[a] \in {"queued", "dead"}
    BY <2>2
  <2>3. CASE a \in stored /\ (job[a] \in {"queued", "dead"} =>
                                a \in docs' \/ job'[a] \in {"queued", "dead"})
    BY <2>1, <2>3 DEF Inv, KeptOK
  <2> QED
    BY <2>2, <2>3
<1>4. SuccessIsComplete'
  BY DEF Inv, SuccessIsComplete, rebuildVars
<1> QED
  BY <1>1, <1>2, <1>3, <1>4 DEF Inv

\* Refresh only shows more.
LEMMA RefreshInv ==
  ASSUME Inv, Refresh
  PROVE  Inv'
<1> USE DEF Inv, TypeOK, Refresh, rebuildVars
<1>1. TypeOK'
  OBVIOUS
<1>2. \A a \in stored' : a \in stored /\ job' = job
  OBVIOUS
<1>3. SourcesOK'
  BY DEF SourcesOK
<1> QED
  BY <1>1, <1>2, <1>3, OutsideStep

\* What becomes of the index when a document arrives.
LEMMA PutGrows ==
  ASSUME TypeOK, NEW a \in Articles, Put(a)
  PROVE  /\ docs' = docs \cup {a} /\ docs' \in SUBSET Articles
         /\ visible' = visible /\ visible' \in SUBSET docs'
         /\ index' \in {"mapped", "dynamic"}
         /\ index = "mapped" => index' = "mapped"
BY DEF Put, TypeOK

\* A late request adds to the index or vanishes.
LEMMA LateRequestInv ==
  ASSUME Inv, NEW a \in Articles, LateRequest(a)
  PROVE  Inv'
<1>1. TypeOK
  BY DEF Inv
<1>2. late' \in [Articles -> Nat] /\ SourcesOK'
  BY <1>1 DEF LateRequest, TypeOK, Inv, SourcesOK
<1>3. CASE Put(a)
  <2>1. TypeOK'
    BY <1>1, <1>2, <1>3, PutGrows DEF LateRequest, TypeOK, rebuildVars
  <2> QED
    BY <1>1, <1>2, <1>3, <2>1, PutGrows, OutsideStep DEF LateRequest
<1>4. CASE UNCHANGED indexVars
  <2>1. TypeOK'
    BY <1>1, <1>2, <1>4 DEF LateRequest, TypeOK, rebuildVars, indexVars
  <2> QED
    BY <1>2, <1>4, <2>1, OutsideStep DEF LateRequest, indexVars
<1> QED
  BY <1>3, <1>4 DEF LateRequest

\* A new article has a queued job.
LEMMA CreateInv ==
  ASSUME Inv, NEW a \in Articles, Create(a)
  PROVE  Inv'
<1>1. TypeOK
  BY DEF Inv
<1>2. TypeOK'
  BY <1>1 DEF Create, TypeOK, indexVars, rebuildVars
<1>3. \A b \in stored' : job'[b] \in {"queued", "dead"} \/ (b \in stored /\ job'[b] = job[b])
  BY <1>1 DEF Create, TypeOK
<1>4. SourcesOK'
  BY <1>1 DEF Create, TypeOK, Inv, SourcesOK
<1> QED
  BY <1>2, <1>3, <1>4, OutsideStep DEF Create, indexVars

\* A worker adds its article to the index.
LEMMA WorkerIndexesInv ==
  ASSUME Inv, NEW a \in Articles, WorkerIndexes(a)
  PROVE  Inv'
<1>1. TypeOK
  BY DEF Inv
<1>2. TypeOK'
  BY <1>1, PutGrows DEF WorkerIndexes, TypeOK, rebuildVars
<1>3. \A b \in stored' : b \in stored /\ (job'[b] = job[b] \/ b \in docs')
  BY <1>1, PutGrows DEF WorkerIndexes, TypeOK
<1>4. SourcesOK'
  BY <1>1 DEF WorkerIndexes, TypeOK, Inv, SourcesOK
<1> QED
  BY <1>1, <1>2, <1>3, <1>4, PutGrows, OutsideStep DEF WorkerIndexes

\* An acknowledged job was neither queued nor dead before.
LEMMA WorkerAcksInv ==
  ASSUME Inv, NEW a \in Articles, WorkerAcks(a)
  PROVE  Inv'
<1>1. TypeOK
  BY DEF Inv
<1>2. TypeOK'
  BY <1>1 DEF WorkerAcks, TypeOK, indexVars, rebuildVars
<1>3. \A b \in stored' : b \in stored /\ (job'[b] = job[b] \/ job[b] = "indexed")
  BY <1>1 DEF WorkerAcks, TypeOK
<1>4. SourcesOK'
  BY <1>1 DEF WorkerAcks, TypeOK, Inv, SourcesOK
<1> QED
  BY <1>2, <1>3, <1>4, OutsideStep DEF WorkerAcks, indexVars

\* A failed job is queued again, or dead.
LEMMA WorkerFailsInv ==
  ASSUME Inv, NEW a \in Articles, WorkerFails(a)
  PROVE  Inv'
<1>1. TypeOK
  BY DEF Inv
<1>2. faults' \in 0..MaxFaults
  BY <1>1, FaultCounted DEF WorkerFails
<1>3. late' \in [Articles -> Nat]
  BY <1>1 DEF WorkerFails, TypeOK
<1>4. /\ job' \in [Articles -> {"none", "queued", "indexed", "done", "dead"}]
      /\ \A b \in Articles : job'[b] = job[b] \/ job'[b] \in {"queued", "dead"}
  BY <1>1 DEF WorkerFails, TypeOK
<1>5. TypeOK'
  BY <1>1, <1>2, <1>3, <1>4 DEF WorkerFails, TypeOK, indexVars, rebuildVars
<1>6. stored' = stored /\ stored \subseteq Articles
  BY <1>1 DEF WorkerFails, TypeOK
<1>7. SourcesOK'
  BY <1>1 DEF WorkerFails, TypeOK, Inv, SourcesOK
<1> QED
  BY <1>4, <1>5, <1>6, <1>7, OutsideStep DEF WorkerFails, indexVars

-----------------------------------------------------------------------------
(* The rebuild                                                             *)

\* Starting again forgets the old rebuild.
LEMMA StartInv ==
  ASSUME Inv, Start
  PROVE  Inv'
BY DEF Inv, TypeOK, OwnIndexOK, ProgressOK, KeptOK, SuccessIsComplete, SourcesOK, Start, Indexing, indexVars

\* The check moves on only.
LEMMA CheckExistsInv ==
  ASSUME Inv, CheckExists
  PROVE  Inv'
BY DEF Inv, TypeOK, OwnIndexOK, ProgressOK, KeptOK, SuccessIsComplete, SourcesOK, CheckExists, GoTo,
       Indexing, indexVars

\* Nothing is claimed of an index that is being replaced.
LEMMA DeleteIndexInv ==
  ASSUME Inv, DeleteIndex
  PROVE  Inv'
BY DEF Inv, TypeOK, OwnIndexOK, ProgressOK, KeptOK, SuccessIsComplete, SourcesOK, DeleteIndex, Drop, GoTo,
       Indexing

\* The index is our own from its creation.
LEMMA CreateIndexInv ==
  ASSUME Inv, CreateIndex
  PROVE  Inv'
BY DEF Inv, TypeOK, OwnIndexOK, ProgressOK, KeptOK, SuccessIsComplete, SourcesOK, CreateIndex, GoTo,
       Indexing

\* The snapshot has all articles.
LEMMA OpenCursorInv ==
  ASSUME Inv, OpenCursor
  PROVE  Inv'
<1>1. Cardinality(batch') < BatchSize
  BY NoElements, NumberAssumption DEF Inv, ProgressOK, OpenCursor
<1> QED
  BY <1>1 DEF Inv, TypeOK, OwnIndexOK, ProgressOK, KeptOK, SuccessIsComplete, SourcesOK, OpenCursor,
       Indexing, indexVars

\* A batch is full before it is too large.
LEMMA ReadDocumentInv ==
  ASSUME Inv, NEW a \in Articles, ReadDocument(a)
  PROVE  Inv'
<1>1. IsFiniteSet(batch') /\ Cardinality(batch') <= BatchSize
  BY LargerSet, NumberAssumption DEF Inv, TypeOK, ProgressOK, ReadDocument
<1>2. Cardinality(batch') \in Nat
  BY <1>1, FS_CardinalityType
<1>3. pc' = "read" => Cardinality(batch') < BatchSize
  BY <1>2, NumberAssumption DEF ReadDocument
<1>4. pc' \in {"read", "batch"}
  BY DEF ReadDocument
<1>5. TypeOK'
  BY <1>1, <1>4 DEF Inv, TypeOK, ReadDocument, indexVars
<1> QED
  BY <1>3, <1>4, <1>5 DEF Inv, TypeOK, OwnIndexOK, ProgressOK, KeptOK, SuccessIsComplete, SourcesOK,
       ReadDocument, Indexing, indexVars

\* At the end of the cursor the snapshot has been read.
LEMMA EndOfCursorInv ==
  ASSUME Inv, EndOfCursor
  PROVE  Inv'
BY DEF Inv, TypeOK, OwnIndexOK, ProgressOK, KeptOK, SuccessIsComplete, SourcesOK, EndOfCursor, GoTo,
       Indexing, indexVars

\* The semaphore is not exceeded.
LEMMA SendInv ==
  ASSUME Inv, NEW a \in Articles, Send(a)
  PROVE  Inv'
<1>1. IsFiniteSet(batch') /\ Cardinality(batch') <= BatchSize
  BY SmallerSet, NumberAssumption DEF Inv, TypeOK, Send
<1>2. IsFiniteSet(sent') /\ Cardinality(sent') <= Concurrency
  BY LargerSet, NumberAssumption DEF Inv, TypeOK, Send
<1>3. TypeOK'
  BY <1>1, <1>2 DEF Inv, TypeOK, Send, indexVars
<1> QED
  BY <1>3 DEF Inv, TypeOK, OwnIndexOK, ProgressOK, KeptOK, SuccessIsComplete, SourcesOK, Send,
       Indexing, indexVars

\* What was under way is in the index.
LEMMA DocumentIndexedInv ==
  ASSUME Inv, NEW a \in Articles, DocumentIndexed(a)
  PROVE  Inv'
<1>1. TypeOK /\ Put(a)
  BY DEF Inv, DocumentIndexed
<1>2. IsFiniteSet(sent') /\ Cardinality(sent') <= Concurrency
  BY SmallerSet, NumberAssumption DEF Inv, TypeOK, DocumentIndexed
<1>3. TypeOK'
  BY <1>1, <1>2, PutGrows DEF TypeOK, DocumentIndexed
<1>4. Indexing
  BY DEF DocumentIndexed, Inv, ProgressOK
<1>5. index' = "mapped"
  BY <1>1, <1>4, PutGrows DEF Inv, OwnIndexOK, Indexing
<1> QED
  BY <1>1, <1>3, <1>4, <1>5, PutGrows DEF Inv, OwnIndexOK, ProgressOK, KeptOK,
       SuccessIsComplete, SourcesOK, DocumentIndexed, Indexing

\* After the last batch everything is in the index.
LEMMA BatchIndexedInv ==
  ASSUME Inv, BatchIndexed
  PROVE  Inv'
<1>1. pc' = "read" => Cardinality(batch') < BatchSize
  BY NoElements, NumberAssumption DEF BatchIndexed, GoTo
<1> QED
  BY <1>1 DEF Inv, TypeOK, OwnIndexOK, ProgressOK, KeptOK, SuccessIsComplete, SourcesOK, BatchIndexed,
       GoTo, Indexing, indexVars

\* The refresh shows what is in the index.
LEMMA RefreshIndexInv ==
  ASSUME Inv, RefreshIndex
  PROVE  Inv'
BY DEF Inv, TypeOK, OwnIndexOK, ProgressOK, KeptOK, SuccessIsComplete, SourcesOK, RefreshIndex, GoTo,
       Indexing

\* A rebuild that has failed claims nothing.
LEMMA AbandonInv ==
  ASSUME Inv, Abandon, Fault, UNCHANGED <<stored, job>>,
         index' \in {"absent", "mapped", "dynamic"},
         docs' \in SUBSET Articles, visible' \in SUBSET docs'
  PROVE  Inv'
<1>1. faults' \in 0..MaxFaults
  BY FaultCounted DEF Inv
<1>2. late' \in [Articles -> Nat]
  BY DEF Abandon, Inv, TypeOK
<1>3. TypeOK'
  BY <1>1, <1>2, NoElements, NumberAssumption DEF Inv, TypeOK, Abandon
<1>4. SourcesOK'
  BY DEF Abandon, Inv, TypeOK, SourcesOK
<1> QED
  BY <1>3, <1>4 DEF Inv, OwnIndexOK, ProgressOK, KeptOK, SuccessIsComplete, Abandon, Indexing

\* The failure of a document ends the rebuild.
LEMMA DocumentFailsInv ==
  ASSUME Inv, NEW a \in Articles, DocumentFails(a)
  PROVE  Inv'
BY AbandonInv DEF DocumentFails, Inv, TypeOK, indexVars

\* So does any other failure.
LEMMA AbortsInv ==
  ASSUME Inv, Aborts
  PROVE  Inv'
BY AbandonInv DEF Aborts, Drop, Inv, TypeOK, indexVars

-----------------------------------------------------------------------------
(* The theorems                                                            *)

\* Nothing in Inv depends on more than the variables.
LEMMA StutterInv ==
  ASSUME Inv, UNCHANGED vars
  PROVE  Inv'
BY DEF Inv, TypeOK, OwnIndexOK, ProgressOK, KeptOK, SuccessIsComplete, SourcesOK, Indexing, vars

\* Every step keeps the invariant.
LEMMA NextInv ==
  ASSUME Inv, [Next]_vars
  PROVE  Inv'
<1>1. CASE Rebuild
  <2>1. CASE CheckExists \/ DeleteIndex \/ CreateIndex
    BY <2>1, CheckExistsInv, DeleteIndexInv, CreateIndexInv
  <2>2. CASE OpenCursor \/ EndOfCursor \/ BatchIndexed \/ RefreshIndex
    BY <2>2, OpenCursorInv, EndOfCursorInv, BatchIndexedInv, RefreshIndexInv
  <2>3. CASE \E a \in Articles : ReadDocument(a) \/ Send(a) \/ DocumentIndexed(a)
    BY <2>3, ReadDocumentInv, SendInv, DocumentIndexedInv
  <2> QED
    BY <1>1, <2>1, <2>2, <2>3 DEF Rebuild
<1>2. CASE Aborts \/ Start \/ Refresh
  BY <1>2, AbortsInv, StartInv, RefreshInv
<1>3. ASSUME NEW a \in Articles,
             \/ DocumentFails(a) \/ LateRequest(a)
             \/ Create(a) \/ WorkerIndexes(a) \/ WorkerAcks(a) \/ WorkerFails(a)
      PROVE  Inv'
  BY <1>3, DocumentFailsInv, LateRequestInv, CreateInv, WorkerIndexesInv, WorkerAcksInv,
     WorkerFailsInv
<1>4. CASE UNCHANGED vars
  BY <1>4, StutterInv
<1> QED
  BY <1>1, <1>2, <1>3, <1>4 DEF Next

\* Inv holds in every reachable state.
THEOREM Invariance == Spec => []Inv
<1>1. Init => Inv
  BY InitInv
<1>2. Inv /\ [Next]_vars => Inv'
  BY NextInv
<1> QED
  BY <1>1, <1>2, PTL DEF Spec

\* Types, the size of a batch and the limit of the semaphore.
THEOREM TypeCorrect == Spec => []TypeOK
<1>1. Inv => TypeOK
  BY DEF Inv
<1> QED
  BY <1>1, Invariance, PTL

\* main reports success only of an index that is its own and complete.
THEOREM SuccessMeansComplete == Spec => []SuccessIsComplete
<1>1. Inv => SuccessIsComplete
  BY DEF Inv
<1> QED
  BY <1>1, Invariance, PTL

\* The deletion of the index loses no article whose job is gone.
THEOREM NothingIsForgotten == Spec => []NothingForgotten
<1>1. Inv => NothingForgotten
  <2>1. SUFFICES ASSUME Inv, pc \in {"idle", "done"}, NEW a \in stored
                 PROVE  a \in docs \/ job[a] = "queued" \/ (job[a] = "dead" /\ a \notin snapshot)
    BY DEF NothingForgotten
  <2>2. a \in docs \/ a \in snapshot \/ job[a] \in {"queued", "dead"}
    BY <2>1 DEF Inv, KeptOK
  <2>3. a \in snapshot => a \in docs
    BY <2>1 DEF Inv, TypeOK, ProgressOK, SuccessIsComplete
  <2> QED
    BY <2>2, <2>3
<1> QED
  BY <1>1, Invariance, PTL

-----------------------------------------------------------------------------
(* The promise of the rebuild                                              *)

\* Steps of batches, tasks and cursor are of no concern to the promise.
LEMMA InvisibleStep ==
  ASSUME UNCHANGED <<stored, job, index, docs, visible, snapshot>>, Progress' = Progress
  PROVE  UNCHANGED Promise!vars
BY DEF Promise!vars, Owed

\* A request about an article of MongoDB is a write, whoever sent it.
LEMMA WriteRefines ==
  ASSUME TypeOK, NEW a \in Articles, a \in stored, Put(a),
         UNCHANGED <<stored, snapshot, pc>>
  PROVE  Promise!Write(a)
BY DEF Promise!Write, Put, Progress

\* The script has its own place in the promise.
LEMMA RunningMeans ==
  ASSUME TypeOK
  PROVE  Promise!Running <=> pc \notin {"idle", "done", "failed"}
BY DEF TypeOK, Promise!Running, Progress

\* Initially there is nothing.
LEMMA InitRefines ==
  ASSUME Init
  PROVE  Promise!Init
BY DEF Init, Promise!Init, Owed, Progress

\* A new article is owed to the index.
LEMMA CreateRefines ==
  ASSUME Inv, NEW a \in Articles, Create(a)
  PROVE  Promise!Next
<1>1. TypeOK /\ SourcesOK
  BY DEF Inv
<1>2. Owed' = Owed \cup {a}
  BY <1>1 DEF Create, Owed, TypeOK
<1>3. Promise!Store(a)
  BY <1>2 DEF Create, Promise!Store, Progress, indexVars, rebuildVars
<1> QED
  BY <1>3 DEF Promise!Next

\* A worker indexes an article that is owed, or owes it again.
LEMMA WorkerRefines ==
  ASSUME Inv, NEW a \in Articles, WorkerIndexes(a) \/ WorkerAcks(a) \/ WorkerFails(a)
  PROVE  [Promise!Next]_(Promise!vars)
<1>1. TypeOK /\ SourcesOK
  BY DEF Inv
<1>2. a \in stored
  BY <1>1 DEF SourcesOK, WorkerIndexes, WorkerAcks, WorkerFails
<1>3. CASE WorkerIndexes(a)
  <2>1. a \in Owed /\ Owed' = Owed \ {a}
    BY <1>1, <1>2, <1>3 DEF WorkerIndexes, Owed, TypeOK
  <2>2. Promise!Write(a)
    BY <1>1, <1>2, <1>3, WriteRefines DEF WorkerIndexes, rebuildVars
  <2>3. Promise!Pay(a)
    BY <2>1, <2>2 DEF Promise!Pay
  <2> QED
    BY <2>3 DEF Promise!Next
<1>4. CASE WorkerAcks(a)
  <2>1. Owed' = Owed
    BY <1>1, <1>4 DEF WorkerAcks, Owed, TypeOK
  <2> QED
    BY <1>4, <2>1 DEF WorkerAcks, Promise!vars, Progress, indexVars, rebuildVars
<1>5. CASE WorkerFails(a)
  <2>1. Owed' = Owed \cup {a}
    BY <1>1, <1>2, <1>5 DEF WorkerFails, Owed, TypeOK
  <2>2. Promise!Owe(a)
    BY <1>2, <1>5, <2>1 DEF WorkerFails, Promise!Owe, Progress, indexVars, rebuildVars
  <2> QED
    BY <2>2 DEF Promise!Next
<1> QED
  BY <1>3, <1>4, <1>5

\* What an aborted rebuild or a worker has left under way is a write, if anything.
LEMMA LateRequestRefines ==
  ASSUME Inv, NEW a \in Articles, LateRequest(a)
  PROVE  [Promise!Next]_(Promise!vars)
<1>1. TypeOK /\ SourcesOK
  BY DEF Inv
<1>2. a \in stored /\ Owed' = Owed
  BY <1>1 DEF SourcesOK, LateRequest, Owed, TypeOK
<1>3. CASE Put(a)
  <2>1. Promise!Write(a)
    BY <1>1, <1>2, <1>3, WriteRefines DEF LateRequest, rebuildVars
  <2> QED
    BY <1>2, <2>1 DEF Promise!Next
<1>4. CASE UNCHANGED indexVars
  BY <1>2, <1>4 DEF LateRequest, Promise!vars, Progress, indexVars, rebuildVars
<1> QED
  BY <1>3, <1>4 DEF LateRequest

\* So is what its tasks write.
LEMMA DocumentIndexedRefines ==
  ASSUME Inv, NEW a \in Articles, DocumentIndexed(a)
  PROVE  Promise!Next
<1>1. TypeOK
  BY DEF Inv
<1>2. a \in stored /\ Owed' = Owed
  BY <1>1 DEF DocumentIndexed, TypeOK, Owed
<1>3. Promise!Write(a)
  BY <1>1, <1>2, WriteRefines DEF DocumentIndexed
<1> QED
  BY <1>2, <1>3 DEF Promise!Next

\* Start, deletion, creation and the opening of the cursor.
LEMMA ReplaceRefines ==
  ASSUME Inv, Start \/ CheckExists \/ DeleteIndex \/ CreateIndex \/ OpenCursor
  PROVE  [Promise!Next]_(Promise!vars)
<1>1. TypeOK
  BY DEF Inv
<1>2. Owed' = Owed
  BY DEF Owed, Start, CheckExists, DeleteIndex, CreateIndex, OpenCursor
<1>3. CASE Start
  <2>1. Promise!Begin
    BY <1>1, <1>2, <1>3, RunningMeans DEF Start, Promise!Begin, Progress, indexVars
  <2> QED
    BY <2>1 DEF Promise!Next
<1>4. CASE CheckExists
  <2>1. Progress' = Progress
    BY <1>4 DEF CheckExists, GoTo, Progress
  <2> QED
    BY <1>4, <2>1, InvisibleStep DEF CheckExists, GoTo, indexVars
<1>5. CASE DeleteIndex
  <2>1. Progress = "clearing" /\ Progress' = "clearing"
    BY <1>5 DEF DeleteIndex, GoTo, Progress
  <2>2. Promise!Replace
    BY <1>2, <1>5, <2>1 DEF DeleteIndex, GoTo, Drop, Promise!Replace, Promise!Clear
  <2> QED
    BY <2>2 DEF Promise!Next
<1>6. CASE CreateIndex /\ index = "absent"
  <2>1. Progress = "clearing" /\ Progress' = "created"
    BY <1>6 DEF CreateIndex, GoTo, Progress
  <2>2. Promise!Replace
    BY <1>2, <1>6, <2>1 DEF CreateIndex, GoTo, Promise!Replace, Promise!Create
  <2> QED
    BY <2>2 DEF Promise!Next
<1>7. CASE CreateIndex /\ index # "absent"
  <2>1. Progress = "clearing" /\ Progress' = "failed"
    BY <1>7 DEF CreateIndex, GoTo, Progress
  <2>2. Promise!Fail
    BY <1>2, <1>7, <2>1 DEF CreateIndex, GoTo, Promise!Fail, Promise!Running
  <2> QED
    BY <2>2 DEF Promise!Next
<1>8. CASE OpenCursor
  <2>1. Progress = "created" /\ Progress' = "filling"
    BY <1>8 DEF OpenCursor, Progress
  <2>2. Promise!Open
    BY <1>2, <1>8, <2>1 DEF OpenCursor, Promise!Open, indexVars
  <2> QED
    BY <2>2 DEF Promise!Next
<1> QED
  BY <1>3, <1>4, <1>5, <1>6, <1>7, <1>8

\* Reading and sending change nothing that others see.
LEMMA FillingRefines ==
  ASSUME Inv, \/ EndOfCursor \/ BatchIndexed
              \/ \E a \in Articles : ReadDocument(a) \/ Send(a)
  PROVE  UNCHANGED Promise!vars
<1>1. Progress' = Progress
  BY DEF Inv, TypeOK, EndOfCursor, BatchIndexed, ReadDocument, Send, Indexing, GoTo, Progress
<1> QED
  BY <1>1, InvisibleStep DEF EndOfCursor, BatchIndexed, ReadDocument, Send, GoTo, indexVars

\* When the script refreshes the index, nothing is missing but what is owed.
LEMMA SuccessRefines ==
  ASSUME Inv, RefreshIndex
  PROVE  Promise!Next
<1>1. pc = "refresh" /\ batch = {} /\ sent = {}
  BY DEF Inv, ProgressOK, Indexing, RefreshIndex
<1>2. index = "mapped" /\ snapshot \subseteq docs
  BY <1>1 DEF Inv, OwnIndexOK, ProgressOK
<1>3. stored \subseteq docs \cup Owed
  BY <1>1, <1>2 DEF Inv, KeptOK, Owed
<1>4. Progress = "filling" /\ Progress' = "done" /\ Owed' = Owed
  BY DEF RefreshIndex, GoTo, Progress, Owed
<1>5. Promise!Succeed
  BY <1>2, <1>3, <1>4 DEF RefreshIndex, GoTo, Promise!Succeed
<1> QED
  BY <1>5 DEF Promise!Next

\* A rebuild that gives up has replaced the index at most.
LEMMA FailureRefines ==
  ASSUME Inv, Aborts \/ \E a \in Articles : DocumentFails(a)
  PROVE  Promise!Next
<1>1. TypeOK /\ ProgressOK
  BY DEF Inv
<1>2. pc \notin {"idle", "done", "failed"}
  BY <1>1 DEF ProgressOK, Indexing, Aborts, DocumentFails
<1>3. /\ Progress' = "failed" /\ snapshot' = snapshot
      /\ stored' = stored /\ Owed' = Owed
  BY DEF Aborts, DocumentFails, Abandon, Progress, Owed
<1>4. Promise!Clear \/ Promise!Create \/ UNCHANGED <<index, docs, visible>>
  BY DEF Aborts, DocumentFails, Drop, Promise!Clear, Promise!Create, Progress, indexVars
<1>5. Promise!Fail
  BY <1>1, <1>2, <1>3, <1>4, RunningMeans DEF Promise!Fail
<1> QED
  BY <1>5 DEF Promise!Next

\* Every step is a step of the promise or of no concern to it.
LEMMA NextRefines ==
  ASSUME Inv, [Next]_vars
  PROVE  [Promise!Next]_(Promise!vars)
<1>1. CASE Rebuild
  BY <1>1, ReplaceRefines, FillingRefines, SuccessRefines, DocumentIndexedRefines DEF Rebuild
<1>2. CASE Aborts \/ Start
  BY <1>2, FailureRefines, ReplaceRefines
<1>3. CASE Refresh
  <2>1. Promise!Show
    BY <1>3 DEF Refresh, Promise!Show, Owed, Progress, rebuildVars
  <2> QED
    BY <2>1 DEF Promise!Next
<1>4. ASSUME NEW a \in Articles,
             \/ DocumentFails(a) \/ LateRequest(a)
             \/ Create(a) \/ WorkerIndexes(a) \/ WorkerAcks(a) \/ WorkerFails(a)
      PROVE  [Promise!Next]_(Promise!vars)
  BY <1>4, FailureRefines, LateRequestRefines, CreateRefines, WorkerRefines
<1>5. CASE UNCHANGED vars
  BY <1>5, InvisibleStep DEF vars, Progress
<1> QED
  BY <1>1, <1>2, <1>3, <1>4, <1>5 DEF Next

\* The script, the workers and Elasticsearch implement RebuildPromise: nothing
\* but a deletion takes an article out of the index, and main reports success
\* only when nothing is missing but what somebody owes, whatever faults, late
\* requests and earlier rebuilds leave behind.
THEOREM PromiseIsKept == Spec => KeepsPromise
<1>1. Init => Promise!Init
  BY InitRefines
<1>2. Inv /\ [Next]_vars => [Promise!Next]_(Promise!vars)
  BY NextRefines
<1> QED
  BY <1>1, <1>2, Invariance, PTL DEF Spec, KeepsPromise, Promise!Spec
=============================================================================
