------------------------------ MODULE IndexJobs ------------------------------
(***************************************************************************)
(* The indexing jobs on RabbitMQ (main queue, retry queue with a TTL,      *)
(* dead-letter queue) and the workers that consume them                    *)
(* (article_index_worker.main, ArticleJobHandler, ArticleIndexProcessor,   *)
(* ReliableQueuePublisher).                                                *)
(*                                                                         *)
(* A worker handles several deliveries at once, each in a task of its own  *)
(* ("slot"); a step of a slot is the code between two awaits.  A delivery  *)
(* is settled by publishing a successor to another queue and then          *)
(* acknowledging, or by acknowledging alone.  A task can outlive its       *)
(* delivery: after a lost connection the broker delivers the message again *)
(* while the old task is still running.                                    *)
(***************************************************************************)
EXTENDS Naturals, FiniteSets

CONSTANTS
  Articles,     \* articles that jobs are about
  Ids,          \* identities of messages in the broker, reused when free
  Workers,      \* worker processes, each one restarted when it ends
  Slots,        \* the tasks that handle deliveries
  WorkerOf,     \* the worker of each slot
  Prefetch,     \* unacknowledged deliveries a worker may have (5)
  MaxRetries,   \* MAX_RETRIES (3)
  MaxCopies,    \* bound: jobs about one article that are submitted; more than one
                \* if the dispatcher repeats a publication
  MaxFaults,    \* bound: faults of the environment in one behaviour
  None          \* no slot, no delivery, no content

ASSUME NumberAssumption ==
  /\ Ids \subseteq Nat /\ Prefetch \in Nat \ {0} /\ MaxRetries \in Nat
  /\ MaxCopies \in Nat /\ MaxFaults \in Nat
ASSUME SlotAssumption == WorkerOf \in [Slots -> Workers] /\ None \notin Slots

VARIABLES
  broker,     \* broker[m]: the queue that stores m, and m's content
  owner,      \* owner[m]: the slot m is delivered to and not yet acknowledged
  pc,         \* where each slot is in ArticleJobHandler.handle
  work,       \* its delivery and, once decided, where the successor goes
  stopping,   \* workers whose stop_event is set
  missing,    \* articles that are not in MongoDB
  copies,     \* copies[a]: jobs about a that the broker has accepted
  indexed,    \* articles in Elasticsearch
  failed,     \* failed[a]: processings of a's job that raised, up to MaxRetries + 1
  faults      \* faults so far

brokerVars == <<broker, owner>>
slotVars   == <<pc, work>>
vars == <<broker, owner, pc, work, stopping, missing, copies, indexed, failed, faults>>

Reasons == {"none", "InvalidRetryMetadata", "InvalidJobSchema", "RetryLimitExceeded",
            "ArticleMissing", "ProcessingError", "RetriesExhausted"}
Bodies == [article : Articles, form : {"valid", "badCount", "badSchema"},
           retry : 0..(MaxRetries + 1), reason : Reasons]
Queues == {"main", "retry", "dlq"}

Stored == [queue : Queues, body : Bodies]
NoMessage == [queue |-> "none", body |-> None]

Deliveries == [id : Ids, body : Bodies, to : {"undecided", "retry", "dlq"}, reason : Reasons]

ASSUME NoneAssumption == None \notin Deliveries

\* Jobs as the dispatcher publishes them, and what a foreign or an older
\* publisher may have left in the queue.  Left out are foreign jobs that arrive
\* with a well-formed x-retry-count of 1..MaxRetries: the handler trusts the
\* header to stand for that many failed processings, and so would give such a
\* job up after fewer.
Arrivals(a) ==
  LET job == [article |-> a, form |-> "valid", retry |-> 0, reason |-> "none"] IN
  {job, [job EXCEPT !.form = "badCount"], [job EXCEPT !.form = "badSchema"],
   [job EXCEPT !.retry = MaxRetries + 1]}

Init ==
  /\ broker = [m \in Ids |-> NoMessage]
  /\ owner = [m \in Ids |-> None]
  /\ pc = [s \in Slots |-> "idle"]
  /\ work = [s \in Slots |-> None]
  /\ stopping = {}
  /\ missing \in SUBSET Articles
  /\ copies = [a \in Articles |-> 0]
  /\ indexed = {}
  /\ failed = [a \in Articles |-> 0]
  /\ faults = 0

Fault == faults < MaxFaults /\ faults' = faults + 1

-----------------------------------------------------------------------------
(* The broker                                                              *)

Live == {m \in Ids : broker[m].queue # "none"}

\* Articles whose job the broker has accepted.
Accepted == {a \in Articles : copies[a] > 0}

\* A stored message has an identity no other one has; the least free one.
Publish(q, b) ==
  \E m \in Ids \ Live :
    /\ \A k \in Ids \ Live : m <= k
    /\ broker' = [broker EXCEPT ![m] = [queue |-> q, body |-> b]]

Submit(a, b) ==
  /\ copies[a] < MaxCopies
  /\ Publish("main", b)
  /\ copies' = [copies EXCEPT ![a] = @ + 1]
  /\ UNCHANGED <<owner, slotVars, stopping, missing, indexed, failed, faults>>

\* The API stores an article: readers of MongoDB miss it no longer.  Its id is
\* a new one, which no job has named before.
Store(a) ==
  /\ a \in missing \ Accepted
  /\ missing' = missing \ {a}
  /\ UNCHANGED <<brokerVars, slotVars, stopping, copies, indexed, failed, faults>>

\* Mutation: the dead-letter queue is declared with the retry queue's TTL, too.
Expire_DeadLetters(m) ==
  /\ broker[m].queue \in {"retry", "dlq"}
  /\ broker' = [broker EXCEPT ![m].queue = "main"]
  /\ UNCHANGED <<owner, slotVars, stopping, missing, copies, indexed, failed, faults>>

\* The TTL of the retry queue dead-letters a message to the main queue.
Expire(m) ==
  /\ broker[m].queue = "retry"
  /\ broker' = [broker EXCEPT ![m].queue = "main"]
  /\ UNCHANGED <<owner, slotVars, stopping, missing, copies, indexed, failed, faults>>

\* Deliveries of w that are not acknowledged, and their return to the queue.
Unacked(w) == {m \in Ids : owner[m] # None /\ WorkerOf[owner[m]] = w}
Requeue(w) == owner' = [m \in Ids |-> IF m \in Unacked(w) THEN None ELSE owner[m]]

-----------------------------------------------------------------------------
(* ArticleJobHandler.handle                                                *)

Idle(s) ==
  /\ pc' = [pc EXCEPT ![s] = "idle"]
  /\ work' = [work EXCEPT ![s] = None]

\* Steps 1 to 3 of handle: the first check that fails.
Verdict(b) ==
  CASE b.form = "badCount"                          -> "InvalidRetryMetadata"
    [] b.form = "badSchema"                         -> "InvalidJobSchema"
    [] b.form = "valid" /\ b.retry > MaxRetries     -> "RetryLimitExceeded"
    [] b.form = "valid" /\ ~ (b.retry > MaxRetries) -> "none"

\* on_message up to its first await: a read of MongoDB or a publication.
Deliver(s, m) ==
  /\ pc[s] = "idle"
  /\ broker[m].queue = "main"
  /\ owner[m] = None
  /\ Cardinality(Unacked(WorkerOf[s])) < Prefetch
  /\ owner' = [owner EXCEPT ![m] = s]
  /\ LET v == Verdict(broker[m].body) IN
     /\ pc' = [pc EXCEPT ![s] = IF v = "none" THEN "read" ELSE "move"]
     /\ work' = [work EXCEPT ![s] =
          [id |-> m, body |-> broker[m].body,
           to |-> IF v = "none" THEN "undecided" ELSE "dlq", reason |-> v]]
  /\ UNCHANGED <<broker, stopping, missing, copies, indexed, failed, faults>>

Job(s) == work[s].body.article

Decide(s, q, why) ==
  /\ pc' = [pc EXCEPT ![s] = "move"]
  /\ work' = [work EXCEPT ![s].to = q, ![s].reason = why]

\* process: get_by_id.
ReadArticle(s) ==
  /\ pc[s] = "read"
  /\ IF Job(s) \in missing
     THEN Decide(s, "dlq", "ArticleMissing")
     ELSE pc' = [pc EXCEPT ![s] = "index"] /\ UNCHANGED work
  /\ UNCHANGED <<brokerVars, stopping, missing, copies, indexed, failed, faults>>

\* process: index_article (and clear_all, which never raises).
IndexArticle(s) ==
  /\ pc[s] = "index"
  /\ indexed' = indexed \cup {Job(s)}
  /\ pc' = [pc EXCEPT ![s] = "ack"]
  /\ UNCHANGED <<brokerVars, work, stopping, missing, copies, failed, faults>>

\* Mutation: off by one, the last retry is not used.
ProcessingFails_Early(s) ==
  /\ pc[s] \in {"read", "index"}
  /\ failed' = [failed EXCEPT ![Job(s)] = IF @ > MaxRetries THEN @ ELSE @ + 1]
  /\ IF work[s].body.retry + 1 < MaxRetries
     THEN Decide(s, "retry", "ProcessingError")
     ELSE Decide(s, "dlq", "RetriesExhausted")
  /\ UNCHANGED <<brokerVars, stopping, missing, copies, indexed, faults>>

\* MongoDB or Elasticsearch raises; the latter may have stored the article.
ProcessingFails(s) ==
  /\ pc[s] \in {"read", "index"}
  /\ \/ UNCHANGED indexed
     \/ pc[s] = "index" /\ indexed' = indexed \cup {Job(s)}
  /\ failed' = [failed EXCEPT ![Job(s)] = IF @ > MaxRetries THEN @ ELSE @ + 1]
  /\ IF work[s].body.retry < MaxRetries
     THEN Decide(s, "retry", "ProcessingError")
     ELSE Decide(s, "dlq", "RetriesExhausted")
  /\ UNCHANGED <<brokerVars, stopping, missing, copies, faults>>

\* Mutation: the retry header counts every move.
Successor_CountsMoves(s) ==
  [work[s].body EXCEPT !.reason = work[s].reason, !.retry = @ + 1]

\* Mutation: the header of the first error is kept.
Successor_KeepsReason(s) ==
  [work[s].body EXCEPT !.reason = IF @ = "none" THEN work[s].reason ELSE @,
                       !.retry = IF work[s].to = "retry" THEN @ + 1 ELSE @]

\* The message that move_message publishes.
Successor(s) ==
  LET d == work[s] IN
  [d.body EXCEPT !.reason = d.reason,
                 !.retry = IF d.to = "retry" THEN @ + 1
                           ELSE IF d.reason = "InvalidRetryMetadata" THEN 0 ELSE @]

\* move_message publishes and awaits the confirmation ...
Move(s) ==
  /\ pc[s] = "move"
  /\ Publish(work[s].to, Successor(s))
  /\ pc' = [pc EXCEPT ![s] = "ack"]
  /\ UNCHANGED <<owner, work, stopping, missing, copies, indexed, failed, faults>>

\* Mutations of on_message: the error is swallowed, or the delivery acknowledged.
MoveFails_Swallowed(s) ==
  /\ pc[s] = "move"
  /\ Fault
  /\ Idle(s)
  /\ UNCHANGED <<brokerVars, stopping, missing, copies, indexed, failed>>
MoveFails_Acknowledged(s) ==
  /\ pc[s] = "move"
  /\ Fault
  /\ broker' = [broker EXCEPT ![work[s].id] = NoMessage]
  /\ Idle(s)
  /\ UNCHANGED <<owner, stopping, missing, copies, indexed, failed>>

\* ... or raises, with the message stored or not: on_message stops the worker.
MoveFails(s) ==
  /\ pc[s] = "move"
  /\ Fault
  /\ UNCHANGED broker \/ Publish(work[s].to, Successor(s))
  /\ Idle(s)
  /\ stopping' = stopping \cup {WorkerOf[s]}
  /\ UNCHANGED <<owner, missing, copies, indexed, failed>>

\* Mutation: a path of handle returns without acknowledging.
Ack_Forgotten(s) ==
  /\ pc[s] = "ack"
  /\ Idle(s)
  /\ UNCHANGED <<brokerVars, stopping, missing, copies, indexed, failed, faults>>

Ack(s) ==
  /\ pc[s] = "ack"
  /\ owner[work[s].id] = s
  /\ broker' = [broker EXCEPT ![work[s].id] = NoMessage]
  /\ owner' = [owner EXCEPT ![work[s].id] = None]
  /\ Idle(s)
  /\ UNCHANGED <<stopping, missing, copies, indexed, failed, faults>>

\* The channel of the delivery is gone: ack raises and stops the worker.
StaleAck(s) ==
  /\ pc[s] = "ack"
  /\ owner[work[s].id] # s
  /\ Idle(s)
  /\ stopping' = stopping \cup {WorkerOf[s]}
  /\ UNCHANGED <<brokerVars, missing, copies, indexed, failed, faults>>

-----------------------------------------------------------------------------
(* The worker and its connection                                           *)

\* The broker takes every unacknowledged delivery back; the tasks go on.  An
\* acknowledgement on its way is lost too: its task has ended already.
ConnectionLost(w) ==
  /\ Unacked(w) # {}
  /\ Fault
  /\ Requeue(w)
  /\ \/ UNCHANGED slotVars
     \/ \E s \in Slots : pc[s] = "ack" /\ owner[work[s].id] = s /\ WorkerOf[s] = w /\ Idle(s)
  /\ UNCHANGED <<broker, stopping, missing, copies, indexed, failed>>

\* main closes the connection, after stop_event or because the process dies;
\* its tasks are cancelled and the supervisor starts it again.
Restart(w) ==
  /\ IF w \in stopping THEN UNCHANGED faults ELSE Fault
  /\ Requeue(w)
  /\ pc' = [s \in Slots |-> IF WorkerOf[s] = w THEN "idle" ELSE pc[s]]
  /\ work' = [s \in Slots |-> IF WorkerOf[s] = w THEN None ELSE work[s]]
  /\ stopping' = stopping \ {w}
  /\ UNCHANGED <<broker, missing, copies, indexed, failed>>

-----------------------------------------------------------------------------
Handle(s) ==
  \/ ReadArticle(s) \/ IndexArticle(s) \/ ProcessingFails(s)
  \/ Move(s) \/ MoveFails(s) \/ Ack(s) \/ StaleAck(s)

Next ==
  \/ \E a \in Articles : Store(a) \/ \E b \in Arrivals(a) : Submit(a, b)
  \/ \E m \in Ids : Expire(m)
  \/ \E s \in Slots : Handle(s) \/ \E m \in Ids : Deliver(s, m)
  \/ \E w \in Workers : ConnectionLost(w) \/ Restart(w)

Spec == Init /\ [][Next]_vars

(***************************************************************************)
(* Tasks run on, the TTL expires, a stopping worker ends and is started    *)
(* again, and the broker delivers what it has.  Whether processing         *)
(* succeeds is left open: nothing is assumed of MongoDB or Elasticsearch   *)
(* but that they answer, or fail, in the end.                              *)
(***************************************************************************)
Fairness ==
  /\ \A m \in Ids : WF_vars(Expire(m))
  /\ \A s \in Slots : WF_vars(Handle(s)) /\ WF_vars(\E m \in Ids : Deliver(s, m))
  /\ \A w \in Workers : WF_vars(w \in stopping /\ Restart(w))

FairSpec == Spec /\ Fairness

-----------------------------------------------------------------------------
(* Properties                                                              *)

TypeOK ==
  /\ broker \in [Ids -> Stored \cup {NoMessage}]
  /\ owner \in [Ids -> Slots \cup {None}]
  /\ pc \in [Slots -> {"idle", "read", "index", "move", "ack"}]
  /\ work \in [Slots -> Deliveries \cup {None}]
  /\ stopping \in SUBSET Workers
  /\ missing \in SUBSET Articles
  /\ copies \in [Articles -> 0..MaxCopies]
  /\ indexed \in SUBSET Articles
  /\ failed \in [Articles -> 0..(MaxRetries + 1)]
  /\ faults \in 0..MaxFaults

About(a) == {m \in Live : broker[m].body.article = a}
DeadLetters(a) == {m \in About(a) : broker[m].queue = "dlq"}
\* Deliveries that await their acknowledgement only.
Superseded == {m \in Live : owner[m] # None /\ pc[owner[m]] = "ack"}
Waiting(a) == About(a) \ Superseded

\* A job the broker has accepted ends in the index or in the dead-letter
\* queue, or is still in a queue: no crash, lost connection, failed or
\* undecided publication, and no stale acknowledgement makes it vanish
\* (move_message publishes before it acknowledges; on_message does not
\* acknowledge after an error).
NoJobLost == \A a \in Accepted : a \in indexed \/ About(a) # {}

\* A job is given up as "RetriesExhausted" only after MAX_RETRIES + 1
\* processings of it have failed: redeliveries, duplicates and worker
\* restarts consume no retries.
RetriesEarned ==
  \A a \in Articles : \A m \in DeadLetters(a) :
    broker[m].body.reason = "RetriesExhausted" => failed[a] = MaxRetries + 1

\* The reason of a dead letter holds true, now and not only when it was given:
\* form and header of the job are as it says, the article is still not in
\* MongoDB, or the processings have failed MAX_RETRIES + 1 times.
Explained(b) ==
  \/ b.reason = "InvalidRetryMetadata" /\ b.form = "badCount"
  \/ b.reason = "InvalidJobSchema" /\ b.form = "badSchema"
  \/ /\ b.form = "valid"
     /\ \/ b.reason = "RetryLimitExceeded" /\ b.retry > MaxRetries
        \/ b.reason = "ArticleMissing" /\ b.article \in missing
        \/ /\ b.reason = "RetriesExhausted"
           /\ b.retry = MaxRetries /\ failed[b.article] = MaxRetries + 1

\* An operator may rely on x-last-error: every dead letter carries one of the
\* five reasons of handle, and the one that is true of it, although its job
\* was redelivered, republished by tasks that had lost their delivery, or
\* checked and processed by several tasks at once.
DeadLettersExplained ==
  \A m \in Live : broker[m].queue = "dlq" => Explained(broker[m].body)

GivenUp == {a \in Articles : DeadLetters(a) # {}}

Promise == INSTANCE IndexingPromise WITH
  stored <- Accepted, searchable <- indexed, givenUp <- GivenUp

\* What IndexingPromise says of stored articles holds of accepted jobs,
\* malformed ones included: only what was accepted is indexed or given up, and
\* neither outcome is ever taken back.  No queue policy, republication or
\* acknowledgement touches a dead letter.
KeepsPromise == Promise!Spec

\* Without faults jobs do not multiply: of their messages in all three queues
\* no more await their processing than the dispatcher has published, and so a
\* job is dead-lettered at most once for each publication (prefetching,
\* retries and several workers make no copies by themselves).
NoNewCopies ==
  faults = 0 => \A a \in Articles : Cardinality(Waiting(a)) <= copies[a]

\* Every job is settled in the end, in the index or in the dead-letter queue,
\* and nothing of it stays behind in the main queue or the retry queue.
EventuallySettled ==
  \A a \in Articles :
    a \in Accepted ~> /\ a \in indexed \/ DeadLetters(a) # {}
                      /\ About(a) = DeadLetters(a)

-----------------------------------------------------------------------------
(* The invariant that module IndexJobsProofs proves inductive              *)

\* What a task may be doing, given what it was delivered and has decided.
TasksOK ==
  \A s \in Slots :
    /\ pc[s] = "idle" <=> work[s] = None
    /\ pc[s] # "idle" => Job(s) \in Accepted
    /\ pc[s] \in {"read", "index"} => work[s].body.retry <= MaxRetries
    /\ pc[s] = "move" => work[s].to # "undecided"
    /\ pc[s] # "idle" /\ work[s].to = "retry" => work[s].body.retry < MaxRetries

\* A delivery that is not acknowledged is in the main queue, unchanged.
DeliveriesOK ==
  /\ \A m \in Live : broker[m].body.article \in Accepted
  /\ \A m \in Ids : owner[m] # None => broker[m].queue = "main"
  /\ \A m \in Ids, s \in Slots :
       owner[m] = s /\ pc[s] # "idle" /\ work[s].id = m => work[s].body = broker[m].body

\* m stands for all deliveries of a with at most r retries.
Supersedes(m, a, r) ==
  /\ m \in About(a)
  /\ broker[m].queue = "dlq" \/ broker[m].body.retry > r

\* Whoever is about to acknowledge has left the job in safe hands.  A
\* successor has more retries than its origin, so that it cannot be the
\* delivery another task is about to acknowledge on the strength of this one.
SettledOK ==
  \A s \in Slots :
    pc[s] = "ack" =>
      \/ Job(s) \in indexed
      \/ \E m \in Ids : Supersedes(m, Job(s), work[s].body.retry)

\* The retry header never runs ahead of the failures.
HeaderOK(b) ==
  /\ b.retry <= MaxRetries => failed[b.article] >= b.retry
  /\ b.reason = "RetriesExhausted" => failed[b.article] = MaxRetries + 1
FailuresOK ==
  /\ \A m \in Live : HeaderOK(broker[m].body)
  /\ \A s \in Slots : pc[s] # "idle" =>
       /\ HeaderOK(work[s].body)
       /\ work[s].to = "retry" => failed[Job(s)] > work[s].body.retry
       /\ work[s].reason = "RetriesExhausted" => failed[Job(s)] = MaxRetries + 1

Inv == TypeOK /\ TasksOK /\ DeliveriesOK /\ SettledOK /\ FailuresOK /\ NoJobLost

\* Every dead letter is explained, and every one that a task may yet publish.
CauseOK(s) ==
  /\ pc[s] \in {"read", "index"} => work[s].body.form = "valid"
  /\ work[s].to = "dlq" => Explained([work[s].body EXCEPT !.reason = work[s].reason])
ExplainedOK ==
  /\ DeadLettersExplained
  /\ \A s \in Slots : pc[s] # "idle" => CauseOK(s)

\* Deliveries that are not acknowledged and tasks that are not idle correspond.
Undisturbed ==
  /\ stopping = {}
  /\ \A m \in Ids : owner[m] # None => pc[owner[m]] # "idle" /\ work[owner[m]].id = m
  /\ \A s \in Slots : pc[s] # "idle" => owner[work[s].id] = s
Counted ==
  \A a \in Articles : IsFiniteSet(Waiting(a)) /\ Cardinality(Waiting(a)) <= copies[a]
CopiesOK == faults = 0 => Undisturbed /\ Counted
=============================================================================
