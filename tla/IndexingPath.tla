---------------------------- MODULE IndexingPath ----------------------------
(***************************************************************************)
(* The path of an article from the API to the search index: the outbox and *)
(* its dispatchers (module Outbox) and the jobs and their workers (module  *)
(* IndexJobs), composed.  They meet in two places.  RabbitMQ accepts in    *)
(* one step what a dispatcher publishes (ArticleIndexJobPublisher) and     *)
(* what a worker will be delivered; and the articles a worker can read in  *)
(* MongoDB are those the API has stored with their outbox.                 *)
(*                                                                         *)
(* Both modules are instantiated with their proofs, so that their theorems *)
(* hold of the parts of the composition.                                   *)
(***************************************************************************)
EXTENDS Naturals

CONSTANTS
  Articles,
  Dispatchers, Tokens, Stamps, LeaseSeconds, DelayCap, ExponentCap,  \* of the outbox
  Ids, Workers, Slots, WorkerOf, Prefetch, MaxRetries,               \* of the jobs
  MaxOutboxFaults,   \* bound: faults of the environment of the outbox
  MaxJobFaults,      \* bound: faults of the environment of the jobs
  None

VARIABLES
  outbox, createdAt, copies, dispatcher, chan, conn, job, outboxFaults,
  broker, owner, task, work, stopping, indexed, failed, jobFaults

\* The articles that are not in MongoDB, and the jobs RabbitMQ has accepted.
missing == {a \in Articles : outbox[a]["rabbitmq"].status = "absent"}
jobs == [a \in Articles |-> copies[a]["rabbitmq"]]

Outbox == INSTANCE OutboxProofs WITH
  pc <- dispatcher, faults <- outboxFaults, MaxFaults <- MaxOutboxFaults

\* A dispatcher repeats a publication at most once for each of its faults.
Indexing == INSTANCE IndexJobsProofs WITH
  pc <- task, faults <- jobFaults, MaxFaults <- MaxJobFaults,
  copies <- jobs, MaxCopies <- 1 + MaxOutboxFaults

\* What each part assumes of its constants.
ASSUME PartsAssumption ==
  /\ Outbox!TimeAssumption /\ Outbox!ValueAssumption /\ Outbox!TokensSuffice
  /\ Indexing!NumberAssumption /\ Indexing!SlotAssumption /\ Indexing!NoneAssumption

outboxVars == <<outbox, createdAt, copies, dispatcher, chan, conn, job, outboxFaults>>
indexingVars == <<broker, owner, task, work, stopping, indexed, failed, jobFaults>>
vars == <<outboxVars, indexingVars>>

Init == Outbox!Init /\ Indexing!Init

\* The job that ArticleIndexJobPublisher.publish builds from the outbox.
Job(a) == [article |-> a, form |-> "valid", retry |-> 0, reason |-> "none"]

\* What a step of the outbox is for the jobs: a new article, a new message, or
\* nothing.
Seen ==
  \/ \E a \in Articles : Indexing!Store(a) \/ Indexing!Submit(a, Job(a))
  \/ missing' = missing /\ jobs' = jobs /\ UNCHANGED indexingVars

\* A step of the jobs alone.
Jobwise(A) == UNCHANGED outboxVars /\ A

Next ==
  \/ Outbox!Next /\ Seen
  \/ Jobwise(Indexing!Next)

Spec == Init /\ [][Next]_vars

(***************************************************************************)
(* Each part is fair in its own way (Outbox!ServedBy, Indexing!Fairness).  *)
(* Neither one blocks the other: a broker has an identity for every        *)
(* message (Ids).                                                          *)
(***************************************************************************)
FairSpec ==
  /\ Spec
  /\ Outbox!ServedBy("rabbitmq")
  /\ \A m \in Ids : WF_vars(Jobwise(Indexing!Expire(m)))
  /\ \A s \in Slots :
       /\ WF_vars(Jobwise(Indexing!Handle(s)))
       /\ WF_vars(Jobwise(\E m \in Ids : Indexing!Deliver(s, m)))
  /\ \A w \in Workers : WF_vars(Jobwise(w \in stopping /\ Indexing!Restart(w)))

-----------------------------------------------------------------------------
(* Properties                                                              *)

\* Where an article is while it has no outcome: its intention is still in the
\* outbox, or its job in one of the queues.  At no moment, between whatever
\* steps of dispatchers, broker and workers, is it nowhere.
NeverNowhere ==
  \A a \in Articles \ missing :
    \/ outbox[a]["rabbitmq"].status \in {"pending", "leased"}
    \/ a \in indexed
    \/ Indexing!About(a) # {}

\* The dispatcher's jobs are given up for one reason only, after
\* MAX_RETRIES + 1 failed attempts: none is rejected for its form, and none is
\* about an article the worker cannot find, since the article is stored before
\* its message exists (Readme.md: "The API writes article data and publication
\* intent atomically in MongoDB").
OnlyRetriesExhausted ==
  \A a \in Articles : \A m \in Indexing!DeadLetters(a) :
    /\ broker[m].body.reason = "RetriesExhausted"
    /\ failed[a] = MaxRetries + 1

GivenUp == {a \in Articles : Indexing!DeadLetters(a) # {}}

Promise == INSTANCE IndexingPromise WITH
  stored <- Articles \ missing, searchable <- indexed, givenUp <- GivenUp

\* The path as a whole keeps the promise of IndexingPromise: an article is
\* stored before anything becomes of it, and no outcome is ever taken back.
KeepsPromise == Promise!Spec

\* Every article that is stored becomes searchable or is dead-lettered in the
\* end, although processes die, answers are lost and publications are repeated
\* on the way.
KeepsPromiseFairly == Promise!FairSpec

-----------------------------------------------------------------------------
(* The invariant that module IndexingPathProofs proves inductive           *)

\* A job as the dispatcher publishes it, which no check of handle refuses.
Welcome(b) ==
  b.form = "valid" /\ b.retry <= MaxRetries /\ b.article \notin missing

\* Whatever the dispatcher has published stays so, through all its retries.
MessageOK(m) ==
  /\ Welcome(broker[m].body)
  /\ broker[m].queue = "dlq" => broker[m].body.reason = "RetriesExhausted"
TaskOK(s) ==
  /\ Welcome(work[s].body)
  /\ work[s].to = "dlq" => work[s].reason = "RetriesExhausted"
JobsOK ==
  /\ \A m \in Indexing!Live : MessageOK(m)
  /\ \A s \in Slots : task[s] # "idle" => TaskOK(s)
=============================================================================
