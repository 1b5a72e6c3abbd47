# Verification of the knowledge search service

TLA+ specifications of the service in `src/`, TLC runs on small instances, and
TLAPS proofs for every instance. Source lines are those of the repository;
`PROJECT.json` maps each definition to the lines it stands for.

## 1. The system

Articles are created through the API and stored in MongoDB. From there they
reach Elasticsearch through RabbitMQ, and two MongoDB collections through
Kafka; searches go through a Redis cache. MongoDB is the source of truth,
everything else is derived.

| Component | State | Operations | Talks to |
|---|---|---|---|
| **Outbox and dispatcher** (`article_repository.py`, `article_outbox_repository.py`, `outbox_dispatcher.py`) | `outbox.<channel>` of each article: status, token, attempts, next_attempt_at or lease_until; the dispatcher's connections and the document in its hand | `create`; `claim`, `mark_published`, `mark_failed`; `dispatch_one`, the loop of `main` | MongoDB, and both brokers through `ReliableQueuePublisher` and `ArticleEventPublisher` |
| **Indexing pipeline** (`article_job_handler.py`, `article_index_worker.py`, `article_index_processor.py`, `rabbitmq.py`) | main, retry and dead-letter queue; unacknowledged deliveries; up to five concurrent tasks in a worker; `stop_event` | `on_message`, `handle`, `move_message`, `process`, shutdown | RabbitMQ, MongoDB, Elasticsearch, the search cache |
| **Event consumers** (`article_event_consumer.py`) | committed offsets, assignments and positions; the two collections; `kafka_poison_events` | `run`, `process_record` | Kafka, MongoDB |
| **Search and cache** (`search_service.py`, `search_cache_repository.py`, `article_search_repository.py`) | cache entries with a TTL; searches in progress with their timeouts; SCANs in progress | `search_articles`, `get`, `set`, `clear_all` | Redis, Elasticsearch; index workers invalidate |
| **Rebuild** (`scripts/rebuild_search_index.py`) | the index itself, a cursor, a batch, a semaphore | delete, create, refill, refresh | MongoDB, Elasticsearch, concurrently with index workers |
| **Wiring** (`main.py`, `dependencies.py`) | which optional clients a process has | start-up | Redis, Elasticsearch |
| API, configuration, operator scripts, deployment | none beyond handles | start-up, shut-down, validation, diagnostics | everything |

What makes it hard:

- **Outbox.** Several dispatchers may run; a lease can run out while its holder
  is stalled; a confirmation or the answer of MongoDB can be lost after the
  effect; the process can die at any await; one broker may be down for good.
- **Indexing.** The successor of a message is published *before* the delivery is
  acknowledged, so a crash in between leaves two; a task can outlive its
  delivery; a fatal error in one task stops the worker and returns the
  deliveries of the others; jobs circulate through a TTL queue.
- **Events.** Rebalances happen in the background while a record is being
  written, so a commit may be made under a newer assignment or be refused;
  retention deletes records nobody has read; poison must not block a partition;
  groups may share a collection. Documents are keyed by the `event_id` of a
  message, which nothing compares with its article.
- **Search.** Reading the cache, querying and writing the cache are separate
  steps under separate timeouts, invalidation is a SCAN in batches, and
  Elasticsearch shows an article only after a refresh: stale results can be
  written back after the invalidation. A process that could not reach Redis or
  Elasticsearch when it started does without it.
- **Rebuild.** Elasticsearch creates a missing index when a document arrives, so
  a worker, or a request of an aborted rebuild that is executed late, can get
  between the deletion and the creation; one failing document cancels a whole
  batch; articles are created and indexed all the while.
- **Hand-over.** Outbox and queues are two halves with their own faults. What
  one repeats the other handles twice, and an article must never be in neither.

`PROJECT.json` lists each hazard at its line, with the properties that cover it.

What correctness means here:

- *Outbox*: both intents exist as soon as the article does; "published" means
  the broker has the message; nothing is dropped; stale holders are harmless;
  duplicates come from faults only; every intent is discharged in the end.
- *Indexing*: an accepted job is indexed or in a queue; it is given up only
  after the full number of failed processings; the reason a dead letter gives
  is true of it; no outcome is taken back; it is settled in the end.
- *Events*: a committed offset leaves nothing undone behind it; documents tell
  of the first record of their event_id and are never rewritten; each record is handled unless it
  expires first.
- *Search*: staleness is bounded whatever becomes of invalidations; a completed
  invalidation leaves no old gaps; every search ends.
- *Rebuild*: success means an index with our mappings and every article of the
  cursor in it; nothing indexed before is forgotten; repeated, it succeeds.
- *The whole path*: a stored article becomes searchable or is dead-lettered, the
  latter only after the full number of failures, and is never nowhere.

## 2. Modules

| Module | What it is |
|---|---|
| `PublicationIntent` | what the outbox promises: no dispatchers, tokens or clocks |
| `Outbox` | articles, delivery records, dispatchers, leases, time; implements `PublicationIntent` |
| `OutboxProofs` | proofs about `Outbox` |
| `IndexingPromise` | what the path from the API to the index promises: what is stored, searchable, given up |
| `IndexJobs` | RabbitMQ's queues and the index workers; implements `IndexingPromise` of the jobs accepted |
| `IndexJobsProofs` | proofs about `IndexJobs`: nothing is lost, retries, copies |
| `DeadLetterProofs` | proofs about the outcomes of jobs: why dead letters exist, and that outcomes are final |
| `EventPromise` | what the consumers promise: no members, assignments, positions or crashes |
| `EventConsumer` | the Kafka topic, groups, consumers and their collections; implements `EventPromise` |
| `EventConsumerProofs` | proofs about `EventConsumer` |
| `CachePromise` | what the cache promises: no searches, clients, timeouts or scans |
| `SearchCache` | searches, cache entries, invalidations, refresh and time; implements `CachePromise` |
| `SearchCacheProofs` | proofs about `SearchCache` |
| `RebuildPromise` | what a rebuild promises: no cursor, batches, tasks or requests |
| `RebuildIndex` | the rebuild script, clients, index workers and Elasticsearch; implements `RebuildPromise` |
| `RebuildIndexProofs` | proofs about `RebuildIndex` |
| `IndexingPath` | `Outbox` and `IndexJobs` composed; implements `IndexingPromise` of the articles stored |
| `IndexingPathProofs` | proofs about the composition, from those of its parts |
| `MCOutbox`, `MCIndexJobs`, `MCEventConsumer`, `MCSearchCache`, `MCRebuildIndex`, `MCIndexingPath` | values of the constants for TLC |

Each module keeps its recursion-free operators, its assumptions about constants
(named, as weak as the proofs allow), one action per step of the code, its
properties, and, where it is proved about, the conjuncts of its inductive
invariant. Definitions whose comment begins with "Mutation" are bugs one could
write in the code; no specification uses them. They are there to show that each
property can fail (section 5).

**Steps.** All processes are asyncio programs, so an action is the code between
two awaits together with the database or broker call of the await. A call whose
answer is lost is applied or not; if it is applied, this happens before the
caller sees the exception (cache writes are the exception, see `SearchCache`).

### Outbox

`outbox[a][c]` is the sub-document of channel `c`. `due` is the number of
seconds until `next_attempt_at` of a pending or `lease_until` of a leased
record; `due = 0` is the query's `$lte: now`. `pc`, `chan`, `conn` and `job` are
a dispatcher's place in its loop, the channel of its `dispatch_one`, the brokers
it is connected to, and the document its claim has returned.

| Code | Action |
|---|---|
| `ArticleRepository.create` | `Create` |
| top of the loop of `main`: `initialize_rabbitmq`, `initialize_kafka` | `Connect` |
| `dispatch_one` with `publisher is None` | `SkipChannel` |
| `claim`: finds one / finds none / raises | `Claim` / `ClaimNothing` / `ClaimError` |
| `publish`: confirmed / fails / fails though stored | `PublishConfirmed` / `PublishRefused` / `PublishUndecided` |
| `mark_published`, `mark_failed` | `RecordOutcome`, of `MarkPublished` or `MarkFailed` |
| `matched_count != 1` | `LeaseLost` |
| the update raises | `OutcomeError` |
| process death and restart | `Die` |
| the clock | `Tick` |

An exception out of `dispatch_one` abandons the round (`AbandonRound`), as the
`try` around the loop over the channels does. Tokens are `uuid4`: values nobody
uses. A value no record and no dispatcher holds is as good as a new one, so that
a finite set suffices (`TokensSuffice`). `attempts` counts up to `ExponentCap`
only, since the delay is `min(60, 2 ** min(attempts, 6))`. `createdAt` is drawn
in `Init`: it is taken before the insert by one of several API processes and
need not follow the order of the inserts. A publication that the client library
completes after its timeout counts at the timeout.

### IndexJobs

`broker[m]` is the queue and the content of a message, `owner[m]` the task that
has it delivered and unacknowledged. A "slot" is a task of a worker: it runs
`handle`, and may outlive its delivery (`owner` no longer points to it). The
body carries the article, the retry header and the last error; `badCount` and
`badSchema` stand for all headers and bodies that fail validation.

| Code | Action |
|---|---|
| `ArticleRepository.create`, as readers of MongoDB see it | `Store` |
| `ArticleIndexJobPublisher.publish`, and foreign publishers | `Submit` |
| `queue.consume` and steps 1 to 3 of `handle` | `Deliver`, with `Verdict` |
| `get_by_id` in `process` | `ReadArticle` |
| `index_article` and `clear_all` | `IndexArticle` |
| either of them raises; the `except` branches of `handle` | `ProcessingFails` |
| `publisher.publish` in `move_message`: confirmed / raises | `Move` / `MoveFails` |
| `message.ack` / on a channel that is gone | `Ack` / `StaleAck` |
| `x-message-ttl` of the retry queue | `Expire` |
| lost connection; end of `main` and restart | `ConnectionLost`; `Restart` |

`copies[a]` counts the jobs that were submitted for `a`, up to `MaxCopies`. The
runs of `IndexJobs` alone submit one; those of a dispatcher that repeats itself
come in `IndexingPath`. `missing` is drawn in `Init`, since foreign jobs may name
articles that do not exist. What `Submit` takes from foreign publishers
(`Arrivals`) are jobs with a malformed body, a malformed `x-retry-count` or one
above the limit, but none with a well-formed count of 1 to `MaxRetries`: `handle`
trusts such a header (`get_retry_count`, and the comparison with `max_retries`) to
stand for that many failed processings.

`Explained` says what each reason of a dead letter claims: a malformed header or
body is malformed, a retry count is above `MaxRetries`, an article that was not
found is not stored, exhausted retries are as many failures and one more.
Under `Promise` a job counts as stored when it has been accepted, and as given up when it has a dead letter.

### EventConsumer

`log[p]` is a partition, `base[p]` what retention has left of it, `committed`
the offsets of the groups. `owner` and `member` are the coordinator's view,
`position` the consumer's. A record has a key, and the article_id and the
event_id of its message, or neither if it does not parse (`Records`).
`stored[k][e]` is the place (partition and offset) recorded in the document with
the `_id` `e`, `poison` is `kafka_poison_events`. `unread` is history: what
expired before a group had handled it.

| Code | Action |
|---|---|
| `publish_article_created`, and foreign producers | `Produce` |
| `consumer.start` | `Start` |
| `async for message in consumer` | `Poll`, skipping what has expired ("earliest") |
| validation and the upsert, of the event or of the poison | `Store`, with `Upsert` |
| the upsert raises | `StoreFails` |
| `consumer.commit`: done / refused / fails | `Commit` / `CommitRefused` / `CommitFails` |
| process death | `Crash` |
| the coordinator and aiokafka's background task | `Rebalance`, `Sync` |
| retention | `Expire` |

The coordinator may start a generation at any time with any subset of the
running consumers (a missed heartbeat, counted as a fault) and must when the
membership is out of date. `--group` gives a role a group of its own, so two
groups may map to one collection (`CollectionOf`).

`from_article` gives each article an event_id of its own, but `process_record`
takes the event_id as it comes: it compares the key with the article_id and
nothing with the event_id. `Produce` therefore publishes any record, a valid one
under the event_id of another article among them. Whichever valid record of an
event_id is written first has the document; within a partition that is the
first one, which `FirstRecordKept` and `EventPromise` say of every event_id, while
between partitions the consumers decide. The other records of that event_id are
taken for duplicates, so that `Handled` means "its event_id has a document" and
an article whose event_id was taken has no document of its own. The dispatcher
causes none of this: for its records "first of the event_id" is "first of the
article's event".

`EventPromise` keeps the log, the documents, the poison, the committed offsets and
what was lost to retention. It lets a group's offset go back (a late commit under
an older assignment does that) but never past a record that is not settled.

### SearchCache

`age[a]` is the time since Elasticsearch shows `a` to searches, `cache[k]` an
entry with the ticks it has left, `left[s]` the ticks left of the timeout a
search is in, `scan[w]` the keys that the SCAN of a worker has not come to.
`late` holds the SETs of searches that have given up: cancelling a command
closes its connection and does not take the command back, so Redis may execute
it up to `Linger` ticks later.

| Code | Action |
|---|---|
| `get_optional_search_repository`, `get_optional_cache_repository` | the clients `C` of `Begin` |
| request and `_get_cached_results` | `Begin`, then `Hit`, `Miss` or `GetFails` |
| `search_repository is None` | `GoOn` |
| `search_repository.search` | `Query` (Elasticsearch reads), `Reply`, `QueryFails` |
| `_cache_results` | `Set`, `SetFails`, `LateWrite` |
| `process` from `index_article` on | `Index` |
| `clear_all` | `Scan`, `Delete`, `ClearFails` |
| `process` in a worker without Redis, `index_document` of a rebuild | `IndexOnly` |
| the rebuild's deletion and creation of the index | `DropIndex` |
| refresh; the clock | `Refresh`, `Tick` |

`clients[s]` is what the process of a request could initialize when it started
(`lifespan`); requests reach several processes, so each request draws its own.
Every query asks for all active articles; ranking and limits are left out, since
they decide which articles are in a result and not how old it is. Articles are
only ever created, so an entry is stale when an article is missing from it.

Of a worker `CachePromise` sees whether its last invalidation has begun or is done
(`clearing`). The searches are gone altogether: what is left of them is that an
entry lags by at most `Window` when it is stored.

### RebuildIndex

`index` is absent, created by the script with `ARTICLE_INDEX_MAPPINGS`
("mapped"), or created by Elasticsearch when a document arrived ("dynamic").
`snapshot` is what MongoDB held when the cursor was opened, `read` what it has
returned; `batch` are the documents whose tasks wait for the semaphore, `sent`
those whose request is under way. `late[a]` counts requests whose caller gave
up, or was cancelled, and which Elasticsearch may still execute. `job[a]` sums up
outbox and queue: queued, indexed but not acknowledged, done, dead-lettered.

| Code | Action |
|---|---|
| start of the script, again after a failure | `Start` |
| `indices.exists`, `delete`, `create` | `CheckExists`, `DeleteIndex`, `CreateIndex` |
| first and further steps of the cursor; its end | `OpenCursor`, `ReadDocument`, `EndOfCursor` |
| `index_document`: semaphore, request, answer | `Send`, `DocumentIndexed` |
| one task raises; the `TaskGroup` cancels the others | `DocumentFails` |
| `index_batch` returns | `BatchIndexed` |
| `indices.refresh` | `RefreshIndex` |
| any other call raises, or the process dies | `Aborts` |
| a request without a caller is executed | `LateRequest` |
| `create`; `index_article`, `ack`, the failures of a worker | `Create`; `WorkerIndexes`, `WorkerAcks`, `WorkerFails` |

An abort leaves `failed`, whatever the state of the index; `SuccessIsComplete`
and `NothingForgotten` speak of rebuilds that ended. One rebuild runs at a time.

Under `Promise` a rebuild is clearing, created, filling, done or failed, what is
due is `snapshot`, and an article is owed while its job is queued or dead-lettered.

### IndexingPath

Instances of `Outbox` and `IndexJobs` share two things, which are operators and
no variables: `jobs`, the copies RabbitMQ has accepted, and `missing`, the
articles whose outbox is absent. A step of the outbox that publishes is at the
same time `Submit` of the jobs, one that creates an article is `Store`, and any
other leaves the jobs alone (`Seen`); all other steps are the jobs' own
(`Jobwise`). Only jobs as the dispatcher builds them are submitted. The parts are
instantiated through their proof modules, whose theorems then hold of them.

## 3. Properties and runs

All bounds are constants of the `.cfg` files. Deadlock is checked in `Outbox`,
`SearchCache`, `RebuildIndex` and `IndexingPath`, whose processes never stop; the
other systems really come to rest when everything is settled.

| Run | Instance | Properties | Distinct states |
|---|---|---|---|
| `outbox_contention` | 1 article, 2 dispatchers, lease 2 s, delay cap 3, 2 faults | `TypeOK`, `WorkIsExclusive`, `DuplicatesNeedFaults`, `KeepsPromise`, `StaleHolderHarmless` | 0.5 M |
| `outbox_kafka` | 1 article, 2 dispatchers, 1 fault, RabbitMQ arbitrary | `KafkaDelivered` | 28 k |
| `outbox_rabbitmq` | 2 articles, 1 dispatcher, 1 fault, Kafka arbitrary | `RabbitMQDelivered` | 0.1 M |
| `jobs_retries` | 1 job, 1 worker with 2 tasks, 2 retries, 2 faults | `TypeOK`, `NoJobLost`, `RetriesEarned`, `NoNewCopies`, `DeadLettersExplained`, `KeepsPromise` | 1.7 M |
| `jobs_settle` | the same with 1 retry and 1 fault, fair | `EventuallySettled` | 0.2 M |
| `events_rebalance` | 1 article, 1 event_id, 1 partition of 3 records, 2 consumers in a group, 2 faults | `TypeOK`, `NothingSkipped`, `FirstRecordKept` | 2.1 M |
| `events_partitions` | 2 articles with one event_id on 2 partitions, 2 consumers in a group, 1 fault | `NothingSkipped` | 1.5 M |
| `events_replay` | 2 articles and 2 event_ids in any combination on a partition of 2 records, 2 groups on one collection, 2 faults | `NothingSkipped`, `FirstRecordKept`, `KeepsPromise` | 0.3 M (2.2 M without symmetry) |
| `events_settle` | 1 partition of 2 records, both roles with 1 consumer each, 1 fault, fair | `EventuallySettled` | 35 k |
| `search` | 2 keys, 1 client, 1 worker, TTL 2, timeouts 1, 1 fault, fair | `TypeOK`, `BoundedStaleness`, `FreshAfterClear`, `KeepsPromise`, `EventuallyAnswered` | 0.3 M |
| `rebuild` | 3 articles, batches of 2, 1 request at a time, 1 fault, fair | `TypeOK`, `SuccessIsComplete`, `NothingForgotten`, `KeepsPromise`, `RebuildSucceeds` | 0.7 M |
| `indexing_path` | 1 article, 1 dispatcher with 1 fault, 1 worker with 2 tasks and 1 retry, fair | `NeverNowhere`, `OnlyRetriesExhausted`, `KeepsPromise`, `KeepsPromiseFairly` | 0.2 M |

`KeepsPromise` of a module says that its steps are steps of its promise, or
stutters; `KeepsPromiseFairly` that the path keeps the fairness of
`IndexingPromise` too, so that every stored article has an outcome in the end.

Why these bounds:

- *Faults.* Two of them in one behaviour allow a crash during the recovery from
  another one (a lease orphaned twice, a republication undecided twice, a
  rebalance during a failed commit). Expected outcomes (a refused publication,
  a processing that raises, an expired record) are not faults and unlimited.
- *Two of each.* Exclusion, stale holders and moving partitions are about pairs.
  The theorems of section 4 hold for any number.
- *Time.* A lease of 2 and delays of 2 and 3 seconds keep lease, first and later
  delay apart and let the cap bite; TTL 2 with timeouts of 1 lets an entry be
  older than a search. `BoundedStaleness` and `FreshAfterClear` are tight: each
  fails when its bound is made one tick smaller.
- *Late writes.* `Linger` is 0 in `search`: a write that its search has given up
  is executed within the same tick, before or after an invalidation. The proofs
  cover longer ones.
- *Batches.* Three articles in batches of two are a full batch and a rest, with
  a document that waits for the semaphore.
- *Two copies.* One fault of the dispatcher makes a second job of the article,
  and two tasks handle both at once. The faults of the workers are those of the
  `jobs` runs; in the composition they are left to the proofs.
- *Logs.* Three records are the first, a duplicate or poison, and one behind it.
- *Event_ids.* Two articles and two event_ids in one partition are an article
  under its own event_id, under the other's, and under both; two articles with
  one event_id on two partitions are the collision that no order settles.
- *Symmetry.* `events_rebalance` and `events_partitions` exchange the two
  consumers, `events_replay` articles, event_ids, and the two groups together
  with their consumers. The other runs use none.

### Fairness

- `Outbox`, `ServedBy(c)`: weak fairness of `Tick` and of each dispatcher (a
  process that dies is restarted: `restart: unless-stopped`, Kubernetes
  Deployments; both publications have timeouts, while the connects have none of
  their own and are taken to return or raise), strong fairness of reaching and
  of being confirmed by broker `c` alone. Strong, since a broker that is up now
  and then and tried for ever is met in the end. Nothing is asked of the other
  broker, which is the point of `KafkaDelivered` and `RabbitMQDelivered`.
- `IndexJobs`: weak fairness of tasks, deliveries, the TTL and the restart of a
  stopping worker. The outcome of processing is left open.
- `EventConsumer`: weak fairness of consumers, and of rebalances that are due.
  Liveness is checked as deployed, with one consumer in each group (`replicas:
  1`, `Recreate`): with more of them restarts may refuse one another's commits
  for ever, since a refused commit ends the process and its restart triggers a
  rebalance. Safety is checked and proved without that restriction.
- `SearchCache`: time passes (strong fairness of `Tick`, which searches that come
  and go could otherwise hold up), and a timeout that is due is raised (weak
  fairness of the failures of a search with no time left). No answer is ever
  due: Redis and Elasticsearch may be silent for ever, so that
  `EventuallyAnswered` rests on the `asyncio.timeout` of each step, and fails
  without one.
- `RebuildIndex`: weak fairness of the script's steps (each call is answered or
  raises) and of the operator who starts it again after a failure, which is how
  the Readme uses it. Workers are not asked to do anything, nor to abstain.
- `IndexingPath`: the fairness of both parts, with RabbitMQ as the broker that
  is in order. Neither part can block the other: a broker never runs out of
  identities, and what the dispatcher publishes is bounded by its faults.

## 4. Proofs

| Theorem | States |
|---|---|
| `OutboxProofs!Invariance`, `TypeCorrect` | the invariant; types |
| `OutboxProofs!ExclusiveWork` | `Spec => []WorkIsExclusive` |
| `OutboxProofs!StaleHolderIsHarmless` | `Spec => StaleHolderHarmless` |
| `OutboxProofs!PromiseIsKept` | `Spec => KeepsPromise`, the refinement of `PublicationIntent` |
| `OutboxProofs!CopiesAreCounted` | `Spec => []DuplicatesNeedFaults` |
| `IndexJobsProofs!JobsAreNotLost`, `RetriesAreEarned`, `TypeCorrect` | `NoJobLost`, `RetriesEarned`, types |
| `IndexJobsProofs!CopiesAreCounted` | `Spec => []NoNewCopies` |
| `DeadLetterProofs!DeadLettersAreExplained` | `Spec => []DeadLettersExplained` |
| `DeadLetterProofs!PromiseIsKept` | `Spec => KeepsPromise`, the refinement of `IndexingPromise` by the jobs |
| `EventConsumerProofs!RecordsAreNotSkipped`, `FirstRecordsAreKept`, `TypeCorrect` | `NothingSkipped`, `FirstRecordKept`, types |
| `EventConsumerProofs!PromiseIsKept` | `Spec => KeepsPromise`, the refinement of `EventPromise` |
| `SearchCacheProofs!StalenessIsBounded`, `ClearIsFresh`, `TypeCorrect` | `BoundedStaleness`, `FreshAfterClear`, types |
| `SearchCacheProofs!PromiseIsKept` | `Spec => KeepsPromise`, the refinement of `CachePromise` |
| `RebuildIndexProofs!SuccessMeansComplete`, `NothingIsForgotten`, `TypeCorrect` | `SuccessIsComplete`, `NothingForgotten`, types |
| `RebuildIndexProofs!PromiseIsKept` | `Spec => KeepsPromise`, the refinement of `RebuildPromise` |
| `IndexingPathProofs!OutboxIsAPart`, `IndexingIsAPart` | `Spec => Outbox!Spec`, `Spec => Indexing!Spec` |
| `IndexingPathProofs!NothingIsNowhere`, `OnlyRetriesAreExhausted` | `NeverNowhere`, `OnlyRetriesExhausted` |
| `IndexingPathProofs!PromiseIsKept` | `Spec => KeepsPromise`, the refinement of `IndexingPromise` by the whole path |

They hold for all articles, event_ids, processes, tokens, leases, delays, retries,
partitions, groups, timeouts, batch sizes and fault bounds, from the assumptions
named in the modules and nothing else.

- **Outbox.** `Inv` adds to the types: who works has the document of a stored
  article (`JobsOK`); "confirmed" and "published" imply a copy
  (`ConfirmationsOK`); no two dispatchers have the same token (`TokensOK`, from
  the freshness of tokens); without faults who works holds a lease with time
  left (`LeasesOK`). Exclusion follows: two workers on one record would hold it
  under one token. `ConfirmationsOK` is what a discharge needs in the refinement;
  each action maps to `Intend`, `Receive`, `Discharge` or a stutter.
- **IndexJobs.** `NoJobLost` is not inductive: an acknowledgement deletes a
  message, and one must know that the job is safe elsewhere. `SettledOK` says
  that a task about to acknowledge has indexed the article or left a message
  that *supersedes* its delivery: a dead letter, or one with a higher retry
  count. The higher count is what makes it work: another task about to delete
  that very successor must in turn have left one with a still higher count.
  `FailuresOK` ties the retry header to the failures, for `RetriesEarned`.
- **Dead letters.** `ExplainedOK` extends `DeadLettersExplained` from the dead
  letters that exist to those that tasks may yet publish (`CauseOK`: what a task
  is about to send to the dead-letter queue would be explained). Explanations
  stay true: an article missing when its job was accepted stays missing
  (`MissingForGood`), and failures only grow (`FailedForGood`). For the
  refinement, a step changes one message at most, and none that was a dead
  letter: acknowledgements are about deliveries of the main queue
  (`DeliveriesOK`), the TTL about the retry queue. So `GivenUp`
  grows by the article in a task's hand or not at all.
- **EventConsumer.** `NothingSkipped` needs `PositionsOK` (what is before a
  position is settled, but the record in hand), `RecordsOK` (what is before the
  record in hand is settled; so is the record once it is to be committed),
  `OffsetsOK` and `ExpiredOK`. Late commits are harmless because what is settled
  stays settled (`SettledStays`), whatever the assignment. `FirstRecordKept`
  follows as a consumer inserts a document only when every earlier valid record
  of that event_id, of whatever article, is settled without one, hence has expired unread. In the refinement
  a store is `Document`, `Park` or a stutter, `Commit` is `Advance`, whose guard
  is `RecordsOK` of the record in hand, and `Expire` is `Lose`: whatever a group
  has not done about the record is what the promise counts as lost.
- **Counting copies.** In `Outbox` a record is `Open` while it is not
  published and no dispatcher `Covers` it with a running lease; `CopiesOK` says
  that the copies sent and about to be sent, and one more for an open record, do
  not exceed one and the faults. In `IndexJobs` the copies of a job are its
  messages without those that merely await their acknowledgement (`Waiting`):
  `Move` adds one and supersedes one in the same step. `Undisturbed`, that tasks
  and deliveries correspond as long as nothing has failed, is what makes an
  acknowledgement remove the right one.
- **SearchCache.** `Lag(S, d)`: what is missing from `S` is visible for at most `d`
  ticks. `SearchOK` and `EntriesOK` carry it from the query through the reply,
  the write, a late write and the entry, and trade ticks of a timeout or a TTL
  for ticks of age. `ClearOK` says where an entry that lacks a settled article
  may still be: ahead of the SCAN, or in the batch to be deleted. Deletions of
  the index only make articles invisible. In the refinement every write, late
  ones included, is `Fill`: `SearchOK` gives the lag it allows. The end of an
  invalidation is `EndClear`, whose guard is `ClearOK` of the state that follows
  it. Giving up a SET, a timeout or a client is not seen.
- **RebuildIndex.** `OwnIndexOK`: after its creation nobody else replaces the
  index. `ProgressOK` follows each document from the cursor to the index;
  `KeptOK` says that a stored article is in the index, to be read, or somebody
  else's to index, which holds at the opening of the cursor because the
  snapshot is everything. `SourcesOK` says that jobs and requests, orphaned ones
  included, are about articles of MongoDB. In the refinement they are all
  `Write`s, and the guard of `Succeed` is `ProgressOK` and `KeptOK` at the refresh.
- **IndexingPath.** Both specifications hold of the composition, so that all
  invariants of the parts do. `NeverNowhere` joins `ConfirmationsOK` of one to
  `NoJobLost` of the other. `OnlyRetriesExhausted` needs `JobsOK`: every message
  and every task is about a stored article and passes the checks of `handle`,
  which rests on `JobsOK` of the outbox (who publishes has a stored article).

Only model-checked: the liveness properties, which are beyond the prover
(`RabbitMQDelivered`, `KafkaDelivered`, both `EventuallySettled`,
`EventuallyAnswered`, `RebuildSucceeds`, and `KeepsPromiseFairly`, which adds the
fairness of `IndexingPromise` to what is proved). Every invariant and every other
property of the runs is stated by a theorem.

## 5. Mutants

Every property of every run has a mutant: a variant of one definition, as a
plausible bug in the code would make it, under which TLC finds the property
violated. Among them: the token missing from the filters of the status updates,
`lease_until` missing from the claim's query, a broker that is down ending the
round, an acknowledgement although the republication failed, a swallowed
exception in `on_message`, the retry limit off by one, a failed write that is
only logged, a TTL on the dead-letter queue, a republication that keeps the
header of an earlier error, `offset + 2`, `$set` in place of `$setOnInsert`, a
key that is not compared, a cache read without its timeout, a SCAN that ends at
the first batch without keys, a hit that renews the TTL, an index that is not
deleted before the rebuild or taken as it is, a cursor on a lagging secondary,
tasks without a semaphore.

## 6. What is not modelled

- Two rebuilds at once: `RebuildIndex` has one. Nothing in the script prevents
  a second one, which may delete what the first one has filled.
- Documents the script cannot convert (a missing field raises `KeyError`): such
  a document ends every rebuild, until it is repaired.
- Foreign jobs with a well-formed retry count of 1 to `MAX_RETRIES`. `handle`
  trusts the header and would give them up after fewer failures than
  `RetriesEarned` and `DeadLettersExplained` ask for.
- What an event_id looks like. `EventConsumer` has a set of them and assumes no
  relation to articles; that `from_article` makes them unique for each article is
  a fact about the dispatcher's records only.
- Validation in the API, listing, ranking, limits and the content of articles:
  no property depends on them, or they change no state.
- Configuration, indexes of MongoDB, and closing connections. What is left of
  start-up is which clients a process has.
- A Redis that hangs `clear_all` for ever: the code sets no timeout there, and
  `IndexJobs` assumes that the call ends.
- Operator scripts (diagnostics, demonstrations, an earlier synchronous index
  synchronisation) and the deployment files, which were read for the fairness
  assumptions only.
- Durability of the stores: MongoDB, RabbitMQ, Kafka and Elasticsearch keep what
  they have acknowledged, Kafka until retention. Redis may lose anything; a
  lost entry is a miss, and behaves as one that expired.

## 7. Plan

Done, in the order of importance: `PublicationIntent`, `Outbox`, `IndexJobs`,
`EventConsumer`, `SearchCache` and `RebuildIndex`, each with proofs; the
composition of outbox and indexing pipeline, with proofs from those of its parts;
the promises of the consumers, the jobs, the cache and the rebuild, each with its
refinement.

Next, should the code grow or a question arise:

1. The Kafka half of the composition: `Outbox` with `EventConsumer`, from an
   article to its two documents, duplicates of the dispatcher included. It would
   rest on `PublicationIntent` and `EventPromise` rather than on the detailed
   modules.
2. `IndexingPromise` with `CachePromise`: from an article to the results that show
   it.
3. Two rebuilds at once, to find what a lock would have to promise.
