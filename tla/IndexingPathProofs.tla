-------------------------- MODULE IndexingPathProofs --------------------------
(***************************************************************************)
(* Proofs about IndexingPath: each part of the composition behaves as its  *)
(* module says, and what the two together guarantee follows from the       *)
(* theorems about each of them.                                            *)
(***************************************************************************)
EXTENDS IndexingPath, TLAPS

-----------------------------------------------------------------------------
(* The parts                                                               *)

\* The dispatchers of the path are those of module Outbox: neither RabbitMQ
\* nor the workers do anything that module does not know.
THEOREM OutboxIsAPart == Spec => Outbox!Spec
<1>1. Init => Outbox!Init
  BY DEF Init
<1>2. [Next]_vars => [Outbox!Next]_(Outbox!vars)
  BY DEF Next, Jobwise, vars, outboxVars, Outbox!vars
<1> QED
  BY <1>1, <1>2, PTL DEF Spec, Outbox!Spec

\* What the dispatcher publishes is a job the worker is prepared for.
LEMMA JobArrives ==
  ASSUME NEW a \in Articles
  PROVE  Job(a) \in Indexing!Arrivals(a)
BY DEF Job, Indexing!Arrivals

\* The worker sees of a step of the outbox no more than it may.
LEMMA SeenSteps == Seen => [Indexing!Next]_(Indexing!vars)
<1>1. ASSUME NEW a \in Articles, Indexing!Store(a)
      PROVE  Indexing!Next
  BY <1>1 DEF Indexing!Next
<1>2. ASSUME NEW a \in Articles, Indexing!Submit(a, Job(a))
      PROVE  Indexing!Next
  BY <1>2, JobArrives DEF Indexing!Next
<1>3. CASE missing' = missing /\ jobs' = jobs /\ UNCHANGED indexingVars
  BY <1>3 DEF indexingVars, Indexing!vars
<1> QED
  BY <1>1, <1>2, <1>3 DEF Seen

\* The workers of the path are those of module IndexJobs: whatever dispatchers
\* do, they submit jobs and nothing else.
THEOREM IndexingIsAPart == Spec => Indexing!Spec
<1>1. Init => Indexing!Init
  BY DEF Init
<1>2. [Next]_vars => [Indexing!Next]_(Indexing!vars)
  <2>1. CASE Outbox!Next /\ Seen
    BY <2>1, SeenSteps
  <2>2. CASE Jobwise(Indexing!Next)
    BY <2>2 DEF Jobwise
  <2>3. CASE UNCHANGED vars
    BY <2>3 DEF vars, outboxVars, indexingVars, Indexing!vars, missing, jobs
  <2> QED
    BY <2>1, <2>2, <2>3 DEF Next
<1> QED
  BY <1>1, <1>2, PTL DEF Spec, Indexing!Spec

\* So the invariants proved of the parts hold of the path.
LEMMA PartsInv == Spec => [](Outbox!Inv /\ Indexing!Inv)
<1>1. Outbox!Spec => []Outbox!Inv
  BY PartsAssumption, Outbox!Invariance
    DEF Outbox!TimeAssumption, Outbox!ValueAssumption, Outbox!TokensSuffice
<1>2. Indexing!Spec => []Indexing!Inv
  BY PartsAssumption, Indexing!Invariance
    DEF Indexing!NumberAssumption, Indexing!SlotAssumption, Indexing!NoneAssumption
<1> QED
  BY <1>1, <1>2, OutboxIsAPart, IndexingIsAPart, PTL

-----------------------------------------------------------------------------
(* Nothing falls between the two parts                                     *)

\* A stored article is never nowhere: what its outbox calls published the
\* broker has accepted, and what the broker has accepted ends in the index or
\* stays in a queue (claim, publish and mark_published on one side,
\* move_message and ack on the other).
THEOREM NothingIsNowhere == Spec => []NeverNowhere
<1>1. Outbox!Inv /\ Indexing!Inv => NeverNowhere
  <2>1. SUFFICES ASSUME Outbox!Inv, Indexing!Inv, NEW a \in Articles \ missing,
                        outbox[a]["rabbitmq"].status \notin {"pending", "leased"}
                 PROVE  a \in indexed \/ Indexing!About(a) # {}
    BY DEF NeverNowhere
  <2>2. "rabbitmq" \in Outbox!Channels
    BY DEF Outbox!Channels, Outbox!CHANNELS
  <2>3. outbox[a]["rabbitmq"] \in Outbox!Records
    BY <2>1, <2>2 DEF Outbox!Inv, Outbox!TypeOK
  <2>4. outbox[a]["rabbitmq"].status = "published"
    BY <2>1, <2>3 DEF missing, Outbox!Records
  <2>5. copies[a]["rabbitmq"] > 0
    BY <2>1, <2>2, <2>4 DEF Outbox!Inv, Outbox!ConfirmationsOK
  <2>6. a \in Indexing!Accepted
    BY <2>5 DEF Indexing!Accepted, jobs
  <2> QED
    BY <2>1, <2>6 DEF Indexing!Inv, Indexing!NoJobLost
<1> QED
  BY <1>1, PartsInv, PTL

-----------------------------------------------------------------------------
(* What becomes of the dispatcher's jobs                                   *)

\* A message is about an article that is stored.
LEMMA StoredBefore ==
  ASSUME Outbox!Inv, Outbox!Next, NEW a \in Articles, jobs'[a] = jobs[a] + 1
  PROVE  a \notin missing'
<1>1. "rabbitmq" \in Outbox!Channels
  BY DEF Outbox!Channels, Outbox!CHANNELS
<1>2. copies[a]["rabbitmq"] \in Nat /\ copies'[a]["rabbitmq"] = copies[a]["rabbitmq"] + 1
  BY <1>1 DEF jobs, Outbox!Inv, Outbox!TypeOK
<1>3. copies' # copies
  BY <1>2
<1>4. PICK d \in Dispatchers :
        /\ dispatcher[d] = "publish"
        /\ Outbox!Accept(job[d].article, chan[d])
        /\ outbox' = outbox
  BY <1>3 DEF Outbox!Next, Outbox!Create, Outbox!Dispatch, Outbox!Connect, Outbox!SkipChannel,
     Outbox!Claim, Outbox!ClaimNothing, Outbox!ClaimError, Outbox!Publish,
     Outbox!PublishConfirmed, Outbox!PublishRefused, Outbox!PublishUndecided,
     Outbox!RecordOutcome, Outbox!LeaseLost, Outbox!OutcomeError, Outbox!Die, Outbox!Tick,
     Outbox!dbVars
<1>5. a = job[d].article /\ chan[d] = "rabbitmq"
  BY <1>1, <1>2, <1>4 DEF Outbox!Accept, Outbox!Inv, Outbox!TypeOK
<1>6. outbox[a]["rabbitmq"].status # "absent"
  BY <1>4, <1>5 DEF Outbox!Inv, Outbox!JobsOK, Outbox!Working, Outbox!Record
<1> QED
  BY <1>4, <1>6 DEF missing

\* A step that leaves messages and tasks alone, or takes some away.
LEMMA CarriedOver ==
  ASSUME JobsOK, missing' \subseteq missing,
         \A m \in Ids : broker'[m] = broker[m] \/ broker'[m].queue = "none",
         \A s \in Slots : task'[s] = "idle" \/ (task[s] # "idle" /\ work'[s] = work[s])
  PROVE  JobsOK'
<1>1. ASSUME NEW m \in Indexing!Live'
      PROVE  MessageOK(m)'
  <2>1. m \in Indexing!Live /\ broker'[m] = broker[m]
    BY <1>1 DEF Indexing!Live
  <2> QED
    BY <2>1 DEF JobsOK, MessageOK, Welcome
<1>2. ASSUME NEW s \in Slots, task'[s] # "idle"
      PROVE  TaskOK(s)'
  BY <1>2 DEF JobsOK, TaskOK, Welcome
<1> QED
  BY <1>1, <1>2 DEF JobsOK

\* A message that is published anew.
LEMMA PublishedAnew ==
  ASSUME JobsOK, missing' \subseteq missing, Indexing!TypeOK,
         NEW q, NEW b, Indexing!Publish(q, b),
         Welcome(b)', q = "dlq" => b.reason = "RetriesExhausted"
  PROVE  \A m \in Indexing!Live' : MessageOK(m)'
<1>1. PICK k \in Ids : broker' = [broker EXCEPT ![k] = [queue |-> q, body |-> b]]
  BY DEF Indexing!Publish
<1>2. SUFFICES ASSUME NEW m \in Indexing!Live'
               PROVE  MessageOK(m)'
  OBVIOUS
<1>3. m \in Ids /\ broker'[m].queue # "none"
  BY DEF Indexing!Live
<1>4. CASE m = k
  <2>1. broker'[m] = [queue |-> q, body |-> b]
    BY <1>1, <1>3, <1>4 DEF Indexing!TypeOK
  <2> QED
    BY <2>1 DEF MessageOK
<1>5. CASE m # k
  <2>1. broker'[m] = broker[m]
    BY <1>1, <1>3, <1>5 DEF Indexing!TypeOK
  <2>2. m \in Indexing!Live
    BY <1>3, <2>1 DEF Indexing!Live
  <2> QED
    BY <2>1, <2>2 DEF JobsOK, MessageOK, Welcome
<1> QED
  BY <1>4, <1>5

\* Steps of the outbox: at most a new job.
LEMMA SeenJobs ==
  ASSUME Outbox!Inv, Indexing!Inv, JobsOK, Outbox!Next, Seen
  PROVE  JobsOK'
<1>1. Indexing!TypeOK
  BY DEF Indexing!Inv
<1>2. CASE \E a \in Articles : Indexing!Store(a)
  <2>1. /\ broker' = broker /\ task' = task /\ work' = work
        /\ missing' \subseteq missing
    BY <1>2 DEF Indexing!Store, Indexing!brokerVars, Indexing!slotVars
  <2> QED
    BY <2>1, CarriedOver
<1>3. ASSUME NEW a \in Articles, Indexing!Submit(a, Job(a))
      PROVE  JobsOK'
  <2>1. /\ Indexing!Publish("main", Job(a))
        /\ task' = task /\ work' = work /\ missing' = missing
        /\ jobs' = [jobs EXCEPT ![a] = @ + 1]
    BY <1>3 DEF Indexing!Submit, Indexing!slotVars
  <2>2. a \notin missing'
    <3>1. jobs'[a] = jobs[a] + 1
      BY <2>1 DEF jobs
    <3> QED
      BY <3>1, StoredBefore
  <2>3. Welcome(Job(a))'
    <3>1. MaxRetries \in Nat
      BY PartsAssumption DEF Indexing!NumberAssumption
    <3> QED
      BY <2>2, <3>1 DEF Welcome, Job
  <2>4. \A m \in Indexing!Live' : MessageOK(m)'
    BY <1>1, <2>1, <2>3, PublishedAnew
  <2>5. \A s \in Slots : task'[s] # "idle" => TaskOK(s)'
    BY <2>1 DEF JobsOK, TaskOK, Welcome
  <2> QED
    BY <2>4, <2>5 DEF JobsOK
<1>4. CASE missing' = missing /\ jobs' = jobs /\ UNCHANGED indexingVars
  <2>1. /\ broker' = broker /\ task' = task /\ work' = work /\ missing' = missing
    BY <1>4 DEF indexingVars
  <2> QED
    BY <2>1, CarriedOver
<1> QED
  BY <1>2, <1>3, <1>4 DEF Seen

\* A task that takes its next step, and leaves the messages alone.
LEMMA TaskGoesOn ==
  ASSUME JobsOK, Indexing!TypeOK, NEW s \in Slots,
         missing' = missing, broker' = broker, Welcome(work[s].body),
         NEW where, task' = [task EXCEPT ![s] = where],
         \/ task[s] # "idle" /\ work' = work
         \/ \E q, why : /\ work' = [work EXCEPT ![s].to = q, ![s].reason = why]
                        /\ q = "dlq" => why = "RetriesExhausted",
         work[s] \in Indexing!Deliveries
  PROVE  JobsOK'
<1>1. \A m \in Indexing!Live' : MessageOK(m)'
  BY DEF JobsOK, MessageOK, Welcome, Indexing!Live
<1>2. ASSUME NEW t \in Slots, task'[t] # "idle"
      PROVE  TaskOK(t)'
  <2>1. CASE t # s
    BY <1>2, <2>1 DEF JobsOK, TaskOK, Welcome, Indexing!TypeOK
  <2>2. CASE t = s /\ task[s] # "idle" /\ work' = work
    BY <2>2 DEF JobsOK, TaskOK, Welcome
  <2>3. ASSUME t = s,
               NEW q, NEW why, work' = [work EXCEPT ![s].to = q, ![s].reason = why],
               q = "dlq" => why = "RetriesExhausted"
        PROVE  TaskOK(t)'
    <3>1. /\ work'[s].body = work[s].body
          /\ work'[s].to = q /\ work'[s].reason = why
      BY <2>3 DEF Indexing!TypeOK, Indexing!Deliveries
    <3> QED
      BY <2>3, <3>1 DEF TaskOK, Welcome
  <2> QED
    BY <2>1, <2>2, <2>3
<1> QED
  BY <1>1, <1>2 DEF JobsOK

\* The message that moves a job on, or to the dead letters.
LEMMA MovedOn ==
  ASSUME Indexing!Inv, JobsOK, missing' = missing,
         NEW s \in Slots, task[s] = "move", Indexing!Publish(work[s].to, Indexing!Successor(s))
  PROVE  \A m \in Indexing!Live' : MessageOK(m)'
<1>1. Indexing!TypeOK /\ Indexing!TasksOK
  BY DEF Indexing!Inv
<1>2. work[s] \in Indexing!Deliveries
  BY <1>1 DEF Indexing!TypeOK, Indexing!TasksOK
<1>3. TaskOK(s) /\ (work[s].to = "retry" => work[s].body.retry < MaxRetries)
  BY <1>1 DEF JobsOK, Indexing!TasksOK
<1>4. MaxRetries \in Nat
  BY PartsAssumption DEF Indexing!NumberAssumption
<1>5. work[s].body \in Indexing!Bodies
  BY <1>2 DEF Indexing!Deliveries
<1>6. Indexing!Successor(s).form = work[s].body.form
      /\ Indexing!Successor(s).article = work[s].body.article
      /\ Indexing!Successor(s).reason = work[s].reason
  BY <1>5 DEF Indexing!Successor, Indexing!Bodies
<1>7. Indexing!Successor(s).retry <= MaxRetries
  <2>1. work[s].body.retry \in Nat /\ work[s].body.retry <= MaxRetries
    BY <1>3, <1>4, <1>5 DEF TaskOK, Welcome, Indexing!Bodies
  <2>2. Indexing!Successor(s).retry =
          IF work[s].to = "retry" THEN work[s].body.retry + 1
          ELSE IF work[s].reason = "InvalidRetryMetadata" THEN 0 ELSE work[s].body.retry
    BY <1>5 DEF Indexing!Successor, Indexing!Bodies
  <2> QED
    BY <1>3, <1>4, <2>1, <2>2
<1>8. Welcome(Indexing!Successor(s))
  BY <1>3, <1>6, <1>7 DEF TaskOK, Welcome
<1>9. PICK b : b = Indexing!Successor(s)
  OBVIOUS
<1>10. Welcome(b)' /\ (work[s].to = "dlq" => b.reason = "RetriesExhausted")
  BY <1>3, <1>6, <1>8, <1>9 DEF TaskOK, Welcome
<1>11. PICK q : q = work[s].to
  OBVIOUS
<1> QED
  BY <1>1, <1>9, <1>10, <1>11, PublishedAnew

\* Steps of a task: what the dispatcher has published passes every check, so
\* only processings that raise can keep a job from the index.
LEMMA HandleJobs ==
  ASSUME Indexing!Inv, JobsOK, missing' = missing, NEW s \in Slots, Indexing!Handle(s)
  PROVE  JobsOK'
<1>1. Indexing!TypeOK /\ Indexing!TasksOK
  BY DEF Indexing!Inv
<1>2. task[s] # "idle"
  BY DEF Indexing!Handle, Indexing!ReadArticle, Indexing!IndexArticle, Indexing!ProcessingFails,
     Indexing!Move, Indexing!MoveFails, Indexing!Ack, Indexing!StaleAck
<1>3. work[s] \in Indexing!Deliveries /\ TaskOK(s) /\ Welcome(work[s].body)
  BY <1>1, <1>2 DEF Indexing!TypeOK, Indexing!TasksOK, JobsOK, TaskOK
<1>4. CASE Indexing!ReadArticle(s)
  <2>1. Indexing!Job(s) \notin missing
    BY <1>3 DEF Welcome, Indexing!Job
  <2>2. task' = [task EXCEPT ![s] = "index"] /\ work' = work /\ broker' = broker
    BY <1>4, <2>1 DEF Indexing!ReadArticle, Indexing!brokerVars
  <2> QED
    BY <1>1, <1>2, <1>3, <2>2, TaskGoesOn
<1>5. CASE Indexing!IndexArticle(s)
  <2>1. task' = [task EXCEPT ![s] = "ack"] /\ work' = work /\ broker' = broker
    BY <1>5 DEF Indexing!IndexArticle, Indexing!brokerVars
  <2> QED
    BY <1>1, <1>2, <1>3, <2>1, TaskGoesOn
<1>6. CASE Indexing!ProcessingFails(s)
  <2>1. /\ task' = [task EXCEPT ![s] = "move"] /\ broker' = broker
        /\ \/ work' = [work EXCEPT ![s].to = "retry", ![s].reason = "ProcessingError"]
           \/ work' = [work EXCEPT ![s].to = "dlq", ![s].reason = "RetriesExhausted"]
    BY <1>6 DEF Indexing!ProcessingFails, Indexing!Decide, Indexing!brokerVars
  <2>2. \E q, why : /\ work' = [work EXCEPT ![s].to = q, ![s].reason = why]
                    /\ q = "dlq" => why = "RetriesExhausted"
    BY <2>1
  <2> QED
    BY <1>1, <1>3, <2>1, <2>2, TaskGoesOn
<1>7. CASE Indexing!Move(s)
  <2>1. \A m \in Indexing!Live' : MessageOK(m)'
    BY <1>7, MovedOn DEF Indexing!Move
  <2>2. task' = [task EXCEPT ![s] = "ack"] /\ work' = work
    BY <1>7 DEF Indexing!Move
  <2>3. \A t \in Slots : task'[t] # "idle" => TaskOK(t)'
    BY <1>1, <1>2, <2>2 DEF JobsOK, TaskOK, Welcome, Indexing!TypeOK
  <2> QED
    BY <2>1, <2>3 DEF JobsOK
<1>8. ASSUME task' = [task EXCEPT ![s] = "idle"], work' = [work EXCEPT ![s] = None]
      PROVE  \A t \in Slots : task'[t] = "idle" \/ (task[t] # "idle" /\ work'[t] = work[t])
  BY <1>1, <1>8 DEF Indexing!TypeOK
<1>9. CASE Indexing!MoveFails(s)
  <2>1. \A t \in Slots : task'[t] = "idle" \/ (task[t] # "idle" /\ work'[t] = work[t])
    BY <1>8, <1>9 DEF Indexing!MoveFails, Indexing!Idle
  <2>2. CASE broker' = broker
    BY <2>1, <2>2, CarriedOver
  <2>3. CASE Indexing!Publish(work[s].to, Indexing!Successor(s))
    <3>1. \A m \in Indexing!Live' : MessageOK(m)'
      BY <1>9, <2>3, MovedOn DEF Indexing!MoveFails
    <3>2. \A t \in Slots : task'[t] # "idle" => TaskOK(t)'
      BY <2>1 DEF JobsOK, TaskOK, Welcome
    <3> QED
      BY <3>1, <3>2 DEF JobsOK
  <2> QED
    BY <1>9, <2>2, <2>3 DEF Indexing!MoveFails
<1>10. CASE Indexing!Ack(s) \/ Indexing!StaleAck(s)
  <2>1. \A t \in Slots : task'[t] = "idle" \/ (task[t] # "idle" /\ work'[t] = work[t])
    BY <1>8, <1>10 DEF Indexing!Ack, Indexing!StaleAck, Indexing!Idle
  <2>2. broker' = broker \/ broker' = [broker EXCEPT ![work[s].id] = Indexing!NoMessage]
    BY <1>10 DEF Indexing!Ack, Indexing!StaleAck, Indexing!brokerVars
  <2>3. \A m \in Ids : broker'[m] = broker[m] \/ broker'[m].queue = "none"
    BY <1>1, <2>2 DEF Indexing!TypeOK, Indexing!NoMessage
  <2> QED
    BY <2>1, <2>3, CarriedOver
<1> QED
  BY <1>4, <1>5, <1>6, <1>7, <1>9, <1>10 DEF Indexing!Handle

\* A delivery is undecided: handle finds nothing wrong with it.
LEMMA DeliverJobs ==
  ASSUME Indexing!Inv, JobsOK, missing' = missing,
         NEW s \in Slots, NEW m \in Ids, Indexing!Deliver(s, m)
  PROVE  JobsOK'
<1>1. Indexing!TypeOK
  BY DEF Indexing!Inv
<1>2. m \in Indexing!Live /\ MessageOK(m)
  BY DEF JobsOK, Indexing!Live, Indexing!Deliver
<1>3. broker[m].body \in Indexing!Bodies
  BY <1>1, <1>2 DEF Indexing!TypeOK, Indexing!Stored, Indexing!NoMessage, Indexing!Live
<1>4. Indexing!Verdict(broker[m].body) = "none"
  <2>1. MaxRetries \in Nat
    BY PartsAssumption DEF Indexing!NumberAssumption
  <2>2. /\ broker[m].body.retry \in Nat
        /\ broker[m].body.retry <= MaxRetries
        /\ broker[m].body.form = "valid"
    BY <1>2, <1>3, <2>1 DEF MessageOK, Welcome, Indexing!Bodies
  <2>3. ~ (broker[m].body.retry > MaxRetries)
    BY <2>1, <2>2
  <2> QED
    BY <2>2, <2>3 DEF Indexing!Verdict
<1>5. /\ broker' = broker /\ task' = [task EXCEPT ![s] = "read"]
      /\ work' = [work EXCEPT ![s] = [id |-> m, body |-> broker[m].body,
                                      to |-> "undecided", reason |-> "none"]]
  BY <1>4 DEF Indexing!Deliver
<1>6. \A k \in Indexing!Live' : MessageOK(k)'
  BY <1>5 DEF JobsOK, MessageOK, Welcome, Indexing!Live
<1>7. ASSUME NEW t \in Slots, task'[t] # "idle"
      PROVE  TaskOK(t)'
  <2>1. CASE t = s
    <3>1. work'[t].body = broker[m].body /\ work'[t].to = "undecided"
      BY <1>1, <1>5, <2>1 DEF Indexing!TypeOK
    <3> QED
      BY <1>2, <3>1 DEF TaskOK, MessageOK, Welcome
  <2>2. CASE t # s
    BY <1>1, <1>5, <1>7, <2>2 DEF JobsOK, TaskOK, Welcome, Indexing!TypeOK
  <2> QED
    BY <2>1, <2>2
<1> QED
  BY <1>6, <1>7 DEF JobsOK

\* The retry queue's TTL turns no message into another one.
LEMMA ExpireJobs ==
  ASSUME Indexing!Inv, JobsOK, missing' = missing, NEW m \in Ids, Indexing!Expire(m)
  PROVE  JobsOK'
<1>1. Indexing!TypeOK
  BY DEF Indexing!Inv
<1>2. m \in Indexing!Live /\ broker[m] \in Indexing!Stored
  BY <1>1 DEF Indexing!Expire, Indexing!Live, Indexing!TypeOK, Indexing!NoMessage
<1>3. PICK x : x = [broker[m] EXCEPT !.queue = "main"]
  OBVIOUS
<1>4. x.body = broker[m].body /\ x.queue = "main"
  BY <1>2, <1>3 DEF Indexing!Stored
<1>5. broker' = [broker EXCEPT ![m] = x] /\ task' = task /\ work' = work
  BY <1>3 DEF Indexing!Expire, Indexing!slotVars
<1>6. ASSUME NEW k \in Indexing!Live'
      PROVE  MessageOK(k)'
  <2>1. k \in Ids /\ (k = m => broker'[k] = x) /\ (k # m => broker'[k] = broker[k])
    BY <1>1, <1>5 DEF Indexing!Live, Indexing!TypeOK
  <2>2. k \in Indexing!Live
    BY <1>2, <2>1 DEF Indexing!Live
  <2> QED
    BY <1>4, <2>1, <2>2 DEF JobsOK, MessageOK, Welcome
<1>7. \A s \in Slots : task'[s] # "idle" => TaskOK(s)'
  BY <1>5 DEF JobsOK, TaskOK, Welcome
<1> QED
  BY <1>6, <1>7 DEF JobsOK

\* A step of the jobs alone submits nothing and stores nothing.
LEMMA JobwiseJobs ==
  ASSUME Indexing!Inv, JobsOK, UNCHANGED outboxVars, Indexing!Next
  PROVE  JobsOK'
<1>1. missing' = missing /\ jobs' = jobs
  BY DEF outboxVars, missing, jobs
<1>2. Indexing!TypeOK
  BY DEF Indexing!Inv
<1>3. ASSUME NEW a \in Articles, Indexing!Store(a)
      PROVE  FALSE
  BY <1>1, <1>3 DEF Indexing!Store
<1>4. ASSUME NEW a \in Articles, NEW b \in Indexing!Arrivals(a), Indexing!Submit(a, b)
      PROVE  FALSE
  <2>1. jobs[a] \in Nat /\ jobs'[a] = jobs[a] + 1
    BY <1>2, <1>4, PartsAssumption
      DEF Indexing!Submit, Indexing!TypeOK, Indexing!NumberAssumption, jobs
  <2> QED
    BY <1>1, <2>1
<1>5. ASSUME NEW m \in Ids, Indexing!Expire(m)
      PROVE  JobsOK'
  BY <1>1, <1>5, ExpireJobs
<1>6. ASSUME NEW s \in Slots, Indexing!Handle(s)
      PROVE  JobsOK'
  BY <1>1, <1>6, HandleJobs
<1>7. ASSUME NEW s \in Slots, NEW m \in Ids, Indexing!Deliver(s, m)
      PROVE  JobsOK'
  BY <1>1, <1>7, DeliverJobs
<1>8. ASSUME NEW w \in Workers, Indexing!ConnectionLost(w)
      PROVE  JobsOK'
  <2>1. broker' = broker
    BY <1>8 DEF Indexing!ConnectionLost
  <2>2. \A s \in Slots : task'[s] = "idle" \/ (task[s] # "idle" /\ work'[s] = work[s])
    BY <1>2, <1>8 DEF Indexing!ConnectionLost, Indexing!slotVars, Indexing!Idle, Indexing!TypeOK
  <2> QED
    BY <1>1, <2>1, <2>2, CarriedOver
<1>9. ASSUME NEW w \in Workers, Indexing!Restart(w)
      PROVE  JobsOK'
  <2>1. broker' = broker
    BY <1>9 DEF Indexing!Restart
  <2>2. \A s \in Slots : task'[s] = "idle" \/ (task[s] # "idle" /\ work'[s] = work[s])
    BY <1>2, <1>9 DEF Indexing!Restart, Indexing!TypeOK
  <2> QED
    BY <1>1, <2>1, <2>2, CarriedOver
<1> QED
  BY <1>3, <1>4, <1>5, <1>6, <1>7, <1>8, <1>9 DEF Indexing!Next

\* No step of the path spoils a job.
LEMMA JobsInv == Spec => []JobsOK
<1>1. Init => JobsOK
  BY DEF Init, Indexing!Init, JobsOK, Indexing!Live, Indexing!NoMessage
<1>2. Outbox!Inv /\ Indexing!Inv /\ JobsOK /\ [Next]_vars => JobsOK'
  <2>1. SUFFICES ASSUME Outbox!Inv, Indexing!Inv, JobsOK, [Next]_vars
                 PROVE  JobsOK'
    OBVIOUS
  <2>2. CASE Outbox!Next /\ Seen
    BY <2>1, <2>2, SeenJobs
  <2>3. CASE Jobwise(Indexing!Next)
    BY <2>1, <2>3, JobwiseJobs DEF Jobwise
  <2>4. CASE UNCHANGED vars
    <3>1. broker' = broker /\ task' = task /\ work' = work /\ missing' = missing
      BY <2>4 DEF vars, outboxVars, indexingVars, missing
    <3> QED
      BY <2>1, <3>1, CarriedOver
  <2> QED
    BY <2>1, <2>2, <2>3, <2>4 DEF Next
<1> QED
  BY <1>1, <1>2, PartsInv, PTL DEF Spec

\* The dispatcher's jobs are given up for one reason only: MAX_RETRIES + 1
\* processings of them have failed.  None is rejected by the checks of handle,
\* and none names an article that the worker does not find.
THEOREM OnlyRetriesAreExhausted == Spec => []OnlyRetriesExhausted
<1>1. Indexing!Spec => []Indexing!RetriesEarned
  BY PartsAssumption, Indexing!RetriesAreEarned
    DEF Indexing!NumberAssumption, Indexing!SlotAssumption, Indexing!NoneAssumption
<1>2. JobsOK /\ Indexing!RetriesEarned => OnlyRetriesExhausted
  BY DEF JobsOK, MessageOK, Indexing!RetriesEarned, OnlyRetriesExhausted,
     Indexing!DeadLetters, Indexing!About
<1> QED
  BY <1>1, <1>2, JobsInv, IndexingIsAPart, PTL

-----------------------------------------------------------------------------
(* The steps of the path are steps of the promise                          *)

\* A step that changes no messages gives nothing up.
LEMMA NothingGivenUp ==
  ASSUME broker' = broker
  PROVE  GivenUp' = GivenUp
BY DEF GivenUp, Indexing!DeadLetters, Indexing!About, Indexing!Live

\* A message comes, goes or changes its queue: a is given up if it is a's dead
\* letter now, and no dead letter is touched.
LEMMA OneMessageChanges ==
  ASSUME Indexing!TypeOK, NEW k \in Ids, broker[k].queue # "dlq",
         NEW x, broker' = [broker EXCEPT ![k] = x]
  PROVE  /\ x.queue # "dlq" => GivenUp' = GivenUp
         /\ \A a \in Articles :
              x.queue = "dlq" /\ x.body.article = a => GivenUp' = GivenUp \cup {a}
<1>1. \A m \in Ids : broker'[m] = IF m = k THEN x ELSE broker[m]
  BY DEF Indexing!TypeOK
<1>2. \A a \in Articles :
        a \in GivenUp <=> \E m \in Ids : broker[m].queue = "dlq" /\ broker[m].body.article = a
  BY DEF GivenUp, Indexing!DeadLetters, Indexing!About, Indexing!Live
<1>3. \A a \in Articles :
        a \in GivenUp' <=> \E m \in Ids : broker'[m].queue = "dlq" /\ broker'[m].body.article = a
  BY DEF GivenUp, Indexing!DeadLetters, Indexing!About, Indexing!Live
<1>4. GivenUp \subseteq Articles /\ GivenUp' \subseteq Articles
  BY DEF GivenUp
<1>5. ASSUME x.queue # "dlq"
      PROVE  \A a \in Articles : a \in GivenUp' <=> a \in GivenUp
  BY <1>1, <1>2, <1>3, <1>5
<1>6. ASSUME NEW a \in Articles, x.queue = "dlq", x.body.article = a
      PROVE  \A b \in Articles : b \in GivenUp' <=> b \in GivenUp \/ b = a
  BY <1>1, <1>2, <1>3, <1>6
<1> QED
  BY <1>4, <1>5, <1>6

\* The same of a publication.
LEMMA OneMessageMore ==
  ASSUME Indexing!TypeOK, NEW q, NEW b, Indexing!Publish(q, b)
  PROVE  /\ q # "dlq" => GivenUp' = GivenUp
         /\ \A a \in Articles : q = "dlq" /\ b.article = a => GivenUp' = GivenUp \cup {a}
<1>1. PICK k \in Ids \ Indexing!Live : broker' = [broker EXCEPT ![k] = [queue |-> q, body |-> b]]
  BY DEF Indexing!Publish
<1>2. k \in Ids /\ broker[k].queue = "none"
  BY <1>1 DEF Indexing!Live
<1>3. broker[k].queue # "dlq"
  BY <1>2
<1>4. PICK x : x = [queue |-> q, body |-> b]
  OBVIOUS
<1>5. x.queue = q /\ x.body = b
  BY <1>4
<1>6. broker' = [broker EXCEPT ![k] = x]
  BY <1>1, <1>4
<1>7. /\ x.queue # "dlq" => GivenUp' = GivenUp
      /\ \A a \in Articles :
           x.queue = "dlq" /\ x.body.article = a => GivenUp' = GivenUp \cup {a}
  BY <1>2, <1>3, <1>6, OneMessageChanges
<1> QED
  BY <1>5, <1>7

\* Steps of the outbox store articles.
LEMMA SeenRefines ==
  ASSUME Indexing!Inv, Seen
  PROVE  [Promise!Next]_(Promise!vars)
<1>1. Indexing!TypeOK
  BY DEF Indexing!Inv
<1>2. ASSUME NEW a \in Articles, Indexing!Store(a)
      PROVE  Promise!Store(a)
  <2>1. /\ a \in missing /\ missing' = missing \ {a}
        /\ broker' = broker /\ indexed' = indexed
    BY <1>2 DEF Indexing!Store, Indexing!brokerVars
  <2>2. GivenUp' = GivenUp
    BY <2>1, NothingGivenUp
  <2> QED
    BY <2>1, <2>2 DEF Promise!Store
<1>3. ASSUME NEW a \in Articles, Indexing!Submit(a, Job(a))
      PROVE  UNCHANGED Promise!vars
  <2>1. Indexing!Publish("main", Job(a)) /\ missing' = missing /\ indexed' = indexed
    BY <1>3 DEF Indexing!Submit
  <2>2. GivenUp' = GivenUp
    BY <1>1, <2>1, OneMessageMore
  <2> QED
    BY <2>1, <2>2 DEF Promise!vars
<1>4. CASE missing' = missing /\ jobs' = jobs /\ UNCHANGED indexingVars
  <2>1. missing' = missing /\ broker' = broker /\ indexed' = indexed
    BY <1>4 DEF indexingVars
  <2> QED
    BY <2>1, NothingGivenUp DEF Promise!vars
<1> QED
  BY <1>2, <1>3, <1>4 DEF Seen, Promise!Next

\* Steps of a task index the article or give it up, or neither.
LEMMA HandleRefines ==
  ASSUME Indexing!Inv, JobsOK, missing' = missing, NEW s \in Slots, Indexing!Handle(s)
  PROVE  [Promise!Next]_(Promise!vars)
<1>1. Indexing!TypeOK /\ Indexing!TasksOK /\ Indexing!DeliveriesOK
  BY DEF Indexing!Inv
<1>2. task[s] # "idle"
  BY DEF Indexing!Handle, Indexing!ReadArticle, Indexing!IndexArticle, Indexing!ProcessingFails,
     Indexing!Move, Indexing!MoveFails, Indexing!Ack, Indexing!StaleAck
<1>3. work[s] \in Indexing!Deliveries /\ TaskOK(s)
  BY <1>1, <1>2 DEF Indexing!TypeOK, Indexing!TasksOK, JobsOK
<1>4. PICK a \in Articles : a = work[s].body.article
  BY <1>3 DEF Indexing!Deliveries, Indexing!Bodies
<1>5. a \notin missing
  BY <1>3, <1>4 DEF TaskOK, Welcome
<1>6. CASE Indexing!ReadArticle(s) \/ Indexing!IndexArticle(s) \/ Indexing!ProcessingFails(s)
  <2>1. broker' = broker /\ (indexed' = indexed \/ indexed' = indexed \cup {a})
    BY <1>4, <1>6 DEF Indexing!ReadArticle, Indexing!IndexArticle, Indexing!ProcessingFails,
       Indexing!brokerVars, Indexing!Job
  <2>2. GivenUp' = GivenUp
    BY <2>1, NothingGivenUp
  <2>3. UNCHANGED Promise!vars \/ Promise!Index(a)
    BY <1>5, <2>1, <2>2 DEF Promise!vars, Promise!Index
  <2> QED
    BY <2>3 DEF Promise!Next
<1>7. CASE Indexing!Move(s) \/ Indexing!MoveFails(s)
  <2>1. /\ indexed' = indexed
        /\ broker' = broker \/ Indexing!Publish(work[s].to, Indexing!Successor(s))
    BY <1>7 DEF Indexing!Move, Indexing!MoveFails
  <2>2. CASE broker' = broker
    BY <2>1, <2>2, NothingGivenUp DEF Promise!vars
  <2>3. CASE Indexing!Publish(work[s].to, Indexing!Successor(s))
    <3>1. PICK q, b : q = work[s].to /\ b = Indexing!Successor(s)
      OBVIOUS
    <3>2. b.article = a
      <4>1. work[s].body \in Indexing!Bodies
        BY <1>3 DEF Indexing!Deliveries
      <4> QED
        BY <1>4, <3>1, <4>1 DEF Indexing!Successor, Indexing!Bodies
    <3>3. GivenUp' = GivenUp \/ GivenUp' = GivenUp \cup {a}
      BY <1>1, <2>3, <3>1, <3>2, OneMessageMore
    <3>4. UNCHANGED Promise!vars \/ Promise!GiveUp(a)
      BY <1>5, <2>1, <3>3 DEF Promise!vars, Promise!GiveUp
    <3> QED
      BY <3>4 DEF Promise!Next
  <2> QED
    BY <2>1, <2>2, <2>3
<1>8. CASE Indexing!Ack(s)
  <2>1. PICK m \in Ids : m = work[s].id
    BY <1>3 DEF Indexing!Deliveries
  <2>2. owner[m] = s /\ broker' = [broker EXCEPT ![m] = Indexing!NoMessage] /\ indexed' = indexed
    BY <1>8, <2>1 DEF Indexing!Ack
  <2>3. broker[m].queue # "dlq"
    BY <1>1, <2>2, PartsAssumption DEF Indexing!DeliveriesOK, Indexing!SlotAssumption
  <2>4. PICK x : x = Indexing!NoMessage
    OBVIOUS
  <2>5. x.queue # "dlq" /\ broker' = [broker EXCEPT ![m] = x]
    BY <2>2, <2>4 DEF Indexing!NoMessage
  <2>6. GivenUp' = GivenUp
    BY <1>1, <2>3, <2>5, OneMessageChanges
  <2> QED
    BY <2>2, <2>6 DEF Promise!vars
<1>9. CASE Indexing!StaleAck(s)
  <2>1. broker' = broker /\ indexed' = indexed
    BY <1>9 DEF Indexing!StaleAck, Indexing!brokerVars
  <2> QED
    BY <2>1, NothingGivenUp DEF Promise!vars
<1> QED
  BY <1>6, <1>7, <1>8, <1>9 DEF Indexing!Handle

\* The path implements IndexingPromise: an article is stored first, then
\* indexed or given up, and none of it is ever taken back, whatever
\* dispatchers, brokers and workers do.
THEOREM PromiseIsKept == Spec => KeepsPromise
<1>1. Init => Promise!Init
  <2>1. SUFFICES ASSUME Init
                 PROVE  Promise!Init
    OBVIOUS
  <2>2. \A a \in Articles : outbox[a]["rabbitmq"] = Outbox!Absent
    <3>1. "rabbitmq" \in Outbox!Channels
      BY DEF Outbox!Channels, Outbox!CHANNELS
    <3>2. outbox = [a \in Articles |-> [c \in Outbox!Channels |-> Outbox!Absent]]
      BY <2>1 DEF Init, Outbox!Init
    <3> QED
      BY <3>1, <3>2
  <2>3. missing = Articles
    BY <2>2 DEF missing, Outbox!Absent
  <2>4. indexed = {} /\ GivenUp = {}
    BY <2>1 DEF Init, Indexing!Init, GivenUp, Indexing!DeadLetters, Indexing!About,
       Indexing!Live, Indexing!NoMessage
  <2> QED
    BY <2>3, <2>4 DEF Promise!Init
<1>2. Indexing!Inv /\ JobsOK /\ [Next]_vars => [Promise!Next]_(Promise!vars)
  <2>1. SUFFICES ASSUME Indexing!Inv, JobsOK, [Next]_vars
                 PROVE  [Promise!Next]_(Promise!vars)
    OBVIOUS
  <2>2. CASE Outbox!Next /\ Seen
    BY <2>1, <2>2, SeenRefines
  <2>3. CASE Jobwise(Indexing!Next)
    <3>1. missing' = missing
      BY <2>3 DEF Jobwise, outboxVars, missing
    <3>2. Indexing!TypeOK
      BY <2>1 DEF Indexing!Inv
    <3>3. ASSUME NEW a \in Articles, NEW b, Indexing!Store(a) \/ Indexing!Submit(a, b)
          PROVE  FALSE
      <4>1. jobs' = jobs /\ jobs[a] \in Nat
        BY <2>3, <3>2, PartsAssumption
          DEF Jobwise, outboxVars, jobs, Indexing!TypeOK, Indexing!NumberAssumption
      <4>2. CASE Indexing!Store(a)
        BY <3>1, <4>2 DEF Indexing!Store
      <4>3. CASE Indexing!Submit(a, b)
        <5>1. jobs'[a] = jobs[a] + 1
          BY <4>3 DEF Indexing!Submit, jobs
        <5> QED
          BY <4>1, <5>1
      <4> QED
        BY <3>3, <4>2, <4>3
    <3>4. ASSUME NEW m \in Ids, Indexing!Expire(m)
          PROVE  UNCHANGED Promise!vars
      <4>1. PICK x : x = [broker[m] EXCEPT !.queue = "main"]
        OBVIOUS
      <4>2. x.queue = "main"
        <5>1. broker[m] \in Indexing!Stored
          BY <3>2, <3>4 DEF Indexing!Expire, Indexing!TypeOK, Indexing!NoMessage
        <5> QED
          BY <4>1, <5>1 DEF Indexing!Stored
      <4>3. broker[m].queue # "dlq" /\ broker' = [broker EXCEPT ![m] = x] /\ indexed' = indexed
        BY <3>4, <4>1 DEF Indexing!Expire
      <4>4. GivenUp' = GivenUp
        BY <3>2, <4>2, <4>3, OneMessageChanges
      <4> QED
        BY <3>1, <4>3, <4>4 DEF Promise!vars
    <3>5. ASSUME NEW s \in Slots, Indexing!Handle(s)
          PROVE  [Promise!Next]_(Promise!vars)
      BY <2>1, <3>1, <3>5, HandleRefines
    <3>6. ASSUME NEW s \in Slots, NEW m \in Ids, Indexing!Deliver(s, m)
          PROVE  UNCHANGED Promise!vars
      <4>1. broker' = broker /\ indexed' = indexed
        BY <3>6 DEF Indexing!Deliver
      <4> QED
        BY <3>1, <4>1, NothingGivenUp DEF Promise!vars
    <3>7. ASSUME NEW w \in Workers, Indexing!ConnectionLost(w) \/ Indexing!Restart(w)
          PROVE  UNCHANGED Promise!vars
      <4>1. broker' = broker /\ indexed' = indexed
        BY <3>7 DEF Indexing!ConnectionLost, Indexing!Restart
      <4> QED
        BY <3>1, <4>1, NothingGivenUp DEF Promise!vars
    <3> QED
      BY <2>3, <3>3, <3>4, <3>5, <3>6, <3>7 DEF Jobwise, Indexing!Next
  <2>4. CASE UNCHANGED vars
    <3>1. broker' = broker /\ indexed' = indexed /\ missing' = missing
      BY <2>4 DEF vars, outboxVars, indexingVars, missing
    <3> QED
      BY <3>1, NothingGivenUp DEF Promise!vars
  <2> QED
    BY <2>1, <2>2, <2>3, <2>4 DEF Next
<1> QED
  BY <1>1, <1>2, PartsInv, JobsInv, PTL DEF Spec, KeepsPromise, Promise!Spec
===============================================================================
