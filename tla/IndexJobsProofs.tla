--------------------------- MODULE IndexJobsProofs ---------------------------
(***************************************************************************)
(* What holds of the indexing jobs for any number of articles, messages,   *)
(* workers and tasks, any retry limit and any number of faults.            *)
(***************************************************************************)
EXTENDS IndexJobs, FiniteSetTheorems, TLAPS

\* A live message is stored in a queue and has a body.
LEMMA LiveIsStored ==
  ASSUME TypeOK, NEW m \in Live
  PROVE  m \in Ids /\ broker[m] \in Stored
BY DEF TypeOK, Live, NoMessage

\* A task that is not idle has a delivery.
LEMMA BusyHasWork ==
  ASSUME TypeOK, TasksOK, NEW s \in Slots, pc[s] # "idle"
  PROVE  /\ work[s] \in Deliveries
         /\ work[s].id \in Ids /\ work[s].body \in Bodies
         /\ Job(s) \in Articles
BY DEF TypeOK, TasksOK, Deliveries, Bodies, Job

\* Fault keeps the count of faults within its bound.
LEMMA FaultCounted ==
  ASSUME TypeOK, Fault
  PROVE  faults' \in 0..MaxFaults
BY NumberAssumption DEF TypeOK, Fault

\* A publication adds one message and leaves the others alone.
LEMMA PublishAdds ==
  ASSUME TypeOK, NEW q \in Queues, NEW b \in Bodies, Publish(q, b)
  PROVE  /\ broker' \in [Ids -> Stored \cup {NoMessage}]
         /\ \E m \in Ids \ Live :
              /\ broker'[m].queue = q /\ broker'[m].body = b
              /\ \A k \in Ids : k # m => broker'[k] = broker[k]
<1>1. PICK m \in Ids \ Live : broker' = [broker EXCEPT ![m] = [queue |-> q, body |-> b]]
  BY DEF Publish
<1>2. [queue |-> q, body |-> b] \in Stored
  BY DEF Stored
<1> QED
  BY <1>1, <1>2 DEF TypeOK

\* The invariant holds initially.
LEMMA InitInv == Init => Inv
<1> SUFFICES ASSUME Init PROVE Inv
  OBVIOUS
<1>1. Live = {}
  BY DEF Init, Live, NoMessage
<1>2. TypeOK
  BY NumberAssumption DEF Init, TypeOK
<1>3. TasksOK /\ DeliveriesOK /\ SettledOK /\ FailuresOK /\ NoJobLost
  BY <1>1, SlotAssumption DEF Init, TasksOK, DeliveriesOK, SettledOK, FailuresOK,
     NoJobLost, Accepted
<1> QED
  BY <1>2, <1>3 DEF Inv

-----------------------------------------------------------------------------
(* Steps in which tasks only end                                           *)

\* A step keeps the invariant if its tasks go on unchanged or end, its
\* messages stay, and new ones are about accepted jobs.
LEMMA QuietStep ==
  ASSUME Inv,
         \* tasks go on unchanged or end
         pc' \in [Slots -> {"idle", "read", "index", "move", "ack"}],
         work' \in [Slots -> Deliveries \cup {None}],
         \A s \in Slots : \/ pc'[s] = pc[s] /\ work'[s] = work[s]
                          \/ pc'[s] = "idle" /\ work'[s] = None,
         \* messages stay; new ones are about accepted jobs
         broker' \in [Ids -> Stored \cup {NoMessage}],
         \A m \in Live : /\ broker'[m].queue # "none"
                         /\ broker[m].queue = "dlq" => broker'[m].queue = "dlq"
                         /\ broker'[m].body = broker[m].body,
         \A m \in Ids \ Live : broker'[m].queue # "none" =>
           broker'[m].body.article \in Accepted' /\ HeaderOK(broker'[m].body),
         \* deliveries go on or end
         owner' \in [Ids -> Slots \cup {None}],
         \A m \in Ids : owner'[m] # None =>
           owner'[m] = owner[m] /\ broker'[m].queue = broker[m].queue,
         \* jobs are accepted with a message
         copies' \in [Articles -> 0..MaxCopies], Accepted \subseteq Accepted',
         \A a \in Accepted' \ Accepted :
           \E m \in Ids : broker'[m].queue # "none" /\ broker'[m].body.article = a,
         stopping' \in SUBSET Workers, missing' \in SUBSET Articles, indexed' = indexed,
         failed' = failed, faults' \in 0..MaxFaults
  PROVE  Inv'
<1>1. TypeOK /\ TasksOK /\ DeliveriesOK /\ SettledOK /\ FailuresOK /\ NoJobLost
  BY DEF Inv
<1>2. TypeOK'
  BY <1>1 DEF TypeOK
<1>3. TasksOK'
  BY <1>1 DEF TasksOK, Job
<1>4. DeliveriesOK'
  <2>1. ASSUME NEW m \in Live' PROVE broker'[m].body.article \in Accepted'
    BY <1>1, <2>1 DEF DeliveriesOK, Live
  <2>2. ASSUME NEW m \in Ids, owner'[m] # None PROVE broker'[m].queue = "main"
    BY <1>1, <2>2 DEF DeliveriesOK
  <2>3. ASSUME NEW m \in Ids, NEW s \in Slots, owner'[m] = s, pc'[s] # "idle", work'[s].id = m
        PROVE  work'[s].body = broker'[m].body
    <3>1. owner[m] = s /\ pc[s] # "idle" /\ work[s].id = m /\ work'[s] = work[s]
      BY <2>3, SlotAssumption
    <3>2. work[s].body = broker[m].body /\ m \in Live
      BY <1>1, <3>1, SlotAssumption DEF DeliveriesOK, Live
    <3> QED
      BY <3>1, <3>2
  <2> QED
    BY <2>1, <2>2, <2>3 DEF DeliveriesOK
<1>5. SettledOK'
  <2> SUFFICES ASSUME NEW s \in Slots, pc'[s] = "ack", work'[s].body.article \notin indexed'
               PROVE  \E m \in Ids :
                        /\ broker'[m].queue # "none"
                        /\ broker'[m].body.article = work'[s].body.article
                        /\ broker'[m].queue = "dlq"
                           \/ broker'[m].body.retry > work'[s].body.retry
    BY DEF SettledOK, Job, Supersedes, About, Live
  <2>1. pc[s] = "ack" /\ work'[s] = work[s]
    OBVIOUS
  <2>2. PICK m \in Live :
          /\ broker[m].body.article = work[s].body.article
          /\ broker[m].queue = "dlq" \/ broker[m].body.retry > work[s].body.retry
    BY <1>1, <2>1 DEF SettledOK, Job, Supersedes, About
  <2> QED
    BY <2>1, <2>2 DEF Live
<1>6. FailuresOK'
  <2>1. ASSUME NEW m \in Live' PROVE HeaderOK(broker'[m].body)
    BY <1>1, <2>1 DEF FailuresOK, Live
  <2>2. \A s \in Slots : pc'[s] # "idle" => pc[s] # "idle" /\ work'[s] = work[s]
    OBVIOUS
  <2> QED
    BY <1>1, <2>1, <2>2 DEF FailuresOK, HeaderOK, Job
<1>7. NoJobLost'
  <2> SUFFICES ASSUME NEW a \in Accepted', a \notin indexed'
               PROVE  \E m \in Ids : broker'[m].queue # "none" /\ broker'[m].body.article = a
    BY DEF NoJobLost, About, Live
  <2>1. CASE a \in Accepted
    BY <1>1, <2>1 DEF NoJobLost, About, Live
  <2> QED
    BY <2>1
<1> QED
  BY <1>2, <1>3, <1>4, <1>5, <1>6, <1>7 DEF Inv

\* Action Submit keeps the invariant.
LEMMA SubmitInv ==
  ASSUME Inv, NEW a \in Articles, NEW b \in Arrivals(a), Submit(a, b)
  PROVE  Inv'
<1>1. TypeOK
  BY DEF Inv
<1>2. b \in Bodies /\ b.article = a
  BY NumberAssumption DEF Arrivals, Bodies, Reasons
<1>3. HeaderOK(b)
  BY <1>1, NumberAssumption DEF Arrivals, HeaderOK, TypeOK
<1>4. PICK m \in Ids \ Live :
        /\ broker'[m].queue = "main" /\ broker'[m].body = b
        /\ \A k \in Ids : k # m => broker'[k] = broker[k]
  BY <1>1, <1>2, PublishAdds DEF Submit, Queues
<1>5. broker' \in [Ids -> Stored \cup {NoMessage}]
  BY <1>1, <1>2, PublishAdds DEF Submit, Queues
<1>6. \A k \in Live : broker'[k] = broker[k] /\ broker'[k].queue # "none"
  BY <1>4 DEF Live
<1>7. /\ copies' \in [Articles -> 0..MaxCopies] /\ Accepted' = Accepted \cup {a}
  BY <1>1, NumberAssumption DEF TypeOK, Accepted, Submit
<1>8. \A k \in Ids \ Live : broker'[k].queue # "none" =>
        broker'[k].body.article \in Accepted' /\ HeaderOK(broker'[k].body)
  BY <1>2, <1>3, <1>4, <1>7 DEF Live
<1>9. \A k \in Ids : owner'[k] # None =>
        owner'[k] = owner[k] /\ broker'[k].queue = broker[k].queue
  <2>1. owner[m] = None
    BY <1>1, <1>4 DEF Inv, DeliveriesOK, Live
  <2> QED
    BY <1>4, <2>1 DEF Submit
<1>10. /\ owner' = owner /\ pc' = pc /\ work' = work
       /\ stopping' = stopping /\ missing' = missing /\ indexed' = indexed
       /\ failed' = failed /\ faults' = faults
  BY DEF Submit, slotVars
<1> QED
  BY <1>1, <1>2, <1>4, <1>5, <1>6, <1>7, <1>8, <1>9, <1>10, QuietStep DEF TypeOK

\* Action Store keeps the invariant.
LEMMA StoreInv ==
  ASSUME Inv, NEW a \in Articles, Store(a)
  PROVE  Inv'
<1>1. TypeOK /\ DeliveriesOK
  BY DEF Inv
<1>2. /\ broker' = broker /\ owner' = owner /\ pc' = pc /\ work' = work
      /\ copies' = copies /\ Accepted' = Accepted /\ stopping' = stopping
      /\ indexed' = indexed /\ failed' = failed /\ faults' = faults
      /\ missing' = missing \ {a}
  BY DEF Store, brokerVars, slotVars, Accepted
<1> QED
  BY <1>1, <1>2, QuietStep DEF TypeOK, Live

\* Action Expire keeps the invariant.
LEMMA ExpireInv ==
  ASSUME Inv, NEW m \in Ids, Expire(m)
  PROVE  Inv'
<1>1. TypeOK /\ DeliveriesOK
  BY DEF Inv
<1>2. broker[m].queue = "retry" /\ broker' = [broker EXCEPT ![m].queue = "main"]
  BY DEF Expire
<1>3. broker[m] \in Stored
  BY <1>1, <1>2 DEF TypeOK, NoMessage
<1>4. /\ broker'[m] \in Stored /\ broker'[m].queue = "main"
      /\ broker'[m].body = broker[m].body
      /\ \A k \in Ids : k # m => broker'[k] = broker[k]
  BY <1>1, <1>2, <1>3 DEF TypeOK, Stored, Queues
<1>5. broker' \in [Ids -> Stored \cup {NoMessage}]
  BY <1>1, <1>2, <1>4 DEF TypeOK
<1>6. owner[m] = None
  BY <1>1, <1>2 DEF DeliveriesOK
<1>7. /\ owner' = owner /\ pc' = pc /\ work' = work /\ copies' = copies /\ Accepted' = Accepted
      /\ stopping' = stopping /\ missing' = missing /\ indexed' = indexed
      /\ failed' = failed /\ faults' = faults
  BY DEF Accepted, Expire, slotVars
<1>8. \A k \in Live : /\ broker'[k].queue # "none"
                      /\ broker[k].queue = "dlq" => broker'[k].queue = "dlq"
                      /\ broker'[k].body = broker[k].body
  BY <1>2, <1>4 DEF Live
<1>9. \A k \in Ids \ Live : broker'[k].queue = "none"
  BY <1>2, <1>4 DEF Live
<1>10. \A k \in Ids : owner'[k] # None =>
         owner'[k] = owner[k] /\ broker'[k].queue = broker[k].queue
  BY <1>4, <1>6, <1>7
<1> QED
  BY <1>1, <1>5, <1>7, <1>8, <1>9, <1>10, QuietStep DEF TypeOK

\* What Idle does: the task has no delivery any more, the others stay.
LEMMA IdleEnds ==
  ASSUME TypeOK, NEW s \in Slots, Idle(s)
  PROVE  /\ pc' \in [Slots -> {"idle", "read", "index", "move", "ack"}]
         /\ work' \in [Slots -> Deliveries \cup {None}]
         /\ pc'[s] = "idle" /\ work'[s] = None
         /\ \A t \in Slots : t # s => pc'[t] = pc[t] /\ work'[t] = work[t]
BY DEF TypeOK, Idle

\* The successor of a delivery whose fate is decided.
LEMMA SuccessorIsABody ==
  ASSUME Inv, NEW s \in Slots, pc[s] = "move"
  PROVE  /\ work[s].to \in Queues
         /\ Successor(s) \in Bodies
         /\ Successor(s).article = Job(s) /\ Job(s) \in Accepted
         /\ HeaderOK(Successor(s))
         /\ work[s].to = "dlq" \/ Successor(s).retry > work[s].body.retry
<1>1. TypeOK /\ TasksOK /\ FailuresOK
  BY DEF Inv
<1>2. work[s] \in Deliveries /\ work[s].body \in Bodies
  BY <1>1, BusyHasWork
<1> DEFINE d == work[s]
           b == d.body
           next == IF d.to = "retry" THEN b.retry + 1
                   ELSE IF d.reason = "InvalidRetryMetadata" THEN 0 ELSE b.retry
<1>3. d.to \in {"retry", "dlq"} /\ d.reason \in Reasons
  BY <1>1, <1>2 DEF TasksOK, Deliveries
<1>4. d.to = "retry" => b.retry < MaxRetries
  BY <1>1 DEF TasksOK
<1>5. b.retry \in 0..(MaxRetries + 1)
  BY <1>2 DEF Bodies
<1>6. next \in 0..(MaxRetries + 1) /\ (d.to = "retry" => next = b.retry + 1)
  BY <1>4, <1>5, NumberAssumption
<1>7. Successor(s) = [b EXCEPT !.reason = d.reason, !.retry = next]
  BY DEF Successor
<1>8. Job(s) = b.article /\ Job(s) \in Accepted
  BY <1>1 DEF Job, TasksOK
<1>9. failed[b.article] \in 0..(MaxRetries + 1)
  BY <1>1, <1>2 DEF TypeOK, Bodies
<1>10. /\ b.retry <= MaxRetries => failed[b.article] >= b.retry
       /\ d.to = "retry" => failed[b.article] > b.retry
       /\ d.reason = "RetriesExhausted" => failed[b.article] = MaxRetries + 1
  BY <1>1, <1>8 DEF FailuresOK, HeaderOK
<1>11. next <= MaxRetries => failed[b.article] >= next
  BY <1>3, <1>5, <1>9, <1>10, NumberAssumption
<1> HIDE DEF next, d, b
<1>12. /\ Successor(s) \in Bodies /\ Successor(s).article = b.article
       /\ Successor(s).retry = next /\ Successor(s).reason = d.reason
  BY <1>2, <1>3, <1>6, <1>7 DEF Bodies, d, b
<1>13. HeaderOK(Successor(s))
  BY <1>10, <1>11, <1>12 DEF HeaderOK
<1> QED
  BY <1>3, <1>5, <1>6, <1>8, <1>12, <1>13 DEF Queues, d, b

\* Action MoveFails keeps the invariant.
LEMMA MoveFailsInv ==
  ASSUME Inv, NEW s \in Slots, MoveFails(s)
  PROVE  Inv'
<1>1. TypeOK /\ DeliveriesOK
  BY DEF Inv
<1>2. /\ pc[s] = "move" /\ Idle(s) /\ stopping' = stopping \cup {WorkerOf[s]} /\ Fault
      /\ owner' = owner /\ copies' = copies /\ Accepted' = Accepted /\ missing' = missing
      /\ indexed' = indexed /\ failed' = failed
  BY DEF Accepted, MoveFails
<1>3. faults' \in 0..MaxFaults
  BY <1>1, <1>2, FaultCounted
<1>4. stopping' \in SUBSET Workers
  BY <1>1, <1>2, SlotAssumption DEF TypeOK
<1>5. /\ broker' \in [Ids -> Stored \cup {NoMessage}]
      /\ \A k \in Live : broker'[k] = broker[k]
      /\ \A k \in Ids \ Live : broker'[k].queue # "none" =>
           broker'[k].body.article \in Accepted' /\ HeaderOK(broker'[k].body)
  <2>1. CASE broker' = broker
    BY <1>1, <2>1 DEF TypeOK, Live
  <2>2. CASE Publish(work[s].to, Successor(s))
    <3>1. /\ work[s].to \in Queues /\ Successor(s) \in Bodies
          /\ Successor(s).article \in Accepted /\ HeaderOK(Successor(s))
      BY <1>2, SuccessorIsABody
    <3>2. PICK m \in Ids \ Live :
            /\ broker'[m].queue = work[s].to /\ broker'[m].body = Successor(s)
            /\ \A k \in Ids : k # m => broker'[k] = broker[k]
      BY <1>1, <2>2, <3>1, PublishAdds
    <3>3. broker' \in [Ids -> Stored \cup {NoMessage}]
      BY <1>1, <2>2, <3>1, PublishAdds
    <3> QED
      BY <1>2, <3>1, <3>2, <3>3 DEF Live
  <2> QED
    BY <2>1, <2>2 DEF MoveFails
<1>6. \A k \in Ids : owner'[k] # None =>
        owner'[k] = owner[k] /\ broker'[k].queue = broker[k].queue
  BY <1>1, <1>2, <1>5 DEF DeliveriesOK, Live
<1>7. \A k \in Live : broker'[k].queue # "none"
  BY <1>5 DEF Live
<1>8. /\ pc' \in [Slots -> {"idle", "read", "index", "move", "ack"}]
      /\ work' \in [Slots -> Deliveries \cup {None}]
      /\ \A t \in Slots : \/ pc'[t] = pc[t] /\ work'[t] = work[t]
                          \/ pc'[t] = "idle" /\ work'[t] = None
  BY <1>1, <1>2, IdleEnds
<1>9. owner' \in [Ids -> Slots \cup {None}] /\ Accepted \subseteq Accepted'
      /\ copies' \in [Articles -> 0..MaxCopies] /\ missing' \in SUBSET Articles
  BY <1>1, <1>2 DEF TypeOK
<1> QED
  BY <1>2, <1>3, <1>4, <1>5, <1>6, <1>7, <1>8, <1>9, QuietStep

\* Action StaleAck keeps the invariant.
LEMMA StaleAckInv ==
  ASSUME Inv, NEW s \in Slots, StaleAck(s)
  PROVE  Inv'
<1>1. TypeOK
  BY DEF Inv
<1>2. /\ Idle(s) /\ stopping' = stopping \cup {WorkerOf[s]} /\ broker' = broker
      /\ owner' = owner /\ copies' = copies /\ Accepted' = Accepted /\ missing' = missing
      /\ indexed' = indexed /\ failed' = failed /\ faults' = faults
  BY DEF Accepted, StaleAck, brokerVars
<1>3. stopping' \in SUBSET Workers
  BY <1>1, <1>2, SlotAssumption DEF TypeOK
<1>4. /\ pc' \in [Slots -> {"idle", "read", "index", "move", "ack"}]
      /\ work' \in [Slots -> Deliveries \cup {None}]
      /\ \A t \in Slots : \/ pc'[t] = pc[t] /\ work'[t] = work[t]
                          \/ pc'[t] = "idle" /\ work'[t] = None
  BY <1>1, <1>2, IdleEnds
<1> QED
  BY <1>1, <1>2, <1>3, <1>4, QuietStep DEF TypeOK, Live

\* What Requeue does: deliveries end, none begins.
LEMMA RequeueEnds ==
  ASSUME TypeOK, NEW w \in Workers, Requeue(w)
  PROVE  /\ owner' \in [Ids -> Slots \cup {None}]
         /\ \A m \in Ids : owner'[m] # None => owner'[m] = owner[m]
BY DEF TypeOK, Requeue

\* Action ConnectionLost keeps the invariant.
LEMMA ConnectionLostInv ==
  ASSUME Inv, NEW w \in Workers, ConnectionLost(w)
  PROVE  Inv'
<1>1. TypeOK
  BY DEF Inv
<1>2. /\ Requeue(w) /\ Fault /\ stopping' = stopping /\ broker' = broker
      /\ copies' = copies /\ Accepted' = Accepted /\ missing' = missing
      /\ indexed' = indexed /\ failed' = failed
  BY DEF Accepted, ConnectionLost
<1>3. /\ faults' \in 0..MaxFaults /\ owner' \in [Ids -> Slots \cup {None}]
      /\ \A m \in Ids : owner'[m] # None => owner'[m] = owner[m]
  BY <1>1, <1>2, FaultCounted, RequeueEnds
<1>4. /\ pc' \in [Slots -> {"idle", "read", "index", "move", "ack"}]
      /\ work' \in [Slots -> Deliveries \cup {None}]
      /\ \A t \in Slots : \/ pc'[t] = pc[t] /\ work'[t] = work[t]
                          \/ pc'[t] = "idle" /\ work'[t] = None
  <2>1. CASE UNCHANGED slotVars
    BY <1>1, <2>1 DEF slotVars, TypeOK
  <2>2. CASE \E s \in Slots : Idle(s)
    BY <1>1, <2>2, IdleEnds
  <2> QED
    BY <2>1, <2>2 DEF ConnectionLost
<1> QED
  BY <1>1, <1>2, <1>3, <1>4, QuietStep DEF TypeOK, Live

\* Action Restart keeps the invariant.
LEMMA RestartInv ==
  ASSUME Inv, NEW w \in Workers, Restart(w)
  PROVE  Inv'
<1>1. TypeOK
  BY DEF Inv
<1>2. /\ Requeue(w) /\ stopping' = stopping \ {w} /\ broker' = broker
      /\ copies' = copies /\ Accepted' = Accepted /\ missing' = missing
      /\ indexed' = indexed /\ failed' = failed
  BY DEF Accepted, Restart
<1>3. faults' \in 0..MaxFaults
  BY <1>1, FaultCounted DEF Restart, TypeOK
<1>4. /\ owner' \in [Ids -> Slots \cup {None}]
      /\ \A m \in Ids : owner'[m] # None => owner'[m] = owner[m]
  BY <1>1, <1>2, RequeueEnds
<1>5. /\ pc' \in [Slots -> {"idle", "read", "index", "move", "ack"}]
      /\ work' \in [Slots -> Deliveries \cup {None}]
      /\ \A t \in Slots : \/ pc'[t] = pc[t] /\ work'[t] = work[t]
                          \/ pc'[t] = "idle" /\ work'[t] = None
  BY <1>1 DEF Restart, TypeOK
<1> QED
  BY <1>1, <1>2, <1>3, <1>4, <1>5, QuietStep DEF TypeOK, Live

-----------------------------------------------------------------------------
(* Steps of one task                                                       *)

\* More failures never put a header ahead of them.
LEMMA HeaderStaysOK ==
  ASSUME NEW b \in Bodies, HeaderOK(b), failed \in [Articles -> 0..(MaxRetries + 1)],
         failed' \in [Articles -> 0..(MaxRetries + 1)],
         \A a \in Articles : failed'[a] >= failed[a]
  PROVE  /\ b.retry <= MaxRetries => failed'[b.article] >= b.retry
         /\ b.reason = "RetriesExhausted" => failed'[b.article] = MaxRetries + 1
<1>1. b.article \in Articles /\ b.retry \in Nat
  BY NumberAssumption DEF Bodies
<1>2. failed[b.article] \in 0..(MaxRetries + 1) /\ failed'[b.article] \in 0..(MaxRetries + 1)
      /\ failed'[b.article] >= failed[b.article]
  BY <1>1
<1> QED
  BY <1>1, <1>2, NumberAssumption DEF HeaderOK

\* A step of one task that goes on with its delivery keeps the invariant if
\* the new state of the task is in order and the messages stay.
LEMMA TaskStep ==
  ASSUME Inv, NEW s \in Slots, pc[s] # "idle",
         \* s goes on with its delivery
         pc' \in [Slots -> {"idle", "read", "index", "move", "ack"}],
         work' \in [Slots -> Deliveries \cup {None}],
         \A t \in Slots : t # s => pc'[t] = pc[t] /\ work'[t] = work[t],
         pc'[s] # "idle", work'[s] # None,
         work'[s].id = work[s].id, work'[s].body = work[s].body,
         pc'[s] \in {"read", "index"} => work[s].body.retry <= MaxRetries,
         pc'[s] = "move" => work'[s].to # "undecided",
         work'[s].to = "retry" => work[s].body.retry < MaxRetries /\
                                  failed'[Job(s)] > work[s].body.retry,
         work'[s].reason = "RetriesExhausted" => failed'[Job(s)] = MaxRetries + 1,
         pc'[s] = "ack" =>
           \/ Job(s) \in indexed'
           \/ \E m \in Ids : /\ broker'[m].queue # "none"
                             /\ broker'[m].body.article = Job(s)
                             /\ \/ broker'[m].queue = "dlq"
                                \/ broker'[m].body.retry > work[s].body.retry,
         \* messages stay; new ones are about accepted jobs
         broker' \in [Ids -> Stored \cup {NoMessage}],
         \A m \in Live : broker'[m] = broker[m],
         \A m \in Ids \ Live : broker'[m].queue # "none" =>
           /\ broker'[m].body.article \in Accepted
           /\ broker'[m].body \in Bodies /\ HeaderOK(broker'[m].body),
         owner' = owner, copies' = copies, Accepted' = Accepted, stopping' = stopping, missing' = missing,
         faults' = faults, indexed \subseteq indexed', indexed' \subseteq Articles,
         failed' \in [Articles -> 0..(MaxRetries + 1)],
         \A a \in Articles : failed'[a] >= failed[a]
  PROVE  Inv'
<1>1. TypeOK /\ TasksOK /\ DeliveriesOK /\ SettledOK /\ FailuresOK /\ NoJobLost
  BY DEF Inv
<1>2. TypeOK'
  BY <1>1 DEF TypeOK
<1>3. Job(s) = work[s].body.article /\ Job(s)' = work[s].body.article /\ Job(s) \in Accepted
  BY <1>1 DEF Job, TasksOK
<1>4. \A t \in Slots : t # s => Job(t)' = Job(t)
  BY DEF Job
<1>5. TasksOK'
  BY <1>1, <1>3, <1>4 DEF TasksOK
<1>6. DeliveriesOK'
  <2>1. ASSUME NEW m \in Live' PROVE broker'[m].body.article \in Accepted'
    BY <1>1, <2>1 DEF DeliveriesOK, Live
  <2>2. \A m \in Ids : owner[m] # None => broker'[m] = broker[m] /\ broker[m].queue = "main"
    BY <1>1 DEF DeliveriesOK, Live
  <2>3. ASSUME NEW m \in Ids, NEW t \in Slots, owner[m] = t, pc'[t] # "idle", work'[t].id = m
        PROVE  work'[t].body = broker'[m].body
    <3>1. pc[t] # "idle" /\ work[t].id = m /\ work'[t].body = work[t].body
      BY <2>3
    <3> QED
      BY <1>1, <2>2, <2>3, <3>1, SlotAssumption DEF DeliveriesOK
  <2> QED
    BY <2>1, <2>2, <2>3 DEF DeliveriesOK
<1>7. SettledOK'
  <2> SUFFICES ASSUME NEW t \in Slots, pc'[t] = "ack", work'[t].body.article \notin indexed'
               PROVE  \E m \in Ids :
                        /\ broker'[m].queue # "none"
                        /\ broker'[m].body.article = work'[t].body.article
                        /\ broker'[m].queue = "dlq"
                           \/ broker'[m].body.retry > work'[t].body.retry
    BY DEF SettledOK, Job, Supersedes, About, Live
  <2>1. CASE t = s
    BY <1>3, <2>1
  <2>2. CASE t # s
    <3>1. PICK m \in Live :
            /\ broker[m].body.article = work[t].body.article
            /\ broker[m].queue = "dlq" \/ broker[m].body.retry > work[t].body.retry
      BY <1>1, <2>2 DEF SettledOK, Job, Supersedes, About
    <3> QED
      BY <2>2, <3>1 DEF Live
  <2> QED
    BY <2>1, <2>2
<1>8. FailuresOK'
  <2>2. ASSUME NEW m \in Live'
        PROVE  HeaderOK(broker'[m].body) /\ broker'[m].body \in Bodies
    <3>1. CASE m \in Live
      <4>1. broker'[m] = broker[m] /\ HeaderOK(broker[m].body)
        BY <1>1, <3>1 DEF FailuresOK
      <4>2. broker[m].body \in Bodies
        BY <1>1, <3>1, LiveIsStored DEF Stored
      <4> QED
        BY <4>1, <4>2
    <3>2. CASE m \notin Live
      BY <2>2, <3>2 DEF Live
    <3> QED
      BY <3>1, <3>2
  <2>3. ASSUME NEW m \in Live' PROVE HeaderOK(broker[m].body)'
    BY <1>1, <2>2, <2>3, HeaderStaysOK DEF HeaderOK, TypeOK
  <2>4. ASSUME NEW t \in Slots, pc[t] # "idle"
        PROVE  HeaderOK(work[t].body) /\ work[t].body \in Bodies /\ Job(t) \in Articles
    BY <1>1, <2>4, BusyHasWork DEF FailuresOK
  <2>5. ASSUME NEW t \in Slots, pc'[t] # "idle" PROVE HeaderOK(work[t].body)'
    <3>1. pc[t] # "idle" /\ work'[t].body = work[t].body
      BY <2>5
    <3> QED
      BY <1>1, <2>4, <3>1, HeaderStaysOK DEF HeaderOK, TypeOK
  <2>6. ASSUME NEW t \in Slots, pc'[t] # "idle"
        PROVE  /\ work'[t].to = "retry" => failed'[Job(t)'] > work'[t].body.retry
               /\ work'[t].reason = "RetriesExhausted" => failed'[Job(t)'] = MaxRetries + 1
    <3>1. CASE t = s
      BY <1>3, <3>1
    <3>2. CASE t # s
      <4>1. pc[t] # "idle" /\ work'[t] = work[t] /\ Job(t)' = Job(t)
        BY <1>4, <2>6, <3>2
      <4>2. /\ Job(t) \in Articles
            /\ work[t].to = "retry" => failed[Job(t)] > work[t].body.retry
            /\ work[t].reason = "RetriesExhausted" => failed[Job(t)] = MaxRetries + 1
        BY <1>1, <2>4, <4>1 DEF FailuresOK
      <4>3. /\ failed[Job(t)] \in 0..(MaxRetries + 1) /\ failed'[Job(t)] \in 0..(MaxRetries + 1)
            /\ failed'[Job(t)] >= failed[Job(t)]
        BY <1>1, <4>2 DEF TypeOK
      <4>4. work[t].body.retry \in Nat
        BY <2>4, <4>1, NumberAssumption DEF Bodies
      <4> QED
        BY <4>1, <4>2, <4>3, <4>4, NumberAssumption
    <3> QED
      BY <3>1, <3>2
  <2> QED
    BY <2>3, <2>5, <2>6 DEF FailuresOK
<1>9. NoJobLost'
  BY <1>1 DEF NoJobLost, About, Live
<1> QED
  BY <1>2, <1>5, <1>6, <1>7, <1>8, <1>9 DEF Inv

\* What Decide does to the task.
LEMMA DecideDecides ==
  ASSUME TypeOK, NEW s \in Slots, work[s] \in Deliveries, NEW q \in {"retry", "dlq"},
         NEW why \in Reasons, Decide(s, q, why)
  PROVE  /\ pc' \in [Slots -> {"idle", "read", "index", "move", "ack"}]
         /\ work' \in [Slots -> Deliveries \cup {None}]
         /\ pc'[s] = "move" /\ work'[s] \in Deliveries
         /\ work'[s].id = work[s].id /\ work'[s].body = work[s].body
         /\ work'[s].to = q /\ work'[s].reason = why
         /\ \A t \in Slots : t # s => pc'[t] = pc[t] /\ work'[t] = work[t]
<1> DEFINE d == work[s]
           new == [d EXCEPT !.to = q, !.reason = why]
<1>1. new \in Deliveries /\ new.id = d.id /\ new.body = d.body /\ new.to = q /\ new.reason = why
  BY DEF Deliveries
<1>2. work' = [work EXCEPT ![s] = new]
  BY DEF Decide
<1> HIDE DEF new
<1> QED
  BY <1>1, <1>2 DEF TypeOK, Decide

\* Action ReadArticle keeps the invariant.
LEMMA ReadArticleInv ==
  ASSUME Inv, NEW s \in Slots, ReadArticle(s)
  PROVE  Inv'
<1>1. TypeOK /\ TasksOK /\ FailuresOK
  BY DEF Inv
<1>2. /\ pc[s] = "read" /\ broker' = broker /\ owner' = owner /\ copies' = copies /\ Accepted' = Accepted
      /\ stopping' = stopping /\ missing' = missing /\ faults' = faults
      /\ indexed' = indexed /\ failed' = failed
  BY DEF Accepted, ReadArticle, brokerVars
<1>3. work[s] \in Deliveries
  BY <1>1, <1>2, BusyHasWork
<1>4. CASE Decide(s, "dlq", "ArticleMissing")
  <2>1. /\ pc' \in [Slots -> {"idle", "read", "index", "move", "ack"}]
        /\ work' \in [Slots -> Deliveries \cup {None}]
        /\ pc'[s] = "move" /\ work'[s] \in Deliveries
        /\ work'[s].id = work[s].id /\ work'[s].body = work[s].body
        /\ work'[s].to = "dlq" /\ work'[s].reason = "ArticleMissing"
        /\ \A t \in Slots : t # s => pc'[t] = pc[t] /\ work'[t] = work[t]
    BY <1>1, <1>3, <1>4, DecideDecides DEF Reasons
  <2> QED
    BY <1>1, <1>2, <2>1, TaskStep, NumberAssumption, NoneAssumption DEF TypeOK, Live
<1>5. CASE pc' = [pc EXCEPT ![s] = "index"] /\ UNCHANGED work
  <2>1. pc'[s] = "index" /\ \A t \in Slots : t # s => pc'[t] = pc[t]
    BY <1>1, <1>5 DEF TypeOK
  <2>2. /\ pc' \in [Slots -> {"idle", "read", "index", "move", "ack"}]
        /\ work' \in [Slots -> Deliveries \cup {None}] /\ work'[s] # None
    BY <1>1, <1>2, <1>3, <1>5, NoneAssumption DEF TypeOK
  <2>3. /\ work[s].body.retry <= MaxRetries
        /\ work[s].to = "retry" => work[s].body.retry < MaxRetries /\
                                   failed[Job(s)] > work[s].body.retry
        /\ work[s].reason = "RetriesExhausted" => failed[Job(s)] = MaxRetries + 1
    BY <1>1, <1>2 DEF TasksOK, FailuresOK
  <2> QED
    BY <1>1, <1>2, <1>5, <2>1, <2>2, <2>3, TaskStep, NumberAssumption DEF TypeOK, Live
<1> QED
  BY <1>4, <1>5 DEF ReadArticle

\* Action IndexArticle keeps the invariant.
LEMMA IndexArticleInv ==
  ASSUME Inv, NEW s \in Slots, IndexArticle(s)
  PROVE  Inv'
<1>1. TypeOK /\ TasksOK /\ FailuresOK
  BY DEF Inv
<1>2. /\ pc[s] = "index" /\ pc' = [pc EXCEPT ![s] = "ack"] /\ work' = work
      /\ indexed' = indexed \cup {Job(s)}
      /\ broker' = broker /\ owner' = owner /\ copies' = copies /\ Accepted' = Accepted
      /\ stopping' = stopping /\ missing' = missing /\ faults' = faults
      /\ failed' = failed
  BY DEF Accepted, IndexArticle, brokerVars
<1>3. work[s] \in Deliveries /\ Job(s) \in Articles
  BY <1>1, <1>2, BusyHasWork
<1>4. /\ pc' \in [Slots -> {"idle", "read", "index", "move", "ack"}] /\ pc'[s] = "ack"
      /\ \A t \in Slots : t # s => pc'[t] = pc[t]
      /\ work' \in [Slots -> Deliveries \cup {None}] /\ work'[s] # None
  BY <1>1, <1>2, <1>3, NoneAssumption DEF TypeOK
<1>5. /\ work[s].to = "retry" => work[s].body.retry < MaxRetries /\
                                 failed[Job(s)] > work[s].body.retry
      /\ work[s].reason = "RetriesExhausted" => failed[Job(s)] = MaxRetries + 1
  BY <1>1, <1>2 DEF TasksOK, FailuresOK
<1> QED
  BY <1>1, <1>2, <1>3, <1>4, <1>5, TaskStep, NumberAssumption DEF TypeOK, Live

\* Action ProcessingFails keeps the invariant.
LEMMA ProcessingFailsInv ==
  ASSUME Inv, NEW s \in Slots, ProcessingFails(s)
  PROVE  Inv'
<1>1. TypeOK /\ TasksOK /\ FailuresOK
  BY DEF Inv
<1>2. /\ pc[s] \in {"read", "index"}
      /\ failed' = [failed EXCEPT ![Job(s)] = IF @ > MaxRetries THEN @ ELSE @ + 1]
      /\ indexed' = indexed \/ indexed' = indexed \cup {Job(s)}
      /\ broker' = broker /\ owner' = owner /\ copies' = copies /\ Accepted' = Accepted
      /\ stopping' = stopping /\ missing' = missing /\ faults' = faults
  BY DEF Accepted, ProcessingFails, brokerVars
<1>3. work[s] \in Deliveries /\ work[s].body \in Bodies /\ Job(s) \in Articles
  BY <1>1, <1>2, BusyHasWork
<1> DEFINE r == work[s].body.retry
           n == failed[Job(s)]
           n2 == failed'[Job(s)]
<1>4. r \in Nat /\ r <= MaxRetries /\ n \in 0..(MaxRetries + 1)
  BY <1>1, <1>2, <1>3, NumberAssumption DEF Bodies, TasksOK, TypeOK
<1>5. n >= r
  BY <1>1, <1>2, <1>4 DEF FailuresOK, HeaderOK, Job
<1>6. n2 = IF n > MaxRetries THEN n ELSE n + 1
  BY <1>1, <1>2, <1>3 DEF TypeOK
<1>7. n2 \in 0..(MaxRetries + 1) /\ n2 >= n
  BY <1>4, <1>6, NumberAssumption
<1>8. n2 > r /\ (~ (r < MaxRetries) => n2 = MaxRetries + 1)
  BY <1>4, <1>5, <1>6, NumberAssumption
<1>9. \A a \in Articles : a # Job(s) => failed'[a] = failed[a]
  BY <1>1, <1>2, <1>3 DEF TypeOK
<1>10. /\ failed' \in [Articles -> 0..(MaxRetries + 1)]
       /\ \A a \in Articles : failed'[a] >= failed[a]
  <2>1. DOMAIN failed' = Articles /\ failed' = [a \in Articles |-> failed'[a]]
    BY <1>1, <1>2 DEF TypeOK
  <2>2. \A a \in Articles : failed[a] \in 0..(MaxRetries + 1)
    BY <1>1 DEF TypeOK
  <2>3. \A a \in Articles : failed'[a] \in 0..(MaxRetries + 1) /\ failed'[a] >= failed[a]
    <3> SUFFICES ASSUME NEW a \in Articles
                 PROVE  failed'[a] \in 0..(MaxRetries + 1) /\ failed'[a] >= failed[a]
      OBVIOUS
    <3>1. CASE a = Job(s)
      BY <1>7, <3>1
    <3>2. CASE a # Job(s)
      BY <1>9, <2>2, <3>2, NumberAssumption
    <3> QED
      BY <3>1, <3>2
  <2> QED
    BY <2>1, <2>3
<1>11. indexed \subseteq indexed' /\ indexed' \subseteq Articles
  BY <1>1, <1>2, <1>3 DEF TypeOK
<1> HIDE DEF n, n2
<1>12. CASE r < MaxRetries
  <2>1. Decide(s, "retry", "ProcessingError")
    BY <1>12 DEF ProcessingFails
  <2>2. /\ pc' \in [Slots -> {"idle", "read", "index", "move", "ack"}]
        /\ work' \in [Slots -> Deliveries \cup {None}]
        /\ pc'[s] = "move" /\ work'[s] \in Deliveries
        /\ work'[s].id = work[s].id /\ work'[s].body = work[s].body
        /\ work'[s].to = "retry" /\ work'[s].reason = "ProcessingError"
        /\ \A t \in Slots : t # s => pc'[t] = pc[t] /\ work'[t] = work[t]
    BY <1>1, <1>3, <2>1, DecideDecides DEF Reasons
  <2> QED
    BY <1>1, <1>2, <1>8, <1>10, <1>11, <1>12, <2>2, TaskStep, NoneAssumption
       DEF TypeOK, Live, n2
<1>13. CASE ~ (r < MaxRetries)
  <2>1. Decide(s, "dlq", "RetriesExhausted")
    BY <1>13 DEF ProcessingFails
  <2>2. /\ pc' \in [Slots -> {"idle", "read", "index", "move", "ack"}]
        /\ work' \in [Slots -> Deliveries \cup {None}]
        /\ pc'[s] = "move" /\ work'[s] \in Deliveries
        /\ work'[s].id = work[s].id /\ work'[s].body = work[s].body
        /\ work'[s].to = "dlq" /\ work'[s].reason = "RetriesExhausted"
        /\ \A t \in Slots : t # s => pc'[t] = pc[t] /\ work'[t] = work[t]
    BY <1>1, <1>3, <2>1, DecideDecides DEF Reasons
  <2> QED
    BY <1>1, <1>2, <1>8, <1>10, <1>11, <1>13, <2>2, TaskStep, NoneAssumption
       DEF TypeOK, Live, n2
<1> QED
  BY <1>12, <1>13

\* Action Move keeps the invariant.
LEMMA MoveInv ==
  ASSUME Inv, NEW s \in Slots, Move(s)
  PROVE  Inv'
<1>1. TypeOK /\ TasksOK /\ FailuresOK
  BY DEF Inv
<1>2. /\ pc[s] = "move" /\ pc' = [pc EXCEPT ![s] = "ack"] /\ work' = work
      /\ Publish(work[s].to, Successor(s))
      /\ indexed' = indexed /\ owner' = owner /\ copies' = copies /\ Accepted' = Accepted
      /\ stopping' = stopping /\ missing' = missing /\ faults' = faults
      /\ failed' = failed
  BY DEF Accepted, Move
<1>3. work[s] \in Deliveries /\ Job(s) \in Articles
  BY <1>1, <1>2, BusyHasWork
<1>4. /\ work[s].to \in Queues /\ Successor(s) \in Bodies
      /\ Successor(s).article = Job(s) /\ Job(s) \in Accepted /\ HeaderOK(Successor(s))
      /\ work[s].to = "dlq" \/ Successor(s).retry > work[s].body.retry
  BY <1>2, SuccessorIsABody
<1>5. broker' \in [Ids -> Stored \cup {NoMessage}]
  BY <1>1, <1>2, <1>4, PublishAdds
<1>6. PICK m \in Ids \ Live :
        /\ broker'[m].queue = work[s].to /\ broker'[m].body = Successor(s)
        /\ \A k \in Ids : k # m => broker'[k] = broker[k]
  BY <1>1, <1>2, <1>4, PublishAdds
<1>7. /\ \A k \in Live : broker'[k] = broker[k]
      /\ \A k \in Ids \ Live : broker'[k].queue # "none" =>
           /\ broker'[k].body.article \in Accepted
           /\ broker'[k].body \in Bodies /\ HeaderOK(broker'[k].body)
  BY <1>4, <1>6 DEF Live
<1>8. \E k \in Ids : /\ broker'[k].queue # "none" /\ broker'[k].body.article = Job(s)
                     /\ broker'[k].queue = "dlq" \/ broker'[k].body.retry > work[s].body.retry
  BY <1>4, <1>6 DEF Queues
<1>9. /\ pc' \in [Slots -> {"idle", "read", "index", "move", "ack"}] /\ pc'[s] = "ack"
      /\ \A t \in Slots : t # s => pc'[t] = pc[t]
      /\ work' \in [Slots -> Deliveries \cup {None}] /\ work'[s] # None
  BY <1>1, <1>2, <1>3, NoneAssumption DEF TypeOK
<1>10. /\ work[s].to = "retry" => work[s].body.retry < MaxRetries /\
                                  failed[Job(s)] > work[s].body.retry
       /\ work[s].reason = "RetriesExhausted" => failed[Job(s)] = MaxRetries + 1
  BY <1>1, <1>2 DEF TasksOK, FailuresOK
<1>11. \A a \in Articles : failed[a] >= failed[a]
  BY <1>1, NumberAssumption DEF TypeOK
<1> HIDE DEF HeaderOK
<1> QED
  BY <1>1, <1>2, <1>5, <1>7, <1>8, <1>9, <1>10, <1>11, TaskStep DEF TypeOK

\* Action Deliver keeps the invariant.
LEMMA DeliverInv ==
  ASSUME Inv, NEW s \in Slots, NEW m \in Ids, Deliver(s, m)
  PROVE  Inv'
<1>1. TypeOK /\ TasksOK /\ DeliveriesOK /\ SettledOK /\ FailuresOK /\ NoJobLost
  BY DEF Inv
<1> DEFINE b == broker[m].body
           v == Verdict(b)
           new == [id |-> m, body |-> b,
                   to |-> IF v = "none" THEN "undecided" ELSE "dlq", reason |-> v]
<1>2. /\ pc[s] = "idle" /\ broker[m].queue = "main" /\ owner[m] = None
      /\ owner' = [owner EXCEPT ![m] = s]
      /\ pc' = [pc EXCEPT ![s] = IF v = "none" THEN "read" ELSE "move"]
      /\ work' = [work EXCEPT ![s] = new]
      /\ broker' = broker /\ stopping' = stopping /\ missing' = missing
      /\ copies' = copies /\ Accepted' = Accepted /\ indexed' = indexed /\ failed' = failed /\ faults' = faults
  BY DEF Accepted, Deliver
<1>3. m \in Live /\ b \in Bodies
  BY <1>2, <1>1, LiveIsStored DEF Live, Stored
<1>4. /\ v \in Reasons /\ v # "RetriesExhausted"
      /\ v = "none" => b.retry <= MaxRetries
  <2>1. b.form \in {"valid", "badCount", "badSchema"} /\ b.retry \in Nat
    BY <1>3, NumberAssumption DEF Bodies
  <2>2. CASE b.form = "badCount"
    BY <2>2 DEF Verdict, Reasons
  <2>3. CASE b.form = "badSchema"
    BY <2>3 DEF Verdict, Reasons
  <2>4. CASE b.form = "valid" /\ b.retry > MaxRetries
    BY <2>4 DEF Verdict, Reasons
  <2>5. CASE b.form = "valid" /\ ~ (b.retry > MaxRetries)
    BY <2>1, <2>5, NumberAssumption DEF Verdict, Reasons
  <2> QED
    BY <2>1, <2>2, <2>3, <2>4, <2>5
<1> HIDE DEF b, v
<1>5. new \in Deliveries /\ new # None
  BY <1>3, <1>4, NoneAssumption DEF Deliveries
<1>6. /\ pc'[s] \in {"read", "move"} /\ (pc'[s] = "read" => v = "none")
      /\ work'[s] = new
      /\ \A t \in Slots : t # s => pc'[t] = pc[t] /\ work'[t] = work[t]
  BY <1>1, <1>2 DEF TypeOK
<1>7. TypeOK'
  BY <1>1, <1>2, <1>5 DEF TypeOK
<1>8. b.article \in Accepted
  BY <1>1, <1>3 DEF DeliveriesOK, b
<1>9. Job(s)' = b.article /\ \A t \in Slots : t # s => Job(t)' = Job(t)
  BY <1>6 DEF Job
<1>10. TasksOK'
  <2> SUFFICES ASSUME NEW t \in Slots
               PROVE  /\ pc'[t] = "idle" <=> work'[t] = None
                      /\ pc'[t] # "idle" => Job(t)' \in Accepted'
                      /\ pc'[t] \in {"read", "index"} => work'[t].body.retry <= MaxRetries
                      /\ pc'[t] = "move" => work'[t].to # "undecided"
                      /\ pc'[t] # "idle" /\ work'[t].to = "retry" =>
                           work'[t].body.retry < MaxRetries
    BY DEF TasksOK
  <2>1. CASE t = s
    <3>1. pc'[s] = "move" => new.to = "dlq"
      BY <1>1, <1>2, <1>6 DEF TypeOK
    <3>2. new.to # "retry" /\ new.body = b
      OBVIOUS
    <3> QED
      BY <1>2, <1>4, <1>5, <1>6, <1>8, <1>9, <2>1, <3>1, <3>2
  <2>2. CASE t # s
    BY <1>1, <1>2, <1>6, <1>9, <2>2 DEF TasksOK
  <2> QED
    BY <2>1, <2>2
<1>11. DeliveriesOK'
  <2>1. \A k \in Live' : broker'[k].body.article \in Accepted'
    BY <1>1, <1>2 DEF DeliveriesOK, Live
  <2>2. \A k \in Ids : owner'[k] # None => broker'[k].queue = "main"
    BY <1>1, <1>2 DEF DeliveriesOK, TypeOK
  <2>3. ASSUME NEW k \in Ids, NEW t \in Slots, owner'[k] = t, pc'[t] # "idle", work'[t].id = k
        PROVE  work'[t].body = broker'[k].body
    <3>1. CASE t = s
      <4>1. k = m
        BY <1>6, <2>3, <3>1
      <4> QED
        BY <1>2, <1>6, <3>1, <4>1 DEF b
    <3>2. CASE t # s
      <4>1. k # m /\ owner[k] = t
        BY <1>1, <1>2, <2>3, <3>2 DEF TypeOK
      <4> QED
        BY <1>1, <1>2, <1>6, <2>3, <3>2, <4>1 DEF DeliveriesOK
    <3> QED
      BY <3>1, <3>2
  <2> QED
    BY <2>1, <2>2, <2>3 DEF DeliveriesOK
<1>12. SettledOK'
  <2>1. \A t \in Slots : pc'[t] = "ack" => t # s /\ pc[t] = "ack" /\ work'[t] = work[t]
    BY <1>6
  <2> QED
    BY <1>1, <1>2, <2>1 DEF SettledOK, Supersedes, About, Live, Job
<1>13. FailuresOK'
  <2>1. \A k \in Live' : HeaderOK(broker[k].body)'
    BY <1>1, <1>2 DEF FailuresOK, HeaderOK, Live
  <2>2. HeaderOK(b)
    BY <1>1, <1>3 DEF FailuresOK, b
  <2>3. ASSUME NEW t \in Slots, pc'[t] # "idle"
        PROVE  /\ HeaderOK(work[t].body)'
               /\ work'[t].to = "retry" => failed'[Job(t)'] > work'[t].body.retry
               /\ work'[t].reason = "RetriesExhausted" => failed'[Job(t)'] = MaxRetries + 1
    <3>1. CASE t = s
      <4>1. new.to # "retry" /\ new.body = b /\ new.reason = v
        OBVIOUS
      <4> QED
        BY <1>2, <1>4, <1>6, <2>2, <3>1, <4>1 DEF HeaderOK
    <3>2. CASE t # s
      <4>1. pc[t] # "idle" /\ work'[t] = work[t] /\ Job(t)' = Job(t)
        BY <1>6, <1>9, <2>3, <3>2
      <4> QED
        BY <1>1, <1>2, <4>1 DEF FailuresOK, HeaderOK
    <3> QED
      BY <3>1, <3>2
  <2> QED
    BY <2>1, <2>3 DEF FailuresOK
<1>14. NoJobLost'
  BY <1>1, <1>2 DEF NoJobLost, About, Live
<1> QED
  BY <1>7, <1>10, <1>11, <1>12, <1>13, <1>14 DEF Inv

\* Action Ack keeps the invariant.
LEMMA AckInv ==
  ASSUME Inv, NEW s \in Slots, Ack(s)
  PROVE  Inv'
<1>1. TypeOK /\ TasksOK /\ DeliveriesOK /\ SettledOK /\ FailuresOK /\ NoJobLost
  BY DEF Inv
<1> DEFINE m == work[s].id
           a == Job(s)
           r == work[s].body.retry
<1>2. /\ pc[s] = "ack" /\ owner[m] = s /\ Idle(s)
      /\ broker' = [broker EXCEPT ![m] = NoMessage]
      /\ owner' = [owner EXCEPT ![m] = None]
      /\ stopping' = stopping /\ missing' = missing /\ copies' = copies /\ Accepted' = Accepted
      /\ indexed' = indexed /\ failed' = failed /\ faults' = faults
  BY DEF Accepted, Ack
<1>3. m \in Ids /\ a \in Articles /\ work[s].body \in Bodies /\ r \in Nat
  BY <1>1, <1>2, BusyHasWork, NumberAssumption DEF Bodies
<1>4. broker[m].queue = "main" /\ broker[m].body = work[s].body
  BY <1>1, <1>2, <1>3, SlotAssumption DEF DeliveriesOK
<1>5. a = work[s].body.article
  BY DEF Job
<1> HIDE DEF m, a, r
<1>6. /\ pc' \in [Slots -> {"idle", "read", "index", "move", "ack"}]
      /\ work' \in [Slots -> Deliveries \cup {None}]
      /\ pc'[s] = "idle" /\ work'[s] = None
      /\ \A t \in Slots : t # s => pc'[t] = pc[t] /\ work'[t] = work[t]
  BY <1>1, <1>2, IdleEnds
<1>7. /\ broker'[m].queue = "none"
      /\ \A k \in Ids : k # m => broker'[k] = broker[k] /\ owner'[k] = owner[k]
      /\ owner'[m] = None
  BY <1>1, <1>2, <1>3 DEF TypeOK, NoMessage
<1>8. \A k \in Live' : k \in Live /\ k # m /\ broker'[k] = broker[k]
  BY <1>7 DEF Live
<1>9. \A k \in Live : k # m => k \in Live'
  BY <1>7 DEF Live
<1>10. TypeOK'
  BY <1>1, <1>2, <1>6 DEF TypeOK
<1>11. TasksOK'
  BY <1>1, <1>2, <1>6 DEF TasksOK, Job
<1>12. DeliveriesOK'
  <2>1. \A k \in Live' : broker'[k].body.article \in Accepted'
    BY <1>1, <1>2, <1>8 DEF DeliveriesOK
  <2>2. \A k \in Ids : owner'[k] # None => broker'[k].queue = "main"
    BY <1>1, <1>7 DEF DeliveriesOK
  <2>3. ASSUME NEW k \in Ids, NEW t \in Slots, owner'[k] = t, pc'[t] # "idle", work'[t].id = k
        PROVE  work'[t].body = broker'[k].body
    <3>1. k # m /\ t # s
      BY <1>6, <1>7, <2>3, SlotAssumption
    <3> QED
      BY <1>1, <1>6, <1>7, <2>3, <3>1 DEF DeliveriesOK
  <2> QED
    BY <2>1, <2>2, <2>3 DEF DeliveriesOK
<1>13. a \in indexed \/ \E k \in Live \ {m} :
         /\ broker[k].body.article = a
         /\ broker[k].queue = "dlq" \/ broker[k].body.retry > r
  <2> SUFFICES ASSUME a \notin indexed
               PROVE  \E k \in Live \ {m} :
                        /\ broker[k].body.article = a
                        /\ broker[k].queue = "dlq" \/ broker[k].body.retry > r
    OBVIOUS
  <2>1. PICK k \in Ids : Supersedes(k, Job(s), work[s].body.retry)
    BY <1>1, <1>2 DEF SettledOK, a
  <2>2. k \in Live /\ broker[k].body.article = a
        /\ (broker[k].queue = "dlq" \/ broker[k].body.retry > r)
    BY <2>1 DEF Supersedes, About, a, r
  <2>3. k # m
    BY <1>3, <1>4, <2>2 DEF r
  <2> QED
    BY <2>2, <2>3
<1>14. SettledOK'
  <2> SUFFICES ASSUME NEW t \in Slots, pc'[t] = "ack", work'[t].body.article \notin indexed'
               PROVE  \E k \in Ids :
                        /\ broker'[k].queue # "none"
                        /\ broker'[k].body.article = work'[t].body.article
                        /\ broker'[k].queue = "dlq"
                           \/ broker'[k].body.retry > work'[t].body.retry
    BY DEF SettledOK, Job, Supersedes, About, Live
  <2>1. t # s /\ pc[t] = "ack" /\ work'[t] = work[t]
    BY <1>6
  <2>2. work[t].body \in Bodies /\ work[t].body.retry \in Nat
    BY <1>1, <2>1, BusyHasWork, NumberAssumption DEF Bodies
  <2>3. PICK k \in Live :
          /\ broker[k].body.article = work[t].body.article
          /\ broker[k].queue = "dlq" \/ broker[k].body.retry > work[t].body.retry
    BY <1>1, <1>2, <2>1 DEF SettledOK, Job, Supersedes, About
  <2>4. CASE k # m
    BY <1>7, <2>1, <2>3, <2>4 DEF Live
  <2>5. CASE k = m
    <3>1. a = work[t].body.article /\ r > work[t].body.retry
      BY <1>4, <1>5, <2>3, <2>5 DEF r
    <3>2. PICK j \in Live \ {m} :
            /\ broker[j].body.article = a
            /\ broker[j].queue = "dlq" \/ broker[j].body.retry > r
      BY <1>2, <1>13, <2>1, <3>1
    <3>3. broker[j].body.retry \in Nat
      BY <1>1, <3>2, LiveIsStored, NumberAssumption DEF Stored, Bodies
    <3>4. broker[j].queue = "dlq" \/ broker[j].body.retry > work[t].body.retry
      BY <1>3, <2>2, <3>1, <3>2, <3>3
    <3> QED
      BY <1>7, <2>1, <3>1, <3>2, <3>4 DEF Live
  <2> QED
    BY <2>4, <2>5
<1>15. FailuresOK'
  <2>1. \A k \in Live' : HeaderOK(broker[k].body)'
    BY <1>1, <1>2, <1>8 DEF FailuresOK, HeaderOK
  <2>2. \A t \in Slots : pc'[t] # "idle" => t # s /\ pc[t] # "idle" /\ work'[t] = work[t]
    BY <1>6
  <2> QED
    BY <1>1, <1>2, <2>1, <2>2 DEF FailuresOK, HeaderOK, Job
<1>16. NoJobLost'
  <2> SUFFICES ASSUME NEW b \in Accepted, b \notin indexed
               PROVE  \E k \in Ids : broker'[k].queue # "none" /\ broker'[k].body.article = b
    BY <1>2 DEF NoJobLost, About, Live
  <2>1. PICK k \in Live : broker[k].body.article = b
    BY <1>1 DEF NoJobLost, About
  <2>2. CASE k # m
    BY <1>7, <2>1, <2>2 DEF Live
  <2>3. CASE k = m
    BY <1>4, <1>5, <1>7, <1>13, <2>1, <2>3 DEF Live
  <2> QED
    BY <2>2, <2>3
<1> QED
  BY <1>10, <1>11, <1>12, <1>14, <1>15, <1>16 DEF Inv

-----------------------------------------------------------------------------
(* The theorems                                                            *)

\* A stuttering step keeps the invariant.
LEMMA StutterInv ==
  ASSUME Inv, UNCHANGED vars
  PROVE  Inv'
<1>1. /\ broker' = broker /\ owner' = owner /\ pc' = pc /\ work' = work
      /\ stopping' = stopping /\ missing' = missing /\ copies' = copies /\ Accepted' = Accepted
      /\ indexed' = indexed /\ failed' = failed /\ faults' = faults
  BY DEF Accepted, vars
<1>2. TypeOK
  BY DEF Inv
<1> QED
  BY <1>1, <1>2, QuietStep DEF TypeOK, Live

\* Every step keeps the invariant: one case for each action.
LEMMA NextInv ==
  ASSUME Inv, [Next]_vars
  PROVE  Inv'
<1>1. ASSUME NEW a \in Articles, NEW b \in Arrivals(a), Submit(a, b)
      PROVE  Inv'
  BY <1>1, SubmitInv
<1>2. ASSUME NEW m \in Ids, Expire(m)
      PROVE  Inv'
  BY <1>2, ExpireInv
<1>3. ASSUME NEW s \in Slots, Handle(s)
      PROVE  Inv'
  <2>1. CASE ReadArticle(s)
    BY <2>1, ReadArticleInv
  <2>2. CASE IndexArticle(s)
    BY <2>2, IndexArticleInv
  <2>3. CASE ProcessingFails(s)
    BY <2>3, ProcessingFailsInv
  <2>4. CASE Move(s)
    BY <2>4, MoveInv
  <2>5. CASE MoveFails(s)
    BY <2>5, MoveFailsInv
  <2>6. CASE Ack(s)
    BY <2>6, AckInv
  <2>7. CASE StaleAck(s)
    BY <2>7, StaleAckInv
  <2> QED
    BY <1>3, <2>1, <2>2, <2>3, <2>4, <2>5, <2>6, <2>7 DEF Handle
<1>4. ASSUME NEW s \in Slots, NEW m \in Ids, Deliver(s, m)
      PROVE  Inv'
  BY <1>4, DeliverInv
<1>5. ASSUME NEW w \in Workers, ConnectionLost(w)
      PROVE  Inv'
  BY <1>5, ConnectionLostInv
<1>6. ASSUME NEW w \in Workers, Restart(w)
      PROVE  Inv'
  BY <1>6, RestartInv
<1>7. ASSUME NEW a \in Articles, Store(a)
      PROVE  Inv'
  BY <1>7, StoreInv
<1>8. CASE UNCHANGED vars
  BY <1>8, StutterInv
<1> QED
  BY <1>1, <1>2, <1>3, <1>4, <1>5, <1>6, <1>7, <1>8 DEF Next

\* Inv holds in every reachable state: what tasks, deliveries and messages
\* have to do with each other.
THEOREM Invariance == Spec => []Inv
<1>1. Init => Inv
  BY InitInv
<1>2. Inv /\ [Next]_vars => Inv'
  BY NextInv
<1> QED
  BY <1>1, <1>2, PTL DEF Spec

\* The state of queues, deliveries and tasks is well formed; in particular the
\* retry header never exceeds MAX_RETRIES + 1.
THEOREM TypeCorrect == Spec => []TypeOK
<1>1. Inv => TypeOK
  BY DEF Inv
<1> QED
  BY <1>1, Invariance, PTL

\* A job that the broker has accepted is in the index or still in a queue,
\* whatever fails (move_message publishes before it acknowledges).
THEOREM JobsAreNotLost == Spec => []NoJobLost
<1>1. Inv => NoJobLost
  BY DEF Inv
<1> QED
  BY <1>1, Invariance, PTL

\* "RetriesExhausted" is written only after MAX_RETRIES + 1 processings have
\* failed: redeliveries and duplicates do not use up retries.
THEOREM RetriesAreEarned == Spec => []RetriesEarned
<1>1. Inv => RetriesEarned
  <2> SUFFICES ASSUME Inv, NEW a \in Articles, NEW m \in DeadLetters(a),
                      broker[m].body.reason = "RetriesExhausted"
               PROVE  failed[a] = MaxRetries + 1
    BY DEF RetriesEarned
  <2>1. m \in Live /\ broker[m].body.article = a
    BY DEF DeadLetters, About
  <2> QED
    BY <2>1 DEF Inv, FailuresOK, HeaderOK
<1> QED
  BY <1>1, Invariance, PTL

-----------------------------------------------------------------------------
(* Copies of jobs                                                          *)

\* After a fault there are faults.
LEMMA FaultShows ==
  ASSUME TypeOK, Fault
  PROVE  faults' # 0
BY NumberAssumption DEF TypeOK, Fault

\* Nothing waits at first.
LEMMA InitCopies == Init => CopiesOK
<1> SUFFICES ASSUME Init PROVE CopiesOK
  OBVIOUS
<1>1. \A a \in Articles : Waiting(a) = {} /\ copies[a] = 0
  BY DEF Init, Waiting, About, Live, NoMessage
<1>2. Counted
  BY <1>1, FS_EmptySet DEF Counted
<1>3. Undisturbed
  BY DEF Init, Undisturbed
<1> QED
  BY <1>2, <1>3 DEF CopiesOK

\* The count stays right if no message is added.
LEMMA CountShrinks ==
  ASSUME TypeOK, Counted, copies' = copies, \A a \in Articles : Waiting(a)' \subseteq Waiting(a)
  PROVE  Counted'
<1> SUFFICES ASSUME NEW a \in Articles
             PROVE  IsFiniteSet(Waiting(a)') /\ Cardinality(Waiting(a)') <= copies[a]
  BY DEF Counted
<1>1. IsFiniteSet(Waiting(a)) /\ Cardinality(Waiting(a)) <= copies[a]
  BY DEF Counted
<1>2. IsFiniteSet(Waiting(a)') /\ Cardinality(Waiting(a)') <= Cardinality(Waiting(a))
  BY <1>1, FS_Subset
<1>3. /\ Cardinality(Waiting(a)) \in Nat /\ Cardinality(Waiting(a)') \in Nat
      /\ copies[a] \in Nat
  BY <1>1, <1>2, FS_CardinalityType DEF TypeOK
<1> QED
  BY <1>1, <1>2, <1>3

\* A task that goes on adds no message.
LEMMA TaskCopies ==
  ASSUME TypeOK, Undisturbed, Counted, NEW s \in Slots, pc[s] \notin {"idle", "ack"},
         broker' = broker, owner' = owner, copies' = copies, stopping' = stopping,
         pc'[s] # "idle", work'[s].id = work[s].id,
         \A t \in Slots : t # s => pc'[t] = pc[t] /\ work'[t] = work[t]
  PROVE  Undisturbed' /\ Counted'
<1>1. Undisturbed'
  BY DEF Undisturbed, TypeOK
<1>2. \A a \in Articles : Waiting(a)' \subseteq Waiting(a)
  BY DEF Waiting, About, Superseded, Live, TypeOK
<1> QED
  BY <1>1, <1>2, CountShrinks

\* A submitted job is one more message and one more copy.
LEMMA SubmitCopies ==
  ASSUME Inv, Undisturbed, Counted, NEW a \in Articles, NEW b \in Arrivals(a), Submit(a, b)
  PROVE  Undisturbed' /\ Counted'
<1>1. TypeOK /\ DeliveriesOK
  BY DEF Inv
<1>2. b \in Bodies /\ b.article = a
  BY NumberAssumption DEF Arrivals, Bodies, Reasons
<1>3. PICK m \in Ids \ Live :
        /\ broker'[m].queue = "main" /\ broker'[m].body = b
        /\ \A k \in Ids : k # m => broker'[k] = broker[k]
  BY <1>1, <1>2, PublishAdds DEF Submit, Queues
<1>4. /\ owner' = owner /\ pc' = pc /\ work' = work /\ stopping' = stopping
      /\ copies' = [copies EXCEPT ![a] = @ + 1]
  BY DEF Submit, slotVars
<1>5. Undisturbed'
  BY <1>4 DEF Undisturbed
<1>6. Live' = Live \cup {m}
  BY <1>3 DEF Live
<1>7. owner[m] = None
  BY <1>1, <1>3 DEF DeliveriesOK, Live
<1>8. ASSUME NEW c \in Articles
      PROVE  IsFiniteSet(Waiting(c)') /\ Cardinality(Waiting(c)') <= copies'[c]
  <2>1. IsFiniteSet(Waiting(c)) /\ Cardinality(Waiting(c)) <= copies[c]
    BY DEF Counted
  <2>2. Cardinality(Waiting(c)) \in Nat /\ copies[c] \in Nat
    BY <1>1, <2>1, FS_CardinalityType DEF TypeOK
  <2>3. CASE c = a
    <3>1. Waiting(c)' \subseteq Waiting(c) \cup {m}
      BY <1>3, <1>4, <1>6 DEF Waiting, About, Superseded, Live
    <3>2. /\ IsFiniteSet(Waiting(c) \cup {m})
          /\ Cardinality(Waiting(c) \cup {m}) \in {Cardinality(Waiting(c)), Cardinality(Waiting(c)) + 1}
      BY <2>1, FS_AddElement
    <3>3. IsFiniteSet(Waiting(c)') /\ Cardinality(Waiting(c)') <= Cardinality(Waiting(c) \cup {m})
      BY <3>1, <3>2, FS_Subset
    <3>4. Cardinality(Waiting(c)') \in Nat
      BY <3>3, FS_CardinalityType
    <3>5. copies'[c] = copies[c] + 1
      BY <1>1, <1>4, <2>3 DEF TypeOK
    <3> QED
      BY <2>1, <2>2, <3>2, <3>3, <3>4, <3>5
  <2>4. CASE c # a
    <3>1. Waiting(c)' = Waiting(c)
      BY <1>2, <1>3, <1>4, <1>6, <1>7, <2>4 DEF Waiting, About, Superseded, Live
    <3>2. copies'[c] = copies[c]
      BY <1>1, <1>4, <2>4 DEF TypeOK
    <3> QED
      BY <2>1, <3>1, <3>2
  <2> QED
    BY <2>3, <2>4
<1> QED
  BY <1>5, <1>8 DEF Counted

\* A message that goes back to the main queue remains one message.
LEMMA ExpireCopies ==
  ASSUME Inv, Undisturbed, Counted, NEW m \in Ids, Expire(m)
  PROVE  Undisturbed' /\ Counted'
<1>1. TypeOK
  BY DEF Inv
<1>2. /\ broker[m].queue = "retry" /\ broker' = [broker EXCEPT ![m].queue = "main"]
      /\ owner' = owner /\ pc' = pc /\ work' = work /\ stopping' = stopping /\ copies' = copies
  BY DEF Expire, slotVars
<1>3. broker[m] \in Stored
  BY <1>1, <1>2 DEF TypeOK, NoMessage
<1>4. \A k \in Ids : /\ broker'[k].queue # "none" <=> broker[k].queue # "none"
                     /\ broker'[k].body = broker[k].body
  BY <1>1, <1>2, <1>3 DEF TypeOK, Stored
<1>5. \A a \in Articles : Waiting(a)' \subseteq Waiting(a)
  BY <1>2, <1>4 DEF Waiting, About, Superseded, Live
<1>6. Undisturbed'
  BY <1>2 DEF Undisturbed
<1> QED
  BY <1>1, <1>2, <1>5, <1>6, CountShrinks

\* A delivery occupies one task and adds no message.
LEMMA DeliverCopies ==
  ASSUME Inv, Undisturbed, Counted, NEW s \in Slots, NEW m \in Ids, Deliver(s, m)
  PROVE  Undisturbed' /\ Counted'
<1>1. TypeOK
  BY DEF Inv
<1>2. /\ pc[s] = "idle" /\ owner[m] = None /\ owner' = [owner EXCEPT ![m] = s]
      /\ broker' = broker /\ stopping' = stopping /\ copies' = copies
  BY DEF Deliver
<1>3. /\ pc'[s] \in {"read", "move"} /\ work'[s].id = m
      /\ \A t \in Slots : t # s => pc'[t] = pc[t] /\ work'[t] = work[t]
  BY <1>1 DEF Deliver, TypeOK
<1>4. /\ owner'[m] = s /\ \A k \in Ids : k # m => owner'[k] = owner[k]
      /\ \A k \in Ids : owner[k] # None => owner[k] \in Slots /\ owner[k] # s
  BY <1>1, <1>2 DEF Undisturbed, TypeOK
<1>5. Undisturbed'
  <2>1. \A k \in Ids : owner'[k] # None => pc'[owner'[k]] # "idle" /\ work'[owner'[k]].id = k
    BY <1>2, <1>3, <1>4 DEF Undisturbed
  <2>2. \A t \in Slots : pc'[t] # "idle" => owner'[work'[t].id] = t
    <3> SUFFICES ASSUME NEW t \in Slots, pc'[t] # "idle"
                 PROVE  owner'[work'[t].id] = t
      OBVIOUS
    <3>1. CASE t = s
      BY <1>3, <1>4, <3>1
    <3>2. CASE t # s
      <4>1. owner[work[t].id] = t /\ pc[t] # "idle" /\ work'[t] = work[t]
        BY <1>3, <3>2 DEF Undisturbed
      <4>2. work[t].id \in Ids
        BY <1>1, <4>1, BusyHasWork DEF Inv
      <4>3. work[t].id # m
        BY <1>2, <4>1, SlotAssumption
      <4> QED
        BY <1>4, <4>1, <4>2, <4>3
    <3> QED
      BY <3>1, <3>2
  <2> QED
    BY <1>2, <2>1, <2>2 DEF Undisturbed
<1>6. \A a \in Articles : Waiting(a)' \subseteq Waiting(a)
  BY <1>2, <1>3, <1>4 DEF Waiting, About, Superseded, Live
<1> QED
  BY <1>1, <1>2, <1>5, <1>6, CountShrinks

\* A successor takes the place of the delivery it succeeds.
LEMMA MoveCopies ==
  ASSUME Inv, Undisturbed, Counted, NEW s \in Slots, Move(s)
  PROVE  Undisturbed' /\ Counted'
<1>1. TypeOK /\ TasksOK /\ DeliveriesOK
  BY DEF Inv
<1>2. /\ pc[s] = "move" /\ pc' = [pc EXCEPT ![s] = "ack"] /\ work' = work
      /\ Publish(work[s].to, Successor(s))
      /\ owner' = owner /\ copies' = copies /\ stopping' = stopping
  BY DEF Move
<1>3. /\ work[s].to \in Queues /\ Successor(s) \in Bodies
      /\ Successor(s).article = Job(s)
  BY <1>2, SuccessorIsABody
<1>4. PICK m \in Ids \ Live :
        /\ broker'[m].queue = work[s].to /\ broker'[m].body = Successor(s)
        /\ \A k \in Ids : k # m => broker'[k] = broker[k]
  BY <1>1, <1>2, <1>3, PublishAdds
<1> DEFINE id == work[s].id
<1>5. /\ id \in Ids /\ owner[id] = s /\ id \in Live /\ broker[id].body.article = Job(s)
  <2>1. id \in Ids /\ owner[id] = s
    BY <1>1, <1>2, BusyHasWork DEF Undisturbed
  <2>2. broker[id].queue = "main" /\ work[s].body = broker[id].body
    BY <1>1, <1>2, <2>1, SlotAssumption DEF DeliveriesOK
  <2> QED
    BY <2>1, <2>2 DEF Live, Job
<1>6. pc'[s] = "ack" /\ \A t \in Slots : t # s => pc'[t] = pc[t]
  BY <1>1, <1>2 DEF TypeOK
<1>7. Live' = Live \cup {m} /\ m # id /\ owner[m] = None
  <2>1. Live' = Live \cup {m}
    BY <1>3, <1>4 DEF Live, Queues
  <2>2. owner[m] = None
    BY <1>1, <1>4 DEF DeliveriesOK, Live
  <2> QED
    BY <1>4, <1>5, <2>1, <2>2
<1>8. Undisturbed'
  BY <1>2, <1>6 DEF Undisturbed, TypeOK
<1>9. \A c \in Articles : c # Job(s) => Waiting(c)' \subseteq Waiting(c)
  BY <1>1, <1>2, <1>3, <1>4, <1>6, <1>7 DEF Waiting, About, Superseded, Live, TypeOK
<1>10. ASSUME NEW c \in Articles, c = Job(s)
       PROVE  id \in Waiting(c) /\ Waiting(c)' \subseteq (Waiting(c) \ {id}) \cup {m}
  <2>1. id \in Waiting(c)
    BY <1>2, <1>5, <1>10 DEF Waiting, About, Superseded
  <2>2. id \in Superseded'
    BY <1>2, <1>5, <1>6, <1>7, SlotAssumption DEF Superseded
  <2>3. ASSUME NEW k \in Waiting(c)', k # m PROVE k \in Waiting(c)
    BY <1>1, <1>2, <1>4, <1>6, <1>7, <2>3 DEF Waiting, About, Superseded, Live, TypeOK
  <2> HIDE DEF id
  <2> QED
    BY <2>1, <2>2, <2>3 DEF Waiting
<1>11. ASSUME NEW c \in Articles
       PROVE  IsFiniteSet(Waiting(c)') /\ Cardinality(Waiting(c)') <= copies'[c]
  <2>1. IsFiniteSet(Waiting(c)) /\ Cardinality(Waiting(c)) <= copies[c]
    BY DEF Counted
  <2>2. Cardinality(Waiting(c)) \in Nat /\ copies[c] \in Nat
    BY <1>1, <2>1, FS_CardinalityType DEF TypeOK
  <2>3. CASE c = Job(s)
    <3> DEFINE Rest == Waiting(c) \ {id}
               More == Rest \cup {m}
    <3>1. IsFiniteSet(Rest) /\ Cardinality(Rest) = Cardinality(Waiting(c)) - 1
      BY <1>10, <2>1, <2>3, FS_RemoveElement
    <3>2. IsFiniteSet(More) /\ Cardinality(More) \in {Cardinality(Rest), Cardinality(Rest) + 1}
      BY <3>1, FS_AddElement
    <3>3. IsFiniteSet(Waiting(c)') /\ Cardinality(Waiting(c)') <= Cardinality(More)
      BY <1>10, <2>3, <3>2, FS_Subset
    <3>4. Cardinality(Waiting(c)') \in Nat
      BY <3>3, FS_CardinalityType
    <3> HIDE DEF Rest, More
    <3> QED
      BY <1>2, <2>1, <2>2, <3>1, <3>2, <3>3, <3>4
  <2>4. CASE c # Job(s)
    <3>1. IsFiniteSet(Waiting(c)') /\ Cardinality(Waiting(c)') <= Cardinality(Waiting(c))
      BY <1>9, <2>1, <2>4, FS_Subset
    <3>2. Cardinality(Waiting(c)') \in Nat
      BY <3>1, FS_CardinalityType
    <3> QED
      BY <1>2, <2>1, <2>2, <3>1, <3>2
  <2> QED
    BY <2>3, <2>4
<1> QED
  BY <1>8, <1>11 DEF Counted

\* An acknowledged message waits no longer, and its task is idle.
LEMMA AckCopies ==
  ASSUME Inv, Undisturbed, Counted, NEW s \in Slots, Ack(s)
  PROVE  Undisturbed' /\ Counted'
<1>1. TypeOK /\ TasksOK
  BY DEF Inv
<1> DEFINE id == work[s].id
<1>2. /\ pc[s] = "ack" /\ owner[id] = s /\ Idle(s)
      /\ broker' = [broker EXCEPT ![id] = NoMessage] /\ owner' = [owner EXCEPT ![id] = None]
      /\ copies' = copies /\ stopping' = stopping
  BY DEF Ack
<1>3. id \in Ids
  BY <1>1, <1>2, BusyHasWork
<1>4. /\ pc'[s] = "idle" /\ \A t \in Slots : t # s => pc'[t] = pc[t] /\ work'[t] = work[t]
  BY <1>1, <1>2 DEF Idle, TypeOK
<1>5. /\ broker'[id] = NoMessage /\ owner'[id] = None
      /\ \A k \in Ids : k # id => broker'[k] = broker[k] /\ owner'[k] = owner[k] /\ owner[k] # s
  BY <1>1, <1>2, <1>3, SlotAssumption DEF TypeOK, Undisturbed
<1>6. Undisturbed'
  <2>1. \A k \in Ids : owner'[k] # None => pc'[owner'[k]] # "idle" /\ work'[owner'[k]].id = k
    BY <1>1, <1>4, <1>5 DEF Undisturbed, TypeOK
  <2>2. \A t \in Slots : pc'[t] # "idle" => owner'[work'[t].id] = t
    <3> SUFFICES ASSUME NEW t \in Slots, pc'[t] # "idle"
                 PROVE  owner'[work'[t].id] = t
      OBVIOUS
    <3>1. t # s /\ pc[t] # "idle" /\ work'[t] = work[t] /\ owner[work[t].id] = t
      BY <1>4 DEF Undisturbed
    <3>2. work[t].id \in Ids
      BY <1>1, <3>1, BusyHasWork
    <3>3. work[t].id # id
      BY <1>2, <3>1
    <3> QED
      BY <1>5, <3>1, <3>2, <3>3
  <2> QED
    BY <1>2, <2>1, <2>2 DEF Undisturbed
<1>7. \A a \in Articles : Waiting(a)' \subseteq Waiting(a)
  BY <1>1, <1>4, <1>5 DEF Waiting, About, Superseded, Live, NoMessage, TypeOK
<1> QED
  BY <1>1, <1>2, <1>6, <1>7, CountShrinks

\* Every step keeps the count right.
LEMMA NextCopies ==
  ASSUME Inv, CopiesOK, [Next]_vars
  PROVE  CopiesOK'
<1>1. SUFFICES ASSUME faults' = 0
               PROVE  Undisturbed' /\ Counted'
  BY DEF CopiesOK
<1>2. TypeOK /\ TasksOK
  BY DEF Inv
<1>3. ~ Fault
  BY <1>1, <1>2, FaultShows
<1>4. CASE faults' # faults
  BY <1>3, <1>4 DEF Next, Submit, Store, Expire, Handle, ReadArticle, IndexArticle, ProcessingFails,
     Move, MoveFails, Ack, StaleAck, Deliver, ConnectionLost, Restart, vars
<1>5. CASE faults' = faults
  <2>1. Undisturbed /\ Counted
    BY <1>1, <1>5 DEF CopiesOK
  <2>2. ASSUME NEW a \in Articles, NEW b \in Arrivals(a), Submit(a, b)
        PROVE  Undisturbed' /\ Counted'
    BY <2>1, <2>2, SubmitCopies
  <2>3. ASSUME NEW m \in Ids, Expire(m)
        PROVE  Undisturbed' /\ Counted'
    BY <2>1, <2>3, ExpireCopies
  <2>4. ASSUME NEW s \in Slots, NEW m \in Ids, Deliver(s, m)
        PROVE  Undisturbed' /\ Counted'
    BY <2>1, <2>4, DeliverCopies
  <2>5. ASSUME NEW w \in Workers, ConnectionLost(w) \/ Restart(w)
        PROVE  Undisturbed' /\ Counted'
    BY <1>3, <2>1, <2>5 DEF ConnectionLost, Restart, Undisturbed
  <2>6. ASSUME NEW s \in Slots, Handle(s)
        PROVE  Undisturbed' /\ Counted'
    <3>1. CASE ReadArticle(s) \/ IndexArticle(s) \/ ProcessingFails(s)
      <4>1. pc[s] \in {"read", "index"} /\ broker' = broker /\ owner' = owner
            /\ copies' = copies /\ stopping' = stopping
        BY <3>1 DEF ReadArticle, IndexArticle, ProcessingFails, brokerVars
      <4>2. work[s] \in Deliveries
        BY <1>2, <4>1, BusyHasWork
      <4>3. /\ pc'[s] # "idle" /\ work'[s].id = work[s].id
            /\ \A t \in Slots : t # s => pc'[t] = pc[t] /\ work'[t] = work[t]
        <5>1. CASE \E q \in {"retry", "dlq"}, why \in Reasons : Decide(s, q, why)
          BY <1>2, <4>2, <5>1, DecideDecides
        <5>2. CASE \E where \in {"index", "ack"} : pc' = [pc EXCEPT ![s] = where] /\ work' = work
          BY <1>2, <5>2 DEF TypeOK
        <5> QED
          BY <3>1, <5>1, <5>2 DEF ReadArticle, IndexArticle, ProcessingFails, Reasons
      <4> QED
        BY <1>2, <2>1, <4>1, <4>3, TaskCopies
    <3>2. CASE Move(s)
      BY <2>1, <3>2, MoveCopies
    <3>3. CASE MoveFails(s)
      BY <1>3, <3>3 DEF MoveFails
    <3>4. CASE Ack(s)
      BY <2>1, <3>4, AckCopies
    <3>5. CASE StaleAck(s)
      BY <2>1, <3>5 DEF StaleAck, Undisturbed
    <3> QED
      BY <2>6, <3>1, <3>2, <3>3, <3>4, <3>5 DEF Handle
  <2>7. CASE (\E a \in Articles : Store(a)) \/ UNCHANGED vars
    <3>1. UNCHANGED <<broker, owner, pc, work, stopping, copies>>
      BY <2>7 DEF Store, brokerVars, slotVars, vars
    <3> QED
      BY <2>1, <3>1 DEF Undisturbed, Counted, Waiting, About, Superseded, Live
  <2> QED
    BY <2>2, <2>3, <2>4, <2>5, <2>6, <2>7 DEF Next
<1> QED
  BY <1>4, <1>5

\* Without faults jobs do not multiply: no more messages of a job await their
\* processing than the dispatcher has published (move_message and ack, the
\* prefetch and the tasks of several workers).
THEOREM CopiesAreCounted == Spec => []NoNewCopies
<1>1. Init => CopiesOK
  BY InitCopies
<1>2. Inv /\ CopiesOK /\ [Next]_vars => CopiesOK'
  BY NextCopies
<1>3. CopiesOK => NoNewCopies
  BY DEF CopiesOK, Counted, NoNewCopies
<1> QED
  BY <1>1, <1>2, <1>3, Invariance, PTL DEF Spec
=============================================================================
