--------------------------- MODULE DeadLetterProofs ---------------------------
(***************************************************************************)
(* Proofs about the outcomes of indexing jobs: the reason of every dead    *)
(* letter is true of it, and no outcome is ever taken back (IndexJobs      *)
(* implements IndexingPromise).                                            *)
(***************************************************************************)
EXTENDS IndexJobsProofs

-----------------------------------------------------------------------------
(* Explanations stay true                                                  *)

\* A job's article is not stored later: MongoDB gives a new article a new id.
LEMMA MissingForGood ==
  ASSUME [Next]_vars
  PROVE  \A a \in Accepted : a \in missing => a \in missing'
BY DEF Next, Submit, Store, Expire, Handle, ReadArticle, IndexArticle, ProcessingFails,
   Move, MoveFails, Ack, StaleAck, Deliver, ConnectionLost, Restart, vars

\* Failures are not forgotten.
LEMMA FailedForGood ==
  ASSUME TypeOK, TasksOK, [Next]_vars
  PROVE  \A a \in Articles : failed[a] = MaxRetries + 1 => failed'[a] = MaxRetries + 1
<1>1. CASE failed' = failed
  BY <1>1
<1>2. ASSUME NEW s \in Slots, ProcessingFails(s)
      PROVE  \A a \in Articles : failed[a] = MaxRetries + 1 => failed'[a] = MaxRetries + 1
  <2>1. failed' = [failed EXCEPT ![Job(s)] = IF @ > MaxRetries THEN @ ELSE @ + 1]
    BY <1>2 DEF ProcessingFails
  <2> QED
    BY <2>1, NumberAssumption DEF TypeOK
<1> QED
  BY <1>1, <1>2 DEF Next, Submit, Store, Expire, Handle, ReadArticle, IndexArticle,
     Move, MoveFails, Ack, StaleAck, Deliver, ConnectionLost, Restart, vars

\* So what explains a dead letter of an accepted job goes on explaining it.
LEMMA StaysExplained ==
  ASSUME TypeOK, TasksOK, [Next]_vars
  PROVE  \A b \in Bodies : b.article \in Accepted /\ Explained(b) => Explained(b)'
<1>1. \A b \in Bodies : b.article \in Articles
  BY DEF Bodies
<1> QED
  BY <1>1, MissingForGood, FailedForGood DEF Explained

\* Of a dead letter, its reason is what the task gave and the rest is as it was.
LEMMA DeadLetterFields ==
  ASSUME NEW b \in Bodies, NEW why \in Reasons
  PROVE  LET c == [b EXCEPT !.reason = why] IN
         /\ c \in Bodies /\ c.reason = why
         /\ c.form = b.form /\ c.article = b.article /\ c.retry = b.retry
BY DEF Bodies

-----------------------------------------------------------------------------
(* The messages                                                            *)

\* A dead letter was there before, or a task has just published it.
LEMMA Provenance ==
  ASSUME TypeOK, [Next]_vars, NEW m \in Ids, broker'[m].queue = "dlq"
  PROVE  \/ broker'[m] = broker[m]
         \/ \E s \in Slots : /\ pc[s] = "move" /\ work[s].to = "dlq"
                             /\ broker'[m].body = Successor(s)
<1>1. CASE broker' = broker
  BY <1>1
<1>2. ASSUME NEW q, NEW b, Publish(q, b)
      PROVE  \/ broker'[m] = broker[m]
             \/ q = "dlq" /\ broker'[m].body = b
  <2>1. PICK k \in Ids \ Live : broker' = [broker EXCEPT ![k] = [queue |-> q, body |-> b]]
    BY <1>2 DEF Publish
  <2> QED
    BY <2>1 DEF TypeOK
<1>3. ASSUME NEW a \in Articles, NEW b \in Arrivals(a), Submit(a, b)
      PROVE  broker'[m] = broker[m]
  BY <1>2, <1>3 DEF Submit
<1>4. ASSUME NEW k \in Ids, Expire(k)
      PROVE  broker'[m] = broker[m]
  <2>1. broker[k] \in Stored
    BY <1>4 DEF Expire, TypeOK, NoMessage
  <2>2. broker'[k].queue = "main" /\ (m # k => broker'[m] = broker[m])
    BY <1>4, <2>1 DEF Expire, TypeOK, Stored
  <2> QED
    BY <2>2
<1>5. ASSUME NEW s \in Slots, Move(s) \/ MoveFails(s)
      PROVE  \/ broker'[m] = broker[m]
             \/ pc[s] = "move" /\ work[s].to = "dlq" /\ broker'[m].body = Successor(s)
  <2>1. pc[s] = "move" /\ (broker' = broker \/ Publish(work[s].to, Successor(s)))
    BY <1>5 DEF Move, MoveFails
  <2> QED
    BY <1>2, <2>1
<1>6. ASSUME NEW s \in Slots, Ack(s)
      PROVE  broker'[m] = broker[m]
  BY <1>6 DEF Ack, TypeOK, NoMessage
<1> QED
  BY <1>1, <1>3, <1>4, <1>5, <1>6 DEF Next, Store, Handle, ReadArticle, IndexArticle,
     ProcessingFails, StaleAck, Deliver, ConnectionLost, Restart, vars, brokerVars

\* Dead letters stay explained, and new ones are.
LEMMA DeadLettersStep ==
  ASSUME Inv, ExplainedOK, [Next]_vars, NEW m \in Ids, broker'[m].queue = "dlq"
  PROVE  Explained(broker[m].body)'
<1>1. TypeOK /\ TasksOK /\ DeliveriesOK
  BY DEF Inv
<1>2. CASE broker'[m] = broker[m]
  <2>1. m \in Live
    BY <1>2 DEF Live
  <2>2. Explained(broker[m].body) /\ broker[m].body.article \in Accepted
    BY <1>1, <1>2, <2>1 DEF ExplainedOK, DeadLettersExplained, DeliveriesOK
  <2>3. PICK b \in Bodies : b = broker[m].body
    BY <1>1, <2>1, LiveIsStored DEF Stored
  <2>4. Explained(b)'
    BY <1>1, <2>2, <2>3, StaysExplained
  <2> QED
    BY <1>2, <2>3, <2>4 DEF Explained
<1>3. ASSUME NEW s \in Slots, pc[s] = "move", work[s].to = "dlq", broker'[m].body = Successor(s)
      PROVE  Explained(broker[m].body)'
  <2>1. /\ work[s].body \in Bodies /\ work[s].reason \in Reasons
        /\ Job(s) \in Accepted /\ Job(s) = work[s].body.article
    BY <1>1, <1>3, BusyHasWork DEF Deliveries, TasksOK, Job
  <2>2. PICK b \in Bodies : b = [work[s].body EXCEPT !.reason = work[s].reason]
    BY <2>1, DeadLetterFields
  <2>3. Explained(b)
    BY <1>3, <2>2 DEF ExplainedOK, CauseOK
  <2>4. b.article \in Accepted
    BY <2>1, <2>2, DeadLetterFields
  <2>5. Explained(b)'
    BY <1>1, <2>3, <2>4, StaysExplained
  <2>6. /\ Successor(s).reason = b.reason /\ Successor(s).form = b.form
        /\ Successor(s).article = b.article
        /\ b.reason # "InvalidRetryMetadata" => Successor(s).retry = b.retry
    BY <1>3, <2>1, <2>2 DEF Successor, Bodies
  <2> QED
    BY <1>3, <2>5, <2>6 DEF Explained
<1> QED
  BY <1>1, <1>2, <1>3, Provenance

-----------------------------------------------------------------------------
(* The tasks                                                               *)

\* A task that goes on with what it has decided.
LEMMA CauseStays ==
  ASSUME Inv, ExplainedOK, [Next]_vars, NEW s \in Slots, pc[s] # "idle",
         work'[s] = work[s], pc'[s] \in {"read", "index"} => pc[s] \in {"read", "index"}
  PROVE  CauseOK(s)'
<1>1. TypeOK /\ TasksOK
  BY DEF Inv
<1>2. CauseOK(s)
  BY DEF ExplainedOK
<1>3. /\ work[s].body \in Bodies /\ work[s].reason \in Reasons
      /\ Job(s) \in Accepted /\ Job(s) = work[s].body.article
  BY <1>1, BusyHasWork DEF Deliveries, TasksOK, Job
<1>4. PICK b \in Bodies : b = [work[s].body EXCEPT !.reason = work[s].reason]
  BY <1>3, DeadLetterFields
<1>5. b.article \in Accepted
  BY <1>3, <1>4, DeadLetterFields
<1>6. work[s].to = "dlq" => Explained(b)'
  BY <1>1, <1>2, <1>4, <1>5, StaysExplained DEF CauseOK
<1>7. b = [work'[s].body EXCEPT !.reason = work'[s].reason]
  BY <1>4
<1> QED
  BY <1>2, <1>6, <1>7 DEF CauseOK, Explained

\* The verdict of a check is true of the job, and a job that passes all of
\* them is well formed.
LEMMA CauseOfDelivery ==
  ASSUME Inv, NEW s \in Slots, NEW m \in Ids, Deliver(s, m)
  PROVE  CauseOK(s)'
<1>1. TypeOK
  BY DEF Inv
<1>2. PICK b \in Bodies : b = broker[m].body
  BY <1>1, LiveIsStored DEF Deliver, Live, Stored
<1>3. PICK v \in Reasons : v = Verdict(b)
  BY <1>2 DEF Verdict, Reasons, Bodies
<1>4. /\ v = "none" => b.form = "valid"
      /\ v # "none" => \/ v = "InvalidRetryMetadata" /\ b.form = "badCount"
                       \/ v = "InvalidJobSchema" /\ b.form = "badSchema"
                       \/ v = "RetryLimitExceeded" /\ b.form = "valid" /\ b.retry > MaxRetries
  BY <1>2, <1>3 DEF Verdict, Bodies
<1>5. /\ pc'[s] = IF v = "none" THEN "read" ELSE "move"
      /\ work'[s] = [id |-> m, body |-> b, to |-> IF v = "none" THEN "undecided" ELSE "dlq",
                     reason |-> v]
  BY <1>1, <1>2, <1>3 DEF Deliver, TypeOK
<1>6. /\ work'[s].body = b /\ work'[s].reason = v
      /\ work'[s].to = IF v = "none" THEN "undecided" ELSE "dlq"
  BY <1>5
<1>7. PICK c \in Bodies : c = [b EXCEPT !.reason = v]
  BY DeadLetterFields
<1>8. c.reason = v /\ c.form = b.form /\ c.retry = b.retry
  BY <1>7, DeadLetterFields
<1>9. v # "none" => Explained(c)'
  BY <1>4, <1>8 DEF Explained
<1>10. c = [work'[s].body EXCEPT !.reason = work'[s].reason]
  BY <1>6, <1>7
<1> QED
  BY <1>4, <1>5, <1>6, <1>9, <1>10 DEF CauseOK

\* A decision of process: the article is missing, or the last retry has failed.
LEMMA CauseOfDecision ==
  ASSUME Inv, Inv', ExplainedOK, NEW s \in Slots, pc[s] \in {"read", "index"},
         NEW q \in {"retry", "dlq"}, NEW why \in Reasons, Decide(s, q, why),
         q = "dlq" => \/ why = "ArticleMissing" /\ Job(s) \in missing /\ missing' = missing
                      \/ why = "RetriesExhausted" /\ ~ (work[s].body.retry < MaxRetries)
  PROVE  CauseOK(s)'
<1>1. TypeOK /\ TasksOK /\ FailuresOK'
  BY DEF Inv
<1>2. CauseOK(s) /\ work[s].body.form = "valid"
  BY DEF ExplainedOK, CauseOK
<1>3. work[s] \in Deliveries /\ work[s].body \in Bodies /\ work[s].body.retry <= MaxRetries
  BY <1>1, BusyHasWork DEF TasksOK
<1>4. /\ pc'[s] = "move" /\ work'[s].body = work[s].body
      /\ work'[s].to = q /\ work'[s].reason = why
  BY <1>1, <1>3, DecideDecides
<1>5. why = "RetriesExhausted" => failed'[work[s].body.article] = MaxRetries + 1
  BY <1>1, <1>4 DEF FailuresOK, Job
<1>6. PICK c \in Bodies : c = [work[s].body EXCEPT !.reason = why]
  BY <1>3, DeadLetterFields
<1>7. /\ c.reason = why /\ c.form = "valid" /\ c.retry = work[s].body.retry
      /\ c.article = work[s].body.article
  BY <1>2, <1>3, <1>6, DeadLetterFields
<1>8. c.retry \in Nat
  BY NumberAssumption DEF Bodies
<1>9. q = "dlq" => Explained(c)'
  BY <1>3, <1>5, <1>7, <1>8, NumberAssumption DEF Explained, Job
<1>10. c = [work'[s].body EXCEPT !.reason = work'[s].reason]
  BY <1>4, <1>6
<1> QED
  BY <1>4, <1>9, <1>10 DEF CauseOK

\* A step of a task leaves it with a cause for what it will publish.
LEMMA CauseOfHandle ==
  ASSUME Inv, Inv', ExplainedOK, [Next]_vars, NEW s \in Slots, Handle(s),
         NEW t \in Slots, pc'[t] # "idle"
  PROVE  CauseOK(t)'
<1>1. TypeOK /\ TasksOK
  BY DEF Inv
<1>2. CASE ReadArticle(s) /\ Job(s) \in missing
  <2>1. Decide(s, "dlq", "ArticleMissing") /\ pc[s] = "read" /\ missing' = missing
    BY <1>2 DEF ReadArticle
  <2>2. CASE t = s
    BY <1>2, <2>1, <2>2, CauseOfDecision DEF Reasons
  <2>3. CASE t # s
    <3>1. pc'[t] = pc[t] /\ work'[t] = work[t]
      BY <1>1, <2>1, <2>3 DEF Decide, TypeOK
    <3> QED
      BY <3>1, CauseStays
  <2> QED
    BY <2>2, <2>3
<1>3. CASE ProcessingFails(s)
  <2>1. PICK q \in {"retry", "dlq"}, why \in Reasons :
          /\ Decide(s, q, why)
          /\ q = "dlq" => why = "RetriesExhausted" /\ ~ (work[s].body.retry < MaxRetries)
    BY <1>3 DEF ProcessingFails, Reasons
  <2>2. pc[s] \in {"read", "index"}
    BY <1>3 DEF ProcessingFails
  <2>3. CASE t = s
    BY <2>1, <2>2, <2>3, CauseOfDecision
  <2>4. CASE t # s
    <3>1. pc'[t] = pc[t] /\ work'[t] = work[t]
      BY <1>1, <2>1, <2>4 DEF Decide, TypeOK
    <3> QED
      BY <3>1, CauseStays
  <2> QED
    BY <2>3, <2>4
<1>4. CASE (ReadArticle(s) /\ Job(s) \notin missing) \/ IndexArticle(s) \/ Move(s)
  <2>1. /\ pc[s] # "idle" /\ work' = work
        /\ \/ pc[s] \in {"read", "index"} /\ pc' = [pc EXCEPT ![s] = "index"]
           \/ pc' = [pc EXCEPT ![s] = "ack"]
    BY <1>4 DEF ReadArticle, IndexArticle, Move
  <2>2. pc[t] # "idle" /\ (pc'[t] \in {"read", "index"} => pc[t] \in {"read", "index"})
    BY <1>1, <2>1 DEF TypeOK
  <2> QED
    BY <2>1, <2>2, CauseStays
<1>5. CASE MoveFails(s) \/ Ack(s) \/ StaleAck(s)
  <2>1. pc'[t] = pc[t] /\ work'[t] = work[t]
    BY <1>1, <1>5, IdleEnds DEF MoveFails, Ack, StaleAck
  <2> QED
    BY <2>1, CauseStays
<1> QED
  BY <1>2, <1>3, <1>4, <1>5 DEF Handle

\* So do all other steps.
LEMMA CauseStep ==
  ASSUME Inv, Inv', ExplainedOK, [Next]_vars, NEW t \in Slots, pc'[t] # "idle"
  PROVE  CauseOK(t)'
<1>1. TypeOK
  BY DEF Inv
<1>2. ASSUME NEW s \in Slots, Handle(s)
      PROVE  CauseOK(t)'
  BY <1>2, CauseOfHandle
<1>3. ASSUME NEW s \in Slots, NEW m \in Ids, Deliver(s, m)
      PROVE  CauseOK(t)'
  <2>1. CASE t = s
    BY <1>3, <2>1, CauseOfDelivery
  <2>2. CASE t # s
    <3>1. pc'[t] = pc[t] /\ work'[t] = work[t]
      BY <1>1, <1>3, <2>2 DEF Deliver, TypeOK
    <3> QED
      BY <3>1, CauseStays
  <2> QED
    BY <2>1, <2>2
<1>4. ASSUME NEW w \in Workers, ConnectionLost(w) \/ Restart(w)
      PROVE  CauseOK(t)'
  <2>1. pc'[t] = pc[t] /\ work'[t] = work[t]
    BY <1>1, <1>4, IdleEnds DEF ConnectionLost, Restart, TypeOK, slotVars, Idle
  <2> QED
    BY <2>1, CauseStays
<1>5. CASE (\E a \in Articles : Store(a) \/ \E b \in Arrivals(a) : Submit(a, b))
           \/ (\E m \in Ids : Expire(m)) \/ UNCHANGED vars
  <2>1. pc' = pc /\ work' = work
    BY <1>5 DEF Store, Submit, Expire, slotVars, vars
  <2> QED
    BY <2>1, CauseStays
<1> QED
  BY <1>2, <1>3, <1>4, <1>5 DEF Next

\* The reason of every dead letter is true of it, and stays so: the checks of
\* handle, process and move_message, for any number of tasks, redeliveries and
\* copies of a job.
THEOREM DeadLettersAreExplained == Spec => []DeadLettersExplained
<1>1. Init => ExplainedOK
  BY DEF Init, ExplainedOK, DeadLettersExplained, Live, NoMessage
<1>2. Inv /\ Inv' /\ ExplainedOK /\ [Next]_vars => ExplainedOK'
  BY DeadLettersStep, CauseStep DEF ExplainedOK, DeadLettersExplained, Live
<1>3. ExplainedOK => DeadLettersExplained
  BY DEF ExplainedOK
<1> QED
  BY <1>1, <1>2, <1>3, Invariance, PTL DEF Spec

-----------------------------------------------------------------------------
(* Outcomes are final                                                      *)

\* A step that leaves the messages alone gives nothing up.
LEMMA NothingGivenUp ==
  ASSUME broker' = broker
  PROVE  GivenUp' = GivenUp
BY DEF GivenUp, DeadLetters, About, Live

\* One message comes, goes or changes its queue, and no dead letter does: a is
\* given up if the message is a's dead letter now.
LEMMA OneMessageChanges ==
  ASSUME NEW k \in Ids, broker[k].queue # "dlq",
         \A m \in Ids : m # k => broker'[m] = broker[m]
  PROVE  /\ broker'[k].queue # "dlq" => GivenUp' = GivenUp
         /\ \A a \in Articles :
              broker'[k].queue = "dlq" /\ broker'[k].body.article = a
                => GivenUp' = GivenUp \cup {a}
<1>1. \A a \in Articles :
        a \in GivenUp <=> \E m \in Ids : broker[m].queue = "dlq" /\ broker[m].body.article = a
  BY DEF GivenUp, DeadLetters, About, Live
<1>2. \A a \in Articles :
        a \in GivenUp' <=> \E m \in Ids : broker'[m].queue = "dlq" /\ broker'[m].body.article = a
  BY DEF GivenUp, DeadLetters, About, Live
<1>3. GivenUp \subseteq Articles /\ GivenUp' \subseteq Articles
  BY DEF GivenUp
<1>4. ASSUME broker'[k].queue # "dlq"
      PROVE  \A a \in Articles : a \in GivenUp' <=> a \in GivenUp
  BY <1>1, <1>2, <1>4
<1>5. ASSUME NEW a \in Articles, broker'[k].queue = "dlq", broker'[k].body.article = a
      PROVE  \A c \in Articles : c \in GivenUp' <=> c \in GivenUp \/ c = a
  BY <1>1, <1>2, <1>5
<1> QED
  BY <1>3, <1>4, <1>5

\* The first message about an article makes it an accepted one.
LEMMA SubmitRefines ==
  ASSUME Inv, NEW a \in Articles, NEW b \in Arrivals(a), Submit(a, b)
  PROVE  [Promise!Next]_(Promise!vars)
<1>1. TypeOK
  BY DEF Inv
<1>2. b \in Bodies
  BY NumberAssumption DEF Arrivals, Bodies, Reasons
<1>3. PICK m \in Ids \ Live :
        /\ broker'[m].queue = "main"
        /\ \A k \in Ids : k # m => broker'[k] = broker[k]
  BY <1>1, <1>2, PublishAdds DEF Submit, Queues
<1>4. GivenUp' = GivenUp
  BY <1>3, OneMessageChanges DEF Live
<1>5. indexed' = indexed /\ Accepted' = Accepted \cup {a}
  BY <1>1, NumberAssumption DEF TypeOK, Accepted, Submit
<1>6. CASE a \in Accepted
  BY <1>4, <1>5, <1>6 DEF Promise!vars
<1>7. CASE a \notin Accepted
  BY <1>4, <1>5, <1>7 DEF Promise!Next, Promise!Store
<1> QED
  BY <1>6, <1>7

\* A message that expires was no dead letter, and is none afterwards.
LEMMA ExpireRefines ==
  ASSUME Inv, NEW m \in Ids, Expire(m)
  PROVE  UNCHANGED Promise!vars
<1>1. TypeOK
  BY DEF Inv
<1>2. broker[m].queue = "retry" /\ broker[m] \in Stored
  BY <1>1 DEF Expire, TypeOK, NoMessage
<1>3. broker'[m].queue = "main" /\ \A k \in Ids : k # m => broker'[k] = broker[k]
  BY <1>1, <1>2 DEF Expire, TypeOK, Stored
<1>4. GivenUp' = GivenUp
  BY <1>2, <1>3, OneMessageChanges
<1> QED
  BY <1>4 DEF Expire, Accepted, Promise!vars

\* A publication of a task gives its job up, or moves it to the retry queue.
LEMMA MoveRefines ==
  ASSUME Inv, NEW s \in Slots, Move(s) \/ MoveFails(s)
  PROVE  [Promise!Next]_(Promise!vars)
<1>1. TypeOK /\ TasksOK
  BY DEF Inv
<1>2. /\ pc[s] = "move" /\ indexed' = indexed /\ Accepted' = Accepted
      /\ broker' = broker \/ Publish(work[s].to, Successor(s))
  BY DEF Move, MoveFails, Accepted
<1>3. CASE broker' = broker
  BY <1>2, <1>3, NothingGivenUp DEF Promise!vars
<1>4. CASE Publish(work[s].to, Successor(s))
  <2>1. /\ work[s].to \in Queues /\ Successor(s) \in Bodies
        /\ Successor(s).article = Job(s) /\ Job(s) \in Accepted
    BY <1>2, SuccessorIsABody
  <2>2. PICK m \in Ids \ Live :
          /\ broker'[m].queue = work[s].to /\ broker'[m].body = Successor(s)
          /\ \A k \in Ids : k # m => broker'[k] = broker[k]
    BY <1>1, <1>4, <2>1, PublishAdds
  <2>3. Job(s) \in Articles
    BY <2>1 DEF Accepted
  <2>4. GivenUp' = GivenUp \/ GivenUp' = GivenUp \cup {Job(s)}
    BY <2>1, <2>2, <2>3, OneMessageChanges DEF Live
  <2>5. UNCHANGED Promise!vars \/ Promise!GiveUp(Job(s))
    BY <1>2, <2>1, <2>4 DEF Promise!vars, Promise!GiveUp
  <2> QED
    BY <2>3, <2>5 DEF Promise!Next
<1> QED
  BY <1>2, <1>3, <1>4

\* What is acknowledged is a delivery of the main queue and no dead letter.
LEMMA AckRefines ==
  ASSUME Inv, NEW s \in Slots, Ack(s)
  PROVE  UNCHANGED Promise!vars
<1>1. TypeOK /\ TasksOK /\ DeliveriesOK
  BY DEF Inv
<1>2. PICK m \in Ids : m = work[s].id
  BY <1>1, BusyHasWork DEF Ack
<1>3. owner[m] = s /\ broker' = [broker EXCEPT ![m] = NoMessage]
  BY <1>2 DEF Ack
<1>4. broker[m].queue # "dlq"
  BY <1>1, <1>3, SlotAssumption DEF DeliveriesOK
<1>5. broker'[m].queue # "dlq" /\ \A k \in Ids : k # m => broker'[k] = broker[k]
  BY <1>1, <1>3 DEF TypeOK, NoMessage
<1>6. GivenUp' = GivenUp
  BY <1>4, <1>5, OneMessageChanges
<1> QED
  BY <1>6 DEF Ack, Accepted, Promise!vars

\* A processing indexes the job's article, or does not.
LEMMA ProcessRefines ==
  ASSUME Inv, NEW s \in Slots, ReadArticle(s) \/ IndexArticle(s) \/ ProcessingFails(s)
  PROVE  [Promise!Next]_(Promise!vars)
<1>1. TypeOK /\ TasksOK
  BY DEF Inv
<1>2. /\ pc[s] # "idle" /\ broker' = broker /\ Accepted' = Accepted
      /\ indexed' = indexed \/ indexed' = indexed \cup {Job(s)}
  BY DEF ReadArticle, IndexArticle, ProcessingFails, brokerVars, Accepted
<1>3. Job(s) \in Accepted /\ Job(s) \in Articles
  BY <1>1, <1>2, BusyHasWork DEF TasksOK
<1>4. GivenUp' = GivenUp
  BY <1>2, NothingGivenUp
<1>5. UNCHANGED Promise!vars \/ Promise!Index(Job(s))
  BY <1>2, <1>3, <1>4 DEF Promise!vars, Promise!Index
<1> QED
  BY <1>3, <1>5 DEF Promise!Next

\* The jobs implement IndexingPromise by themselves, malformed and foreign
\* messages included: nothing is indexed or dead-lettered that the broker has
\* not accepted, one article at a time, and nothing is ever taken back.
THEOREM PromiseIsKept == Spec => KeepsPromise
<1>1. Init => Promise!Init
  BY DEF Init, Promise!Init, Accepted, GivenUp, DeadLetters, About, Live, NoMessage
<1>2. Inv /\ [Next]_vars => [Promise!Next]_(Promise!vars)
  <2>1. SUFFICES ASSUME Inv, [Next]_vars
                 PROVE  [Promise!Next]_(Promise!vars)
    OBVIOUS
  <2>2. ASSUME NEW a \in Articles, NEW b \in Arrivals(a), Submit(a, b)
        PROVE  [Promise!Next]_(Promise!vars)
    BY <2>1, <2>2, SubmitRefines
  <2>3. ASSUME NEW m \in Ids, Expire(m)
        PROVE  UNCHANGED Promise!vars
    BY <2>1, <2>3, ExpireRefines
  <2>4. ASSUME NEW s \in Slots, Handle(s)
        PROVE  [Promise!Next]_(Promise!vars)
    <3>1. CASE ReadArticle(s) \/ IndexArticle(s) \/ ProcessingFails(s)
      BY <2>1, <3>1, ProcessRefines
    <3>2. CASE Move(s) \/ MoveFails(s)
      BY <2>1, <3>2, MoveRefines
    <3>3. CASE Ack(s)
      BY <2>1, <3>3, AckRefines
    <3>4. CASE StaleAck(s)
      <4>1. broker' = broker /\ indexed' = indexed /\ Accepted' = Accepted
        BY <3>4 DEF StaleAck, brokerVars, Accepted
      <4> QED
        BY <4>1, NothingGivenUp DEF Promise!vars
    <3> QED
      BY <2>4, <3>1, <3>2, <3>3, <3>4 DEF Handle
  <2>5. CASE \/ \E a \in Articles : Store(a)
             \/ \E s \in Slots, m \in Ids : Deliver(s, m)
             \/ \E w \in Workers : ConnectionLost(w) \/ Restart(w)
             \/ UNCHANGED vars
    <3>1. broker' = broker /\ indexed' = indexed /\ Accepted' = Accepted
      BY <2>5 DEF Store, Deliver, ConnectionLost, Restart, vars, brokerVars, Accepted
    <3> QED
      BY <3>1, NothingGivenUp DEF Promise!vars
  <2> QED
    BY <2>1, <2>2, <2>3, <2>4, <2>5 DEF Next
<1> QED
  BY <1>1, <1>2, Invariance, PTL DEF Spec, KeepsPromise, Promise!Spec
===============================================================================
