------------------------------- MODULE Outbox -------------------------------
(***************************************************************************)
(* The embedded outbox of the articles collection and the dispatcher       *)
(* processes that publish from it (ArticleRepository.create,               *)
(* ArticleOutboxRepository, OutboxDispatcher and its main loop).           *)
(*                                                                         *)
(* outbox[a][c] is the sub-document outbox.<channel> of article a.  Time   *)
(* is discrete; "due" counts the seconds left until next_attempt_at (of a  *)
(* pending record) or lease_until (of a leased one), so that "due = 0" is  *)
(* the query's "$lte: now".  Each action of a dispatcher is the code       *)
(* between two awaits, its database or broker call included; the clock it  *)
(* reads for that call is the time of the call.                            *)
(***************************************************************************)
EXTENDS Naturals, FiniteSets

CONSTANTS
  Articles,       \* articles that clients may create
  Dispatchers,    \* dispatcher processes, each one restarted when it dies
  Tokens,         \* lease tokens: the uuid4 values, as natural numbers
  Stamps,         \* values of created_at
  LeaseSeconds,   \* length of a lease (120)
  DelayCap,       \* longest retry delay (60)
  ExponentCap,    \* largest exponent of the retry delay (6)
  MaxFaults,      \* bound: faults of the environment in one behaviour
  None            \* no token, no article

CHANNELS == <<"rabbitmq", "kafka">>
Channels == {CHANNELS[i] : i \in DOMAIN CHANNELS}

Lesser(m, n) == IF m <= n THEN m ELSE n

\* Seconds to wait after the n-th failed attempt.
Backoff(n) == Lesser(DelayCap, 2 ^ Lesser(n, ExponentCap))

ASSUME TimeAssumption ==
  /\ LeaseSeconds \in Nat \ {0}
  /\ ExponentCap \in Nat \ {0}
  /\ \A n \in 1..ExponentCap : Backoff(n) \in Nat
  /\ MaxFaults \in Nat
ASSUME ValueAssumption ==
  /\ Tokens \subseteq Nat
  /\ Stamps \subseteq Nat
  /\ None \notin Tokens \cup Articles
\* One token for each record and each dispatcher: a fresh one always exists.
ASSUME TokensSuffice ==
  IsFiniteSet(Tokens) =>
    Cardinality(Tokens) >= 2 * Cardinality(Articles) + Cardinality(Dispatchers)

VARIABLES
  outbox,      \* the delivery records, by article and channel
  createdAt,   \* created_at of each article
  copies,      \* copies[a][c]: messages about a that broker c has accepted
  pc,          \* where each dispatcher is in its loop
  chan,        \* the channel of its current dispatch_one
  conn,        \* the brokers it holds a connection to
  job,         \* the document its last claim returned
  faults       \* faults so far

dbVars   == <<outbox, createdAt>>
procVars == <<pc, chan, conn, job>>
vars == <<outbox, createdAt, copies, pc, chan, conn, job, faults>>

Records ==
  [status : {"absent", "pending", "leased", "published"},
   token : Tokens \cup {None}, attempts : 0..ExponentCap, due : Nat]
Absent == [status |-> "absent", token |-> None, attempts |-> 0, due |-> 0]

Jobs == [article : Articles \cup {None}, token : Tokens \cup {None},
         attempts : 0..ExponentCap]
NoJob == [article |-> None, token |-> None, attempts |-> 0]

Init ==
  /\ outbox = [a \in Articles |-> [c \in Channels |-> Absent]]
  /\ createdAt \in [Articles -> Stamps]
  /\ copies = [a \in Articles |-> [c \in Channels |-> 0]]
  /\ pc = [d \in Dispatchers |-> "connect"]
  /\ chan = [d \in Dispatchers |-> "rabbitmq"]
  /\ conn = [d \in Dispatchers |-> {}]
  /\ job = [d \in Dispatchers |-> NoJob]
  /\ faults = 0

Fault == faults < MaxFaults /\ faults' = faults + 1

-----------------------------------------------------------------------------
(* The API                                                                 *)

\* One insert_one with both pending records.  created_at is taken before the
\* insert, by one of several API processes, so it need not follow the order
\* of the inserts; createdAt[a] was drawn in Init.
Create(a) ==
  /\ outbox[a] = [c \in Channels |-> Absent]
  /\ outbox' = [outbox EXCEPT ![a] =
       [c \in Channels |-> [Absent EXCEPT !.status = "pending"]]]
  /\ UNCHANGED <<createdAt, copies, procVars, faults>>

-----------------------------------------------------------------------------
(* The dispatcher loop                                                     *)

\* End of a dispatch_one that returns: the next channel, or the next round.
NextChannel(d) ==
  /\ IF chan[d] = "rabbitmq"
     THEN chan' = [chan EXCEPT ![d] = "kafka"] /\ pc' = [pc EXCEPT ![d] = "claim"]
     ELSE chan' = [chan EXCEPT ![d] = "rabbitmq"] /\ pc' = [pc EXCEPT ![d] = "connect"]
  /\ job' = [job EXCEPT ![d] = NoJob]

\* An exception leaves the loop over the channels: the next round.
AbandonRound(d) ==
  /\ pc' = [pc EXCEPT ![d] = "connect"]
  /\ chan' = [chan EXCEPT ![d] = "rabbitmq"]
  /\ job' = [job EXCEPT ![d] = NoJob]

\* Top of the round.  A connection is kept once made; a broker that cannot be
\* reached leaves its publisher None for this round.
Connect(d, reached) ==
  /\ pc[d] = "connect"
  /\ conn' = [conn EXCEPT ![d] = @ \cup reached]
  /\ pc' = [pc EXCEPT ![d] = "claim"]
  /\ UNCHANGED <<dbVars, copies, chan, job, faults>>

\* Mutation: a broker that is down ends the round.
SkipChannel_EndsRound(d) ==
  /\ pc[d] = "claim"
  /\ chan[d] \notin conn[d]
  /\ AbandonRound(d)
  /\ UNCHANGED <<dbVars, copies, conn, faults>>

\* No publisher: dispatch_one returns before it claims anything.
SkipChannel(d) ==
  /\ pc[d] = "claim"
  /\ chan[d] \notin conn[d]
  /\ NextChannel(d)
  /\ UNCHANGED <<dbVars, copies, conn, faults>>

-----------------------------------------------------------------------------
(* ArticleOutboxRepository.claim                                           *)

\* Mutations of the query: lease_until, the status, or the second branch missing.
Claimable_AnyLease(c) ==
  {a \in Articles : \/ outbox[a][c].status = "pending" /\ outbox[a][c].due = 0
                    \/ outbox[a][c].status = "leased"}
Claimable_AnyStatus(c) ==
  {a \in Articles : outbox[a][c].status # "absent" /\ outbox[a][c].due = 0}
Claimable_PendingOnly(c) ==
  {a \in Articles : outbox[a][c].status = "pending" /\ outbox[a][c].due = 0}

Claimable(c) ==
  {a \in Articles : outbox[a][c].status \in {"pending", "leased"} /\ outbox[a][c].due = 0}

\* sort=[("created_at", 1)]; equal stamps come in any order.
Oldest(c) ==
  {a \in Claimable(c) : \A b \in Claimable(c) : createdAt[a] <= createdAt[b]}

\* A uuid4 is a value nobody uses.  A value no record and no dispatcher holds
\* any more is as good as a new one; the least of them is taken.
TokensInUse ==
  {outbox[a][c].token : a \in Articles, c \in Channels} \cup
  {job[d].token : d \in Dispatchers}
FreshTokens == Tokens \ TokensInUse
NewToken(t) == t \in FreshTokens /\ \A u \in FreshTokens : t <= u

Lease(a, c, t) ==
  [status |-> "leased", token |-> t,
   attempts |-> Lesser(outbox[a][c].attempts + 1, ExponentCap),
   due |-> LeaseSeconds]

\* find_one_and_update: one atomic step of the database, which answers with
\* the updated document.
Claim(d, a, t) ==
  /\ pc[d] = "claim"
  /\ chan[d] \in conn[d]
  /\ a \in Oldest(chan[d])
  /\ NewToken(t)
  /\ outbox' = [outbox EXCEPT ![a][chan[d]] = Lease(a, chan[d], t)]
  /\ job' = [job EXCEPT ![d] =
       [article |-> a, token |-> t, attempts |-> Lease(a, chan[d], t).attempts]]
  /\ pc' = [pc EXCEPT ![d] = "publish"]
  /\ UNCHANGED <<createdAt, copies, chan, conn, faults>>

\* MongoDB raises: the update is not applied, or it is and only its answer is
\* lost, which leaves a lease that nobody holds.
ClaimError(d) ==
  /\ pc[d] = "claim"
  /\ chan[d] \in conn[d]
  /\ Fault
  /\ \/ UNCHANGED outbox
     \/ \E a \in Oldest(chan[d]), t \in Tokens :
          /\ NewToken(t)
          /\ outbox' = [outbox EXCEPT ![a][chan[d]] = Lease(a, chan[d], t)]
  /\ AbandonRound(d)
  /\ UNCHANGED <<createdAt, copies, conn>>

ClaimNothing(d) ==
  /\ pc[d] = "claim"
  /\ chan[d] \in conn[d]
  /\ Claimable(chan[d]) = {}
  /\ NextChannel(d)
  /\ UNCHANGED <<dbVars, copies, conn, faults>>

-----------------------------------------------------------------------------
(* Publishing                                                              *)

Accept(a, c) == copies' = [copies EXCEPT ![a][c] = @ + 1]

\* The broker stores the message and its confirmation arrives in time.
PublishConfirmed(d) ==
  /\ pc[d] = "publish"
  /\ Accept(job[d].article, chan[d])
  /\ pc' = [pc EXCEPT ![d] = "confirmed"]
  /\ UNCHANGED <<dbVars, chan, conn, job, faults>>

\* Mutation: the confirmation is not awaited.
PublishRefused_Unnoticed(d) ==
  /\ pc[d] = "publish"
  /\ pc' = [pc EXCEPT ![d] = "confirmed"]
  /\ UNCHANGED <<dbVars, copies, chan, conn, job, faults>>

\* The publisher raises and the broker has nothing: unreachable, unroutable,
\* negative confirmation, or (kafka) the article could not be read.
PublishRefused(d) ==
  /\ pc[d] = "publish"
  /\ pc' = [pc EXCEPT ![d] = "failed"]
  /\ UNCHANGED <<dbVars, copies, chan, conn, job, faults>>

\* The publisher raises, by its timeout or a lost confirmation, although the
\* broker has stored the message.  A message that the client library delivers
\* after the timeout counts from here on: nobody but the broker sees it.
PublishUndecided(d) ==
  /\ pc[d] = "publish"
  /\ Fault
  /\ Accept(job[d].article, chan[d])
  /\ pc' = [pc EXCEPT ![d] = "failed"]
  /\ UNCHANGED <<dbVars, chan, conn, job>>

-----------------------------------------------------------------------------
(* Recording the outcome                                                   *)

Working == {"publish", "confirmed", "failed"}

Record(d) == outbox[job[d].article][chan[d]]

\* Mutation: the filter has no token.
HoldsLease_AnyToken(d) == Record(d).status = "leased"

\* The filter of both status updates: still leased, under our token.
HoldsLease(d) == Record(d).status = "leased" /\ Record(d).token = job[d].token

\* Mutation: a failure leaves a status that no query looks for.
Update_Failed(d, status, due) ==
  outbox' = [outbox EXCEPT ![job[d].article][chan[d]] =
    [@ EXCEPT !.status = IF status = "pending" THEN "failed" ELSE status,
              !.token = None, !.due = due]]

Update(d, status, due) ==
  outbox' = [outbox EXCEPT ![job[d].article][chan[d]] =
    [@ EXCEPT !.status = status, !.token = None, !.due = due]]

MarkPublished(d) ==
  /\ pc[d] = "confirmed"
  /\ HoldsLease(d)
  /\ Update(d, "published", 0)

MarkFailed(d) ==
  /\ pc[d] = "failed"
  /\ HoldsLease(d)
  /\ Update(d, "pending", Backoff(job[d].attempts))

RecordOutcome(d) ==
  /\ MarkPublished(d) \/ MarkFailed(d)
  /\ NextChannel(d)
  /\ UNCHANGED <<createdAt, copies, conn, faults>>

\* matched_count is 0: the update changes nothing and raises.
LeaseLost(d) ==
  /\ pc[d] \in {"confirmed", "failed"}
  /\ ~ HoldsLease(d)
  /\ AbandonRound(d)
  /\ UNCHANGED <<dbVars, copies, conn, faults>>

\* MongoDB raises, with the update applied or not.
OutcomeError(d) ==
  /\ pc[d] \in {"confirmed", "failed"}
  /\ Fault
  /\ MarkPublished(d) \/ MarkFailed(d) \/ UNCHANGED outbox
  /\ AbandonRound(d)
  /\ UNCHANGED <<createdAt, copies, conn>>

\* The process dies at an await and its supervisor starts a new one.  A
\* message it was publishing may have reached the broker.
Die(d) ==
  /\ Fault
  /\ \/ pc[d] = "publish" /\ Accept(job[d].article, chan[d])
     \/ UNCHANGED copies
  /\ AbandonRound(d)
  /\ conn' = [conn EXCEPT ![d] = {}]
  /\ UNCHANGED dbVars

-----------------------------------------------------------------------------
(* Time                                                                    *)

TimerRuns == \E a \in Articles, c \in Channels : outbox[a][c].due > 0

\* Dispatchers whose lease runs out in this second while they still work.  A
\* publication takes at most a few seconds of the lease's two minutes, so
\* this is a stalled process or database call, and counts as a fault.
Overrun == {d \in Dispatchers : pc[d] \in Working /\ HoldsLease(d) /\ Record(d).due = 1}

Tick ==
  /\ TimerRuns
  /\ IF Overrun = {} THEN UNCHANGED faults ELSE Fault
  /\ outbox' = [a \in Articles |-> [c \in Channels |->
       [outbox[a][c] EXCEPT !.due = IF @ > 0 THEN @ - 1 ELSE 0]]]
  /\ UNCHANGED <<createdAt, copies, procVars>>

-----------------------------------------------------------------------------
Publish(d) == PublishConfirmed(d) \/ PublishRefused(d) \/ PublishUndecided(d)

Dispatch(d) ==
  \/ \E reached \in SUBSET Channels : Connect(d, reached)
  \/ SkipChannel(d)
  \/ \E a \in Articles, t \in Tokens : Claim(d, a, t)
  \/ ClaimNothing(d)
  \/ ClaimError(d)
  \/ Publish(d)
  \/ RecordOutcome(d)
  \/ LeaseLost(d)
  \/ OutcomeError(d)

Next ==
  \/ \E a \in Articles : Create(a)
  \/ \E d \in Dispatchers : Dispatch(d) \/ Die(d)
  \/ Tick

Spec == Init /\ [][Next]_vars

(***************************************************************************)
(* Time passes and every dispatcher process keeps running: the loop never  *)
(* blocks for good, since both brokers are called with a timeout and a     *)
(* dead process is restarted.  Of the two brokers only c need be in order: *)
(* tried again and again it is reached in the end, and confirms in the end *)
(* (strong fairness); the other one may be down for good.  The faults of   *)
(* one behaviour are finitely many.                                        *)
(***************************************************************************)
ServedBy(c) ==
  /\ WF_vars(Tick)
  /\ \A d \in Dispatchers :
       /\ WF_vars(Dispatch(d))
       /\ SF_vars(\E reached \in SUBSET Channels : c \in reached /\ Connect(d, reached))
       /\ SF_vars(chan[d] = c /\ PublishConfirmed(d))

RabbitMQSpec == Spec /\ ServedBy("rabbitmq")
KafkaSpec    == Spec /\ ServedBy("kafka")

-----------------------------------------------------------------------------
(* Properties                                                              *)

TypeOK ==
  /\ outbox \in [Articles -> [Channels -> Records]]
  /\ createdAt \in [Articles -> Stamps]
  /\ copies \in [Articles -> [Channels -> Nat]]
  /\ pc \in [Dispatchers -> {"connect", "claim"} \cup Working]
  /\ chan \in [Dispatchers -> Channels]
  /\ conn \in [Dispatchers -> SUBSET Channels]
  /\ job \in [Dispatchers -> Jobs]
  /\ faults \in 0..MaxFaults

IntentOf(status) ==
  CASE status = "absent"                -> "absent"
    [] status \in {"pending", "leased"} -> "intended"
    [] status = "published"             -> "discharged"

Promise == INSTANCE PublicationIntent WITH
  intent   <- [a \in Articles |-> [c \in Channels |-> IntentOf(outbox[a][c].status)]],
  received <- [a \in Articles |-> {c \in Channels : copies[a][c] > 0}]

\* The outbox keeps the promise of PublicationIntent: both intentions are
\* stored in one step with the article, a record becomes published only when
\* its broker has accepted the message, and neither a pending, a leased nor a
\* published record is ever lost, whatever the dispatchers, their crashes and
\* the expiry of their leases do (Readme.md, "Delivery guarantees").
KeepsPromise == Promise!Spec

\* A leased record loses its token in two ways only: its lease has run out and
\* another claim replaces it, or the dispatcher that holds this very token
\* records the outcome.  A stale holder, woken after its lease was taken over,
\* changes nothing (the token in the filters of mark_published, mark_failed).
StaleHolderHarmless ==
  [][\A a \in Articles, c \in Channels :
       LET r == outbox[a][c] IN
       (r.status = "leased" /\ outbox'[a][c].token # r.token) =>
         \/ outbox'[a][c].status = "leased" /\ r.due = 0
         \/ \E d \in Dispatchers :
              /\ pc[d] \in {"confirmed", "failed"}
              /\ job[d].article = a /\ chan[d] = c /\ job[d].token = r.token
              /\ job'[d] = NoJob]_vars

\* As long as no process dies, no answer is lost and nobody outlasts its
\* lease, two dispatchers never work on the same delivery (the atomic claim
\* and the lease of ArticleOutboxRepository.claim).
WorkIsExclusive ==
  \A d1, d2 \in Dispatchers :
    /\ d1 # d2
    /\ pc[d1] \in Working /\ pc[d2] \in Working
    /\ job[d1].article = job[d2].article /\ chan[d1] = chan[d2]
    => faults > 0

\* Every copy of a message beyond the first is paid for by a fault: neither
\* refused publications, retries, waiting connections nor several dispatchers
\* make duplicates by themselves (Readme.md: "Crash after confirmation but
\* before status update can republish").
DuplicatesNeedFaults ==
  \A a \in Articles, c \in Channels : copies[a][c] <= 1 + faults

Delivered(c) ==
  \A a \in Articles :
    outbox[a][c].status # "absent" ~> outbox[a][c].status = "published"

\* Unconfirmed work is retried until it is published, in spite of refusals,
\* lost answers, crashes and expired leases (Readme.md: "It retains
\* unconfirmed work for retries rather than silently discarding it"), and the
\* outage of one broker never keeps the other one's messages back
\* (outbox_dispatcher.py: "Each broker can recover independently").
RabbitMQDelivered == Delivered("rabbitmq")

\* The same of the channel that comes second in every round.
KafkaDelivered == Delivered("kafka")

-----------------------------------------------------------------------------
(* The invariant that module OutboxProofs proves inductive                 *)

\* A working dispatcher has the document of a stored article; any other none.
JobsOK ==
  \A d \in Dispatchers :
    IF pc[d] \in Working
    THEN /\ job[d].article \in Articles
         /\ job[d].token \in Tokens
         /\ job[d].attempts \in 1..ExponentCap
         /\ Record(d).status # "absent"
    ELSE job[d] = NoJob

\* A dispatcher reports, and a record shows, only what the broker has.
ConfirmationsOK ==
  /\ \A d \in Dispatchers : pc[d] = "confirmed" => copies[job[d].article][chan[d]] > 0
  /\ \A a \in Articles, c \in Channels :
       outbox[a][c].status = "published" => copies[a][c] > 0

\* No two dispatchers were given the same token.
TokensOK ==
  \A d1, d2 \in Dispatchers :
    d1 # d2 /\ pc[d1] \in Working /\ pc[d2] \in Working => job[d1].token # job[d2].token

\* Without faults whoever works holds a lease that has time left.
LeasesOK ==
  faults = 0 =>
    \A d \in Dispatchers : pc[d] \in Working => HoldsLease(d) /\ Record(d).due > 0

Inv == TypeOK /\ JobsOK /\ ConfirmationsOK /\ TokensOK /\ LeasesOK

\* Who may yet send a message about a, whatever its record says by then.
Publishers(a, c) ==
  {d \in Dispatchers : pc[d] = "publish" /\ job[d].article = a /\ chan[d] = c}

\* d sends the message about a, or has sent it, under a lease with time left.
Covers(d, a, c) ==
  /\ pc[d] \in {"publish", "confirmed"} /\ job[d].article = a /\ chan[d] = c
  /\ HoldsLease(d) /\ Record(d).due > 0

\* Somebody else may be given the delivery, now or later.
Open(a, c) == outbox[a][c].status # "published" /\ ~ \E d \in Dispatchers : Covers(d, a, c)

\* Copies sent and about to be sent, and one more if the delivery is open.
Counted(a, c) ==
  LET n == copies[a][c] + Cardinality(Publishers(a, c)) IN
  /\ IsFiniteSet(Publishers(a, c))
  /\ n <= 1 + faults
  /\ Open(a, c) => n <= faults
CopiesOK == \A a \in Articles, c \in Channels : Counted(a, c)
=============================================================================
