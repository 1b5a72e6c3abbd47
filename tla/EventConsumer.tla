---------------------------- MODULE EventConsumer ----------------------------
(***************************************************************************)
(* The article.created events on Kafka and the processes that consume them *)
(* (article_event_consumer.run and process_record): the partitions of the  *)
(* topic, their retention, the groups with their committed offsets, and    *)
(* the records the consumers keep in MongoDB.                              *)
(*                                                                         *)
(* Rebalances happen behind the back of process_record: aiokafka rejoins   *)
(* the group in the background while a record is being processed, so that  *)
(* a consumer may commit an offset under an assignment it has received     *)
(* after it had read the record.  Kafka and aiokafka are modelled from how *)
(* the code uses them: manual commits, "earliest", one topic.              *)
(***************************************************************************)
EXTENDS Naturals, Sequences, FiniteSets

CONSTANTS
  Articles,      \* articles, and so the keys of records
  Events,        \* event_ids; from_article makes one for each article
  Partitions,    \* partitions of the topic
  PartitionOf,   \* the partition of a key
  Groups,        \* consumer groups
  CollectionOf,  \* the collection of a group's role; --group gives a role
                 \* a group of its own, and two groups one collection
  Consumers,     \* consumer processes, each one restarted when it ends
  GroupOf,       \* the group of each consumer
  LogCap,        \* bound: records in a partition
  MaxFaults,     \* bound: faults of the environment in one behaviour
  None           \* no article, no event, no record, no position, no owner

Collections == {CollectionOf[g] : g \in Groups}

\* Where a record is: also the identity of a poison record.
Places == [partition : Partitions, offset : 0..(LogCap - 1)]
Place(p, o) == [partition |-> p, offset |-> o]

ASSUME NumberAssumption == LogCap \in Nat /\ MaxFaults \in Nat
ASSUME AssignmentAssumption ==
  /\ PartitionOf \in [Articles -> Partitions]
  /\ GroupOf \in [Consumers -> Groups]
ASSUME NoneAssumption ==
  /\ None \notin Articles /\ None \notin Events /\ None \notin Consumers
  /\ None \notin Places /\ None \notin 0..LogCap

VARIABLES
  log,        \* log[p]: the records of partition p; the first has offset 0
  base,       \* base[p]: the first offset that retention has left
  committed,  \* committed[g][p]: the offset a group continues at
  owner,      \* owner[g][p]: the consumer p is assigned to
  member,     \* what the coordinator thinks of each consumer
  position,   \* position[c][p]: the next offset c fetches, if it thinks p its own
  pc,         \* where a consumer is
  record,     \* the place of the record it is processing
  stored,     \* stored[k][e]: the document with the _id e in collection k
  poison,     \* kafka_poison_events
  unread,     \* unread[g]: records that expired before g had handled them
  faults      \* faults so far

kafkaVars    == <<log, base, unread>>
groupVars    == <<owner, member>>
mongoVars    == <<stored, poison>>
consumerVars == <<position, pc, record>>
vars == <<log, base, committed, owner, member, position, pc, record,
          stored, poison, unread, faults>>

\* The key of a record, and the article_id and event_id of its message: what
\* does not parse has neither.
Records == {r \in [key : Articles, article : Articles \cup {None}, event : Events \cup {None}] :
              r.article = None <=> r.event = None}

Init ==
  /\ log = [p \in Partitions |-> <<>>]
  /\ base = [p \in Partitions |-> 0]
  /\ committed = [g \in Groups |-> [p \in Partitions |-> 0]]
  /\ owner = [g \in Groups |-> [p \in Partitions |-> None]]
  /\ member = [c \in Consumers |-> "out"]
  /\ position = [c \in Consumers |-> [p \in Partitions |-> None]]
  /\ pc = [c \in Consumers |-> "down"]
  /\ record = [c \in Consumers |-> None]
  /\ stored = [k \in Collections |-> [e \in Events |-> None]]
  /\ poison = {}
  /\ unread = [g \in Groups |-> {}]
  /\ faults = 0

Fault == faults < MaxFaults /\ faults' = faults + 1

RecordAt(x) == log[x.partition][x.offset + 1]

\* Mutation: the key is not compared.
Valid_AnyKey(r) == r.article # None

\* The checks of process_record: the message parses, and its article is the
\* key.  Nothing relates its event_id to either.
Valid(r) == r.article # None /\ r.key = r.article

\* What group g had to do about the record at x is done.
Handled(g, x) ==
  IF Valid(RecordAt(x)) THEN stored[CollectionOf[g]][RecordAt(x).event] # None
                        ELSE x \in poison

-----------------------------------------------------------------------------
(* The topic                                                               *)

\* The dispatcher publishes the event of an article at least once, with the
\* event_id from_article makes; others may publish what does not parse, what
\* has the key of another article, and a valid record with any event_id.
Produce(r) ==
  LET p == PartitionOf[r.key] IN
  /\ Len(log[p]) < LogCap
  /\ log' = [log EXCEPT ![p] = Append(@, r)]
  /\ UNCHANGED <<base, unread, committed, groupVars, mongoVars, consumerVars, faults>>

\* Retention deletes the oldest record of p, read or not.
Expire(p) ==
  /\ base[p] < Len(log[p])
  /\ base' = [base EXCEPT ![p] = @ + 1]
  /\ unread' = [g \in Groups |-> IF Handled(g, Place(p, base[p])) THEN unread[g]
                                 ELSE unread[g] \cup {Place(p, base[p])}]
  /\ UNCHANGED <<log, committed, groupVars, mongoVars, consumerVars, faults>>

-----------------------------------------------------------------------------
(* The groups                                                              *)

Running(g) == {c \in Consumers : GroupOf[c] = g /\ pc[c] # "down"}

\* A running consumer has not been admitted, or a partition has no member.
Unbalanced(g) ==
  \/ \E c \in Running(g) : member[c] = "out"
  \/ \E p \in Partitions : owner[g][p] \notin {c \in Running(g) : member[c] # "out"}

\* The coordinator starts a generation with the members M.  A consumer that
\* is left out, or admitted anew, has missed its heartbeats.
Rebalance(g, M) ==
  /\ IF M = Running(g) /\ Unbalanced(g) THEN UNCHANGED faults ELSE Fault
  /\ \E f \in [Partitions -> M] : owner' = [owner EXCEPT ![g] = f]
  /\ member' = [c \in Consumers |-> IF GroupOf[c] # g THEN member[c]
                                    ELSE IF c \in M THEN "invited" ELSE "out"]
  /\ UNCHANGED <<kafkaVars, committed, mongoVars, consumerVars>>

\* A member learns its assignment, and starts where the group has committed.
Sync(c) ==
  /\ member[c] = "invited"
  /\ member' = [member EXCEPT ![c] = "synced"]
  /\ position' = [position EXCEPT ![c] =
       [p \in Partitions |-> IF owner[GroupOf[c]][p] = c THEN committed[GroupOf[c]][p] ELSE None]]
  /\ UNCHANGED <<kafkaVars, committed, owner, mongoVars, pc, record, faults>>

-----------------------------------------------------------------------------
(* run and process_record                                                  *)

Start(c) ==
  /\ pc[c] = "down"
  /\ pc' = [pc EXCEPT ![c] = "poll"]
  /\ UNCHANGED <<kafkaVars, committed, groupVars, mongoVars, position, record, faults>>

\* The process ends; the coordinator finds out, or is told by consumer.stop.
Stop(c) ==
  /\ pc' = [pc EXCEPT ![c] = "down"]
  /\ record' = [record EXCEPT ![c] = None]
  /\ position' = [position EXCEPT ![c] = [p \in Partitions |-> None]]
  /\ member' = [member EXCEPT ![c] = "out"]

\* async for: the next record; one that has expired is skipped ("earliest").
Poll(c, p) ==
  /\ pc[c] = "poll"
  /\ position[c][p] # None
  /\ \E o \in 0..(LogCap - 1) :
       /\ o = IF position[c][p] < base[p] THEN base[p] ELSE position[c][p]
       /\ o < Len(log[p])
       /\ record' = [record EXCEPT ![c] = Place(p, o)]
       /\ position' = [position EXCEPT ![c][p] = o + 1]
  /\ pc' = [pc EXCEPT ![c] = "store"]
  /\ UNCHANGED <<kafkaVars, committed, groupVars, mongoVars, faults>>

\* Mutation: $set in place of $setOnInsert.
Upsert_Overwrites(c) ==
  LET r == RecordAt(record[c]) IN
  IF Valid(r)
  THEN /\ stored' = [stored EXCEPT ![CollectionOf[GroupOf[c]]][r.event] = record[c]]
       /\ UNCHANGED poison
  ELSE poison' = poison \cup {record[c]} /\ UNCHANGED stored

\* update_one by event_id, with $setOnInsert and upsert: a document that
\* exists stays, whatever article it tells of.
Upsert(c) ==
  LET r == RecordAt(record[c])
      k == CollectionOf[GroupOf[c]] IN
  IF Valid(r)
  THEN /\ stored' = IF stored[k][r.event] = None
                    THEN [stored EXCEPT ![k][r.event] = record[c]] ELSE stored
       /\ UNCHANGED poison
  ELSE poison' = poison \cup {record[c]} /\ UNCHANGED stored

\* Mutation: what is not valid ends the process, time and again.
Store_RaisesOnPoison(c) ==
  /\ pc[c] = "store"
  /\ IF Valid(RecordAt(record[c]))
     THEN Upsert(c) /\ pc' = [pc EXCEPT ![c] = "commit"] /\ UNCHANGED <<position, record, member>>
     ELSE Stop(c) /\ UNCHANGED mongoVars
  /\ UNCHANGED <<kafkaVars, committed, owner, faults>>

Store(c) ==
  /\ pc[c] = "store"
  /\ Upsert(c)
  /\ pc' = [pc EXCEPT ![c] = "commit"]
  /\ UNCHANGED <<kafkaVars, committed, groupVars, position, record, faults>>

\* Mutation: the offset is committed all the same.
StoreFails_Committed(c) ==
  /\ pc[c] = "store"
  /\ Fault
  /\ pc' = [pc EXCEPT ![c] = "commit"]
  /\ UNCHANGED <<kafkaVars, committed, groupVars, mongoVars, position, record>>

\* Mutation: the error is logged, and the next record read.
StoreFails_Logged(c) ==
  /\ pc[c] = "store"
  /\ Fault
  /\ pc' = [pc EXCEPT ![c] = "poll"]
  /\ record' = [record EXCEPT ![c] = None]
  /\ UNCHANGED <<kafkaVars, committed, groupVars, mongoVars, position>>

\* MongoDB raises, with the write done or not: nothing catches it.
StoreFails(c) ==
  /\ pc[c] = "store"
  /\ Fault
  /\ Upsert(c) \/ UNCHANGED mongoVars
  /\ Stop(c)
  /\ UNCHANGED <<kafkaVars, committed, owner>>

\* aiokafka checks its assignment, the coordinator the generation.
MayCommit(c) == member[c] = "synced" /\ position[c][record[c].partition] # None

CommitOffset(c) ==
  committed' = [committed EXCEPT ![GroupOf[c]][record[c].partition] = record[c].offset + 1]

\* Mutation: off by one.
Commit_OneTooFar(c) ==
  /\ pc[c] = "commit" /\ MayCommit(c)
  /\ committed' = [committed EXCEPT ![GroupOf[c]][record[c].partition] = record[c].offset + 2]
  /\ pc' = [pc EXCEPT ![c] = "poll"]
  /\ record' = [record EXCEPT ![c] = None]
  /\ UNCHANGED <<kafkaVars, groupVars, mongoVars, position, faults>>

Commit(c) ==
  /\ pc[c] = "commit" /\ MayCommit(c)
  /\ CommitOffset(c)
  /\ pc' = [pc EXCEPT ![c] = "poll"]
  /\ record' = [record EXCEPT ![c] = None]
  /\ UNCHANGED <<kafkaVars, groupVars, mongoVars, position, faults>>

\* commit raises: the generation is over, or p is not c's any more ...
CommitRefused(c) ==
  /\ pc[c] = "commit" /\ ~ MayCommit(c)
  /\ Stop(c)
  /\ UNCHANGED <<kafkaVars, committed, owner, mongoVars, faults>>

\* ... or the answer is lost, with the offset committed or not.
CommitFails(c) ==
  /\ pc[c] = "commit" /\ MayCommit(c)
  /\ Fault
  /\ CommitOffset(c) \/ UNCHANGED committed
  /\ Stop(c)
  /\ UNCHANGED <<kafkaVars, owner, mongoVars>>

Crash(c) ==
  /\ pc[c] # "down"
  /\ Fault
  /\ Stop(c)
  /\ UNCHANGED <<kafkaVars, committed, owner, mongoVars>>

-----------------------------------------------------------------------------
Run(c) ==
  \/ Start(c) \/ Sync(c)
  \/ \E p \in Partitions : Poll(c, p)
  \/ Store(c) \/ StoreFails(c)
  \/ Commit(c) \/ CommitRefused(c) \/ CommitFails(c)
  \/ Crash(c)

Next ==
  \/ \E r \in Records : Produce(r)
  \/ \E p \in Partitions : Expire(p)
  \/ \E g \in Groups : \E M \in SUBSET Running(g) : Rebalance(g, M)
  \/ \E c \in Consumers : Run(c)

Spec == Init /\ [][Next]_vars

(***************************************************************************)
(* Consumers are restarted and go on, and the coordinator completes the    *)
(* rebalances that are due.  Nothing is assumed of retention.              *)
(***************************************************************************)
Fairness ==
  /\ \A g \in Groups : WF_vars(Unbalanced(g) /\ Rebalance(g, Running(g)))
  /\ \A c \in Consumers :
       /\ WF_vars(Start(c)) /\ WF_vars(Sync(c))
       /\ WF_vars(\E p \in Partitions : Poll(c, p))
       /\ WF_vars(Store(c)) /\ WF_vars(Commit(c) \/ CommitRefused(c))

FairSpec == Spec /\ Fairness

-----------------------------------------------------------------------------
(* Properties                                                              *)

TypeOK ==
  /\ log \in [Partitions -> Seq(Records)]
  /\ base \in [Partitions -> 0..LogCap]
  /\ committed \in [Groups -> [Partitions -> 0..LogCap]]
  /\ owner \in [Groups -> [Partitions -> Consumers \cup {None}]]
  /\ member \in [Consumers -> {"out", "invited", "synced"}]
  /\ position \in [Consumers -> [Partitions -> 0..LogCap \cup {None}]]
  /\ pc \in [Consumers -> {"down", "poll", "store", "commit"}]
  /\ record \in [Consumers -> Places \cup {None}]
  /\ stored \in [Collections -> [Events -> Places \cup {None}]]
  /\ poison \in SUBSET Places
  /\ unread \in [Groups -> SUBSET Places]
  /\ faults \in 0..MaxFaults

Settled(g, x) == Handled(g, x) \/ x \in unread[g]

\* The record at x has the event_id e, and the key of the article it names.
Tells(x, e) == RecordAt(x).event = e /\ RecordAt(x).key = RecordAt(x).article

\* A committed offset leaves nothing behind it undone: the event of each record
\* before it has its document, or the record is kept as poison, or expired before any consumer of
\* the group got hold of it.  No crash, failed write, lost answer, rebalance
\* or late commit under a newer assignment makes a group skip a record
\* (process_record commits only after update_one has returned).
NothingSkipped ==
  \A g \in Groups, p \in Partitions :
    \A o \in 0..(LogCap - 1) : o < committed[g][p] => Settled(g, Place(p, o))

\* The document of an event_id tells of the first valid record with that id in
\* its partition, and of the article the record was keyed by: duplicates,
\* replays by another group and consumers that have lost their partition never
\* replace it or come first (kafka_partition and kafka_offset under
\* $setOnInsert).  Only where that first record expired unread may a later one
\* have taken its place.  With the event_ids of from_article this is the first
\* record of the article's event; a producer that gives a valid record the
\* event_id of another article takes that document if it comes first, and the
\* order of two partitions is then left to the consumers.
FirstRecordKept ==
  \A g \in Groups, e \in Events :
    LET k == CollectionOf[g]
        x == stored[k][e] IN
    x # None =>
      /\ Tells(x, e) /\ x.partition = PartitionOf[RecordAt(x).article]
      /\ \A o \in 0..(LogCap - 1) :
           o < x.offset /\ Tells(Place(x.partition, o), e) =>
             \E h \in Groups : CollectionOf[h] = k /\ Place(x.partition, o) \in unread[h]

Promise == INSTANCE EventPromise WITH
  topic <- log, lost <- unread, documents <- stored, parked <- poison, progress <- committed

\* The consumers keep the promise of EventPromise: seen from the collections
\* and the committed offsets, every event_id takes effect once and from its
\* first record, poison is what announces nothing, offsets move over settled records
\* only, and nothing of this is ever taken back, although records are read and
\* written again and again by consumers that crash, lose their partitions or
\* share a collection with a replay.
KeepsPromise == Promise!Spec

\* Each group handles each record in the end, unless it expires first: no
\* record, valid or not, blocks the records behind it for ever.
EventuallySettled ==
  \A g \in Groups, p \in Partitions :
    \A o \in 0..(LogCap - 1) : o < Len(log[p]) ~> o < Len(log[p]) /\ Settled(g, Place(p, o))

-----------------------------------------------------------------------------
(* The invariant that module EventConsumerProofs proves inductive          *)

\* The log is bounded and partitioned by key.
LogOK ==
  \A p \in Partitions :
    /\ Len(log[p]) <= LogCap
    /\ base[p] <= Len(log[p])
    /\ \A i \in 1..Len(log[p]) : PartitionOf[log[p][i].key] = p

\* What has expired is accounted for.
ExpiredOK ==
  \A g \in Groups, p \in Partitions :
    \A o \in 0..(LogCap - 1) : o < base[p] => Settled(g, Place(p, o))

OffsetsOK ==
  \A g \in Groups, p \in Partitions : committed[g][p] <= Len(log[p])

\* Whatever is before the record a consumer processes is done; so is the
\* record itself when it is about to be committed.
RecordsOK ==
  \A c \in Consumers :
    pc[c] \in {"store", "commit"} =>
      /\ record[c] \in Places
      /\ record[c].offset < Len(log[record[c].partition])
      /\ \A o \in 0..(LogCap - 1) :
           o < record[c].offset => Settled(GroupOf[c], Place(record[c].partition, o))
      /\ pc[c] = "commit" => Settled(GroupOf[c], record[c])

\* So is whatever is before a position, but the record in hand.
PositionsOK ==
  \A c \in Consumers, p \in Partitions :
    position[c][p] # None =>
      /\ position[c][p] <= Len(log[p])
      /\ \A o \in 0..(LogCap - 1) :
           o < position[c][p] =>
             \/ Settled(GroupOf[c], Place(p, o))
             \/ pc[c] = "store" /\ record[c] = Place(p, o)

\* Documents tell of records that were published.
DocumentsOK ==
  \A g \in Groups, e \in Events :
    LET x == stored[CollectionOf[g]][e] IN
    x # None => x.offset < Len(log[x.partition])

Inv == /\ TypeOK /\ LogOK /\ ExpiredOK /\ OffsetsOK /\ NothingSkipped
       /\ RecordsOK /\ PositionsOK /\ DocumentsOK /\ FirstRecordKept
=============================================================================
