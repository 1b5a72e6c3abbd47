----------------------------- MODULE EventPromise -----------------------------
(***************************************************************************)
(* What the consumers promise about the events on the topic, with no       *)
(* consumers, generations, assignments, fetch positions or crashes: each   *)
(* event_id takes effect once in a collection, its first record counts     *)
(* (the first of its partition, should producers use one event_id in       *)
(* several), and a group moves past a record only when nothing is left to  *)
(* be done about it.  Neither a document, nor a poison record, nor the loss of a record  *)
(* to retention is ever taken back.  Module EventConsumer implements this  *)
(* specification.                                                          *)
(***************************************************************************)
EXTENDS Naturals, Sequences

CONSTANTS
  Articles,      \* articles, and so the keys of records
  Events,        \* event_ids
  Partitions,    \* partitions of the topic
  PartitionOf,   \* the partition of a key
  Groups,        \* consumer groups
  CollectionOf,  \* the collection of each group
  LogCap,        \* bound: records in a partition
  None           \* no article, no event, no record

VARIABLES
  topic,      \* topic[p]: the records published in partition p
  lost,       \* lost[g]: records that expired before g had handled them
  documents,  \* documents[k][e]: the record that e's document in k tells of
  parked,     \* records kept as poison
  progress    \* progress[g][p]: the offset that group g continues at

vars == <<topic, lost, documents, parked, progress>>

Collections == {CollectionOf[g] : g \in Groups}
Place(p, o) == [partition |-> p, offset |-> o]
Places == [partition : Partitions, offset : 0..(LogCap - 1)]
Published == {x \in Places : x.offset < Len(topic[x.partition])}

RecordAt(x) == topic[x.partition][x.offset + 1]
Announces(x, e) == \E a \in Articles : RecordAt(x) = [key |-> a, article |-> a, event |-> e]

Void(x) == \A e \in Events : ~ Announces(x, e)

\* Nothing is left to be done by g about x.
Done(g, x) ==
  /\ Void(x) => x \in parked
  /\ \A e \in Events : Announces(x, e) => documents[CollectionOf[g]][e] # None
Settled(g, x) == Done(g, x) \/ x \in lost[g]

Init ==
  /\ topic = [p \in Partitions |-> <<>>]
  /\ lost = [g \in Groups |-> {}]
  /\ documents = [k \in Collections |-> [e \in Events |-> None]]
  /\ parked = {}
  /\ progress = [g \in Groups |-> [p \in Partitions |-> 0]]

\* The topic grows at its end; a key decides the partition.
Publish(k, a, e) ==
  /\ Len(topic[PartitionOf[k]]) < LogCap
  /\ topic' = [topic EXCEPT ![PartitionOf[k]] = Append(@, [key |-> k, article |-> a, event |-> e])]
  /\ UNCHANGED <<lost, documents, parked, progress>>

\* Retention deletes a record, which is lost to those who are not done with it.
Lose(x) ==
  /\ lost' = [g \in Groups |-> IF Done(g, x) THEN lost[g] ELSE lost[g] \cup {x}]
  /\ UNCHANGED <<topic, documents, parked, progress>>

\* Collection k gets the document of e: once, and from the first record of a
\* partition, or from the first that was not lost to a group of k.
Document(k, e, x) ==
  /\ Announces(x, e) /\ documents[k][e] = None
  /\ \A o \in 0..(x.offset - 1) :
       Announces(Place(x.partition, o), e) =>
         \E g \in Groups : CollectionOf[g] = k /\ Place(x.partition, o) \in lost[g]
  /\ documents' = [documents EXCEPT ![k][e] = x]
  /\ UNCHANGED <<topic, lost, parked, progress>>

\* What announces nothing is kept for an operator.
Park(x) ==
  /\ Void(x)
  /\ parked' = parked \cup {x}
  /\ UNCHANGED <<topic, lost, documents, progress>>

\* A group continues at n: further on, or again further back, but never past
\* a record that is not settled.
Advance(g, p, n) ==
  /\ \A o \in 0..(n - 1) : Settled(g, Place(p, o))
  /\ progress' = [progress EXCEPT ![g][p] = n]
  /\ UNCHANGED <<topic, lost, documents, parked>>

Next ==
  \/ \E k, a \in Articles, e \in Events : Publish(k, a, e)
  \/ \E k \in Articles : Publish(k, None, None)
  \/ \E x \in Published :
       \/ Lose(x) \/ Park(x)
       \/ \E k \in Collections, e \in Events : Document(k, e, x)
  \/ \E g \in Groups, p \in Partitions : \E n \in 0..Len(topic[p]) : Advance(g, p, n)

Spec == Init /\ [][Next]_vars
=============================================================================
