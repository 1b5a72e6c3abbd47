------------------------- MODULE EventConsumerProofs -------------------------
(***************************************************************************)
(* What holds of the event consumers for any number of articles,           *)
(* partitions, groups and consumers, logs of any length and any number of  *)
(* faults.                                                                 *)
(***************************************************************************)
EXTENDS EventConsumer, TLAPS

-----------------------------------------------------------------------------
(* What is settled stays settled                                           *)

Offsets == 0..(LogCap - 1)

\* The group has settled the first n records of a partition.
Done(g, p, n) ==
  /\ n <= Len(log[p])
  /\ \A o \in Offsets : o < n => Settled(g, Place(p, o))

\* No step takes anything back.
Grows ==
  /\ \A p \in Partitions :
       /\ Len(log[p]) <= Len(log'[p])
       /\ \A i \in 1..Len(log[p]) : log'[p][i] = log[p][i]
  /\ \A k \in Collections, e \in Events : stored[k][e] # None => stored'[k][e] # None
  /\ poison \subseteq poison'
  /\ \A g \in Groups : unread[g] \subseteq unread'[g]

\* Place builds members of Places.
LEMMA PlaceIsAPlace ==
  ASSUME NEW p \in Partitions, NEW o \in Offsets
  PROVE  Place(p, o) \in Places /\ Place(p, o).partition = p /\ Place(p, o).offset = o
BY DEF Place, Places, Offsets

\* A place is made of its partition and its offset.
LEMMA PlaceOfPlace ==
  ASSUME NEW x \in Places
  PROVE  /\ x.partition \in Partitions /\ x.offset \in Offsets
         /\ x = Place(x.partition, x.offset)
BY DEF Place, Places, Offsets

\* The length of a partition is a number.
LEMMA LengthIsNat ==
  ASSUME TypeOK, NEW p \in Partitions
  PROVE  log[p] \in Seq(Records) /\ Len(log[p]) \in Nat
BY DEF TypeOK

\* What the log holds at a place is a record.
LEMMA LoggedIsRecord ==
  ASSUME TypeOK, NEW x \in Places, x.offset < Len(log[x.partition])
  PROVE  RecordAt(x) \in Records
<1>1. x.partition \in Partitions /\ x.offset \in Nat
  BY NumberAssumption DEF Places
<1>2. log[x.partition] \in Seq(Records) /\ x.offset + 1 \in 1..Len(log[x.partition])
  BY <1>1, LengthIsNat
<1> QED
  BY <1>2 DEF RecordAt

\* Appending to the log leaves what was in it.
LEMMA RecordStays ==
  ASSUME TypeOK, TypeOK', Grows, NEW x \in Places, x.offset < Len(log[x.partition])
  PROVE  /\ RecordAt(x)' = RecordAt(x) /\ RecordAt(x) \in Records
         /\ x.offset < Len(log'[x.partition])
<1>1. x.partition \in Partitions /\ x.offset \in Nat
  BY NumberAssumption DEF Places
<1>2. Len(log[x.partition]) \in Nat /\ Len(log'[x.partition]) \in Nat
  BY <1>1, LengthIsNat DEF TypeOK
<1>3. x.offset + 1 \in 1..Len(log[x.partition])
  BY <1>1, <1>2
<1>4. log'[x.partition][x.offset + 1] = log[x.partition][x.offset + 1]
  BY <1>1, <1>3 DEF Grows
<1>5. log[x.partition][x.offset + 1] \in Records
  BY <1>1, <1>3, LengthIsNat
<1>6. x.offset < Len(log'[x.partition])
  BY <1>1, <1>2 DEF Grows
<1> QED
  BY <1>4, <1>5, <1>6 DEF RecordAt

\* A valid record has an article and an event_id.
LEMMA ValidIsWhole ==
  ASSUME NEW r \in Records, Valid(r)
  PROVE  /\ r.article \in Articles /\ r.event \in Events /\ r.key = r.article
         /\ r = [key |-> r.article, article |-> r.article, event |-> r.event]
<1>1. r \in [key : Articles, article : Articles \cup {None}, event : Events \cup {None}]
  BY DEF Records
<1>2. r.article # None /\ r.event # None /\ r.key = r.article
  BY DEF Valid, Records
<1> QED
  BY <1>1, <1>2

\* What is settled stays settled, as documents, poison and losses only
\* grow.
LEMMA SettledStays ==
  ASSUME TypeOK, TypeOK', Grows, NEW g \in Groups, NEW x \in Places,
         x.offset < Len(log[x.partition]), Settled(g, x)
  PROVE  Settled(g, x)'
<1> DEFINE r == RecordAt(x)
<1>1. r' = r /\ r \in Records
  BY RecordStays
<1>2. CollectionOf[g] \in Collections
  BY DEF Collections
<1> HIDE DEF r
<1>3. CASE Valid(r)
  <2>1. r.event \in Events
    BY <1>1, <1>3, ValidIsWhole
  <2>2. Handled(g, x) => stored[CollectionOf[g]][r.event] # None
    BY <1>3 DEF Handled, r
  <2>3. Handled(g, x) => Handled(g, x)'
    BY <1>1, <1>2, <1>3, <2>1, <2>2 DEF Handled, Grows, r, Valid
  <2> QED
    BY <2>3 DEF Settled, Grows
<1>4. CASE ~ Valid(r)
  <2>1. Handled(g, x) => Handled(g, x)'
    BY <1>1, <1>4 DEF Handled, Grows, r, Valid
  <2> QED
    BY <2>1 DEF Settled, Grows
<1> QED
  BY <1>3, <1>4

\* The same of all records before an offset.
LEMMA DoneStays ==
  ASSUME TypeOK, TypeOK', Grows, NEW g \in Groups, NEW p \in Partitions, NEW n \in Nat,
         Done(g, p, n)
  PROVE  Done(g, p, n)'
<1>1. Len(log[p]) \in Nat /\ Len(log'[p]) \in Nat
  BY LengthIsNat DEF TypeOK
<1>2. n <= Len(log'[p])
  BY <1>1 DEF Done, Grows
<1>3. ASSUME NEW o \in Offsets, o < n PROVE Settled(g, Place(p, o))'
  <2>1. Settled(g, Place(p, o)) /\ o < Len(log[p])
    BY <1>1, <1>3, NumberAssumption DEF Done, Offsets
  <2> QED
    BY <2>1, PlaceIsAPlace, SettledStays
<1> QED
  BY <1>2, <1>3 DEF Done

\* What the document of e in collection k tells is true.
FirstAt(k, e, x) ==
  /\ x.offset < Len(log[x.partition])
  /\ Tells(x, e) /\ x.partition = PartitionOf[RecordAt(x).article]
  /\ \A o \in Offsets :
       o < x.offset /\ Tells(Place(x.partition, o), e) =>
         \E h \in Groups : CollectionOf[h] = k /\ Place(x.partition, o) \in unread[h]

\* What FirstRecordKept says of a document, taken apart.
LEMMA DocumentsAreFirst ==
  ASSUME TypeOK
  PROVE  DocumentsOK /\ FirstRecordKept <=>
           \A k \in Collections, e \in Events, x \in Places :
             stored[k][e] = x => FirstAt(k, e, x)
<1>1. ASSUME NEW g \in Groups, NEW e \in Events
      PROVE  stored[CollectionOf[g]][e] \in Places \cup {None}
  BY DEF TypeOK, Collections
<1>2. ASSUME NEW k \in Collections, NEW e \in Events, NEW x \in Places,
             DocumentsOK, FirstRecordKept, stored[k][e] = x
      PROVE  FirstAt(k, e, x)
  <2>1. PICK g \in Groups : k = CollectionOf[g]
    BY DEF Collections
  <2>2. x # None
    BY NoneAssumption
  <2> QED
    BY <1>2, <2>1, <2>2 DEF DocumentsOK, FirstRecordKept, FirstAt, Offsets
<1>3. ASSUME \A k \in Collections, e \in Events, x \in Places :
               stored[k][e] = x => FirstAt(k, e, x),
             NEW g \in Groups, NEW e \in Events, stored[CollectionOf[g]][e] # None
      PROVE  FirstAt(CollectionOf[g], e, stored[CollectionOf[g]][e])
  BY <1>1, <1>3 DEF Collections
<1>4. ASSUME \A k \in Collections, e \in Events, x \in Places :
               stored[k][e] = x => FirstAt(k, e, x)
      PROVE  DocumentsOK /\ FirstRecordKept
  <2>1. \A g \in Groups, e \in Events : stored[CollectionOf[g]][e] # None =>
          FirstAt(CollectionOf[g], e, stored[CollectionOf[g]][e])
    BY <1>3, <1>4
  <2>2. DocumentsOK
    BY <2>1 DEF DocumentsOK, FirstAt
  <2>3. ASSUME NEW g \in Groups, NEW e \in Events, stored[CollectionOf[g]][e] # None
        PROVE  LET k == CollectionOf[g]
                   x == stored[k][e] IN
               /\ Tells(x, e) /\ x.partition = PartitionOf[RecordAt(x).article]
               /\ \A o \in Offsets :
                    o < x.offset /\ Tells(Place(x.partition, o), e) =>
                      \E h \in Groups : CollectionOf[h] = k /\ Place(x.partition, o) \in unread[h]
    BY <2>1, <2>3 DEF FirstAt
  <2>4. FirstRecordKept
    BY <2>3 DEF FirstRecordKept, Offsets
  <2> QED
    BY <2>2, <2>4
<1> QED
  BY <1>2, <1>4

\* The same in the next state.
LEMMA DocumentsAreFirstNext ==
  ASSUME TypeOK',
         \A k \in Collections, e \in Events, x \in Places :
           stored'[k][e] = x => FirstAt(k, e, x)'
  PROVE  DocumentsOK' /\ FirstRecordKept'
<1>1. (DocumentsOK /\ FirstRecordKept <=>
         \A k \in Collections, e \in Events, x \in Places :
           stored[k][e] = x => FirstAt(k, e, x))'
  BY DocumentsAreFirst, PTL
<1> QED
  BY <1>1

\* The first record of an event stays the first in a log that grows.
LEMMA FirstStays ==
  ASSUME TypeOK, TypeOK', Grows, NEW k \in Collections, NEW e \in Events,
         NEW x \in Places, FirstAt(k, e, x)
  PROVE  FirstAt(k, e, x)'
<1>1. RecordAt(x)' = RecordAt(x) /\ x.offset < Len(log'[x.partition])
  BY RecordStays DEF FirstAt
<1>2. x.partition \in Partitions /\ x.offset \in Nat /\ Len(log[x.partition]) \in Nat
  BY PlaceOfPlace, LengthIsNat, NumberAssumption DEF Offsets
<1>3. ASSUME NEW o \in Offsets, o < x.offset
      PROVE  RecordAt(Place(x.partition, o))' = RecordAt(Place(x.partition, o))
  <2>1. o < Len(log[x.partition])
    BY <1>2, <1>3, NumberAssumption DEF Offsets, FirstAt
  <2> QED
    BY <1>2, <2>1, PlaceIsAPlace, RecordStays
<1>4. \A o \in Offsets :
        o < x.offset /\ Tells(Place(x.partition, o), e)' =>
          \E h \in Groups : CollectionOf[h] = k /\ Place(x.partition, o) \in unread'[h]
  BY <1>3 DEF Grows, FirstAt, Tells
<1> QED
  BY <1>1, <1>4 DEF FirstAt, Tells

\* Documents stay true as long as no new one is written.
LEMMA DocumentsStay ==
  ASSUME Inv, TypeOK', Grows, stored' = stored
  PROVE  DocumentsOK' /\ FirstRecordKept'
<1>1. TypeOK /\ DocumentsOK /\ FirstRecordKept
  BY DEF Inv
<1>2. ASSUME NEW k \in Collections, NEW e \in Events, NEW x \in Places, stored'[k][e] = x
      PROVE  FirstAt(k, e, x)'
  BY <1>1, <1>2, DocumentsAreFirst, FirstStays
<1> QED
  BY <1>2, DocumentsAreFirstNext

\* A step of the consumers, in terms of what their groups had settled.
LEMMA StepInv ==
  ASSUME Inv, TypeOK', LogOK', ExpiredOK', Grows, DocumentsOK', FirstRecordKept',
         \A g \in Groups, p \in Partitions :
           committed'[g][p] = committed[g][p] \/ Done(g, p, committed'[g][p]),
         \A c \in Consumers :
           \/ pc'[c] \in {"down", "poll"}
           \/ pc'[c] = pc[c] /\ record'[c] = record[c]
           \/ /\ pc[c] = "store" /\ pc'[c] = "commit" /\ record'[c] = record[c]
              /\ Settled(GroupOf[c], record[c])'
           \/ /\ pc'[c] = "store" /\ record'[c] \in Places
              /\ record'[c].offset < Len(log[record'[c].partition])
              /\ Done(GroupOf[c], record'[c].partition, record'[c].offset),
         \A c \in Consumers, p \in Partitions :
           \/ position'[c][p] = None
           \/ Done(GroupOf[c], p, position'[c][p])
           \/ /\ position'[c][p] = position[c][p]
              /\ \/ pc[c] # "store"
                 \/ pc'[c] = pc[c] /\ record'[c] = record[c]
                 \/ record'[c] = record[c] /\ Settled(GroupOf[c], record[c])'
           \/ \E o \in Offsets :
                /\ position'[c][p] = o + 1 /\ Done(GroupOf[c], p, o) /\ o < Len(log[p])
                /\ pc'[c] = "store" /\ record'[c] = Place(p, o)
  PROVE  Inv'
<1>1. /\ TypeOK /\ LogOK /\ ExpiredOK /\ OffsetsOK /\ NothingSkipped
      /\ RecordsOK /\ PositionsOK /\ DocumentsOK /\ FirstRecordKept
  BY DEF Inv
<1>2. \A g \in Groups, p \in Partitions : Done(g, p, committed[g][p])
  BY <1>1 DEF OffsetsOK, NothingSkipped, Done, Offsets
<1>3. ASSUME NEW g \in Groups, NEW p \in Partitions, NEW n \in Nat, committed'[g][p] = n
      PROVE  Done(g, p, n)'
  BY <1>1, <1>2, <1>3, DoneStays
<1>4. OffsetsOK' /\ NothingSkipped'
  <2>1. \A g \in Groups, p \in Partitions : committed'[g][p] \in Nat
    BY NumberAssumption DEF TypeOK
  <2> QED
    BY <1>3, <2>1 DEF OffsetsOK, NothingSkipped, Done, Offsets
<1>5. RecordsOK'
  <2> SUFFICES ASSUME NEW c \in Consumers, NEW x \in Places, pc'[c] \in {"store", "commit"},
                      record'[c] = x
               PROVE  /\ x.offset < Len(log'[x.partition])
                      /\ \A o \in Offsets :
                           o < x.offset => Settled(GroupOf[c], Place(x.partition, o))'
                      /\ pc'[c] = "commit" => Settled(GroupOf[c], x)'
    <3>1. \A c \in Consumers : pc'[c] \in {"store", "commit"} => record'[c] \in Places
      BY <1>1 DEF RecordsOK
    <3> QED
      BY <3>1 DEF RecordsOK, Offsets
  <2>1. GroupOf[c] \in Groups
    BY AssignmentAssumption
  <2>2. x.partition \in Partitions /\ x.offset \in Nat
    BY PlaceOfPlace, NumberAssumption DEF Offsets
  <2>3. x.offset < Len(log[x.partition]) /\ Done(GroupOf[c], x.partition, x.offset)
    <3>1. CASE record[c] = x /\ pc[c] \in {"store", "commit"}
      <4>1. Len(log[x.partition]) \in Nat
        BY <1>1, <2>2, LengthIsNat
      <4> QED
        BY <1>1, <2>2, <3>1, <4>1 DEF RecordsOK, Done, Offsets
    <3> QED
      BY <3>1
  <2>4. Done(GroupOf[c], x.partition, x.offset)'
    BY <1>1, <2>1, <2>2, <2>3, DoneStays
  <2>5. x.offset < Len(log'[x.partition])
    BY <1>1, <2>3, RecordStays
  <2>6. ASSUME pc'[c] = "commit" PROVE Settled(GroupOf[c], x)'
    <3>1. CASE pc[c] = "commit" /\ record[c] = x
      <4>1. Settled(GroupOf[c], x)
        BY <1>1, <3>1 DEF RecordsOK
      <4> QED
        BY <1>1, <2>1, <2>3, <4>1, SettledStays
    <3>2. CASE pc[c] = "store" /\ record[c] = x /\ Settled(GroupOf[c], record[c])'
      <4>1. pc'[c] # pc[c]
        BY <2>6, <3>2
      <4> QED
        BY <2>6, <3>2, <4>1
    <3> QED
      BY <2>6, <3>1, <3>2
  <2> QED
    BY <2>4, <2>5, <2>6 DEF Done
<1>6. PositionsOK'
  <2> SUFFICES ASSUME NEW c \in Consumers, NEW p \in Partitions, NEW n \in 0..LogCap,
                      position'[c][p] = n
               PROVE  /\ n <= Len(log'[p])
                      /\ \A o \in Offsets : o < n =>
                           \/ Settled(GroupOf[c], Place(p, o))'
                           \/ pc'[c] = "store" /\ record'[c] = Place(p, o)
    <3>1. \A c \in Consumers, p \in Partitions :
            position'[c][p] # None => position'[c][p] \in 0..LogCap
      BY DEF TypeOK
    <3> QED
      BY <3>1 DEF PositionsOK, Offsets
  <2>1. GroupOf[c] \in Groups
    BY AssignmentAssumption
  <2>2. Len(log[p]) \in Nat /\ Len(log'[p]) \in Nat /\ Len(log[p]) <= Len(log'[p])
    BY <1>1, LengthIsNat DEF TypeOK, Grows
  <2>3. n # None /\ n \in Nat
    BY NoneAssumption, NumberAssumption
  <2>4. CASE Done(GroupOf[c], p, n)
    BY <1>1, <2>1, <2>4, DoneStays DEF Done
  <2>5. CASE /\ position[c][p] = n
             /\ \/ pc[c] # "store"
                \/ pc'[c] = pc[c] /\ record'[c] = record[c]
                \/ record'[c] = record[c] /\ Settled(GroupOf[c], record[c])'
    <3>1. n <= Len(log[p])
      BY <1>1, <2>3, <2>5 DEF PositionsOK
    <3>2. ASSUME NEW o \in Offsets, o < n
          PROVE  \/ Settled(GroupOf[c], Place(p, o))'
                 \/ pc'[c] = "store" /\ record'[c] = Place(p, o)
      <4>1. CASE Settled(GroupOf[c], Place(p, o))
        <5>1. o < Len(log[p])
          BY <2>2, <2>3, <3>1, <3>2, NumberAssumption DEF Offsets
        <5> QED
          BY <1>1, <2>1, <4>1, <5>1, PlaceIsAPlace, SettledStays
      <4>2. CASE pc[c] = "store" /\ record[c] = Place(p, o)
        BY <2>5, <4>2
      <4> QED
        BY <1>1, <2>3, <2>5, <3>2, <4>1, <4>2 DEF PositionsOK, Offsets
    <3>3. n <= Len(log'[p])
      BY <2>2, <2>3, <3>1
    <3> QED
      BY <3>2, <3>3
  <2>6. CASE \E o \in Offsets :
               /\ n = o + 1 /\ Done(GroupOf[c], p, o) /\ o < Len(log[p])
               /\ pc'[c] = "store" /\ record'[c] = Place(p, o)
    <3>1. PICK k \in Offsets :
            /\ n = k + 1 /\ Done(GroupOf[c], p, k) /\ k < Len(log[p])
            /\ pc'[c] = "store" /\ record'[c] = Place(p, k)
      BY <2>6
    <3>2. k \in Nat
      BY NumberAssumption DEF Offsets
    <3>3. Done(GroupOf[c], p, k)'
      BY <1>1, <2>1, <3>1, <3>2, DoneStays
    <3>4. \A o \in Offsets : o < n => o < k \/ o = k
      BY <3>1, <3>2, NumberAssumption DEF Offsets
    <3>5. n <= Len(log'[p])
      BY <2>2, <3>1, <3>2
    <3> QED
      BY <3>1, <3>3, <3>4, <3>5 DEF Done
  <2> QED
    BY <2>3, <2>4, <2>5, <2>6
<1> QED
  BY <1>4, <1>5, <1>6 DEF Inv

-----------------------------------------------------------------------------
(* The initial states, and steps of Kafka and of the groups                *)

\* The invariant holds initially.
LEMMA InitInv == Init => Inv
<1> SUFFICES ASSUME Init PROVE Inv
  OBVIOUS
<1>1. \A p \in Partitions : log[p] = <<>> /\ Len(log[p]) = 0 /\ base[p] = 0
  BY DEF Init
<1>2. \A g \in Groups, p \in Partitions : committed[g][p] = 0
  BY DEF Init
<1>3. TypeOK
  BY NumberAssumption DEF Init, TypeOK
<1>4. LogOK
  BY <1>1, NumberAssumption DEF LogOK
<1>5. ExpiredOK /\ OffsetsOK /\ NothingSkipped
  BY <1>1, <1>2, NumberAssumption DEF ExpiredOK, OffsetsOK, NothingSkipped
<1>6. RecordsOK /\ PositionsOK
  BY DEF Init, RecordsOK, PositionsOK
<1>7. \A g \in Groups, e \in Events : stored[CollectionOf[g]][e] = None
  BY DEF Init, Collections
<1>8. DocumentsOK /\ FirstRecordKept
  BY <1>7 DEF DocumentsOK, FirstRecordKept
<1> QED
  BY <1>3, <1>4, <1>5, <1>6, <1>8 DEF Inv

\* A step in which nothing expires keeps ExpiredOK.
LEMMA ExpiredStays ==
  ASSUME Inv, TypeOK', Grows, base' = base
  PROVE  ExpiredOK'
<1>1. TypeOK /\ LogOK /\ ExpiredOK
  BY DEF Inv
<1> SUFFICES ASSUME NEW g \in Groups, NEW p \in Partitions, NEW o \in Offsets, o < base[p]
             PROVE  Settled(g, Place(p, o))'
  BY DEF ExpiredOK, Offsets
<1>2. o \in Nat /\ base[p] \in Nat /\ Len(log[p]) \in Nat
  BY <1>1, LengthIsNat, NumberAssumption DEF Offsets, TypeOK
<1>3. o < Len(log[p])
  BY <1>1, <1>2 DEF LogOK
<1>4. Settled(g, Place(p, o))
  BY <1>1 DEF ExpiredOK, Offsets
<1> QED
  BY <1>1, <1>3, <1>4, PlaceIsAPlace, SettledStays

\* A step that leaves the topic and MongoDB alone is one in which the log
\* and what is settled grow, if trivially.
LEMMA QuietGrows ==
  ASSUME TypeOK, log' = log, stored' = stored, poison' = poison, unread' = unread
  PROVE  Grows
<1>1. \A p \in Partitions : Len(log[p]) \in Nat
  BY LengthIsNat
<1> QED
  BY <1>1 DEF Grows

\* A busy consumer has a record of the log in hand.
LEMMA RecordInHand ==
  ASSUME Inv, NEW c \in Consumers, pc[c] \in {"store", "commit"}
  PROVE  /\ record[c] \in Places /\ record[c].partition \in Partitions
         /\ record[c].offset \in Offsets /\ GroupOf[c] \in Groups
         /\ record[c].offset < Len(log[record[c].partition])
         /\ CollectionOf[GroupOf[c]] \in Collections
BY PlaceOfPlace, AssignmentAssumption DEF Inv, RecordsOK, Collections

\* What Stop does to the type of the consumer variables.
LEMMA StopStops ==
  ASSUME TypeOK, NEW c \in Consumers, Stop(c)
  PROVE  /\ pc' \in [Consumers -> {"down", "poll", "store", "commit"}]
         /\ record' \in [Consumers -> Places \cup {None}]
         /\ position' \in [Consumers -> [Partitions -> 0..LogCap \cup {None}]]
         /\ member' \in [Consumers -> {"out", "invited", "synced"}]
         /\ pc'[c] = "down" /\ \A p \in Partitions : position'[c][p] = None
         /\ \A d \in Consumers : d # c =>
              pc'[d] = pc[d] /\ record'[d] = record[d] /\ position'[d] = position[d]
BY DEF TypeOK, Stop

\* A process ends, having written and committed what it may.
LEMMA EndInv ==
  ASSUME Inv, NEW c \in Consumers, Stop(c),
         log' = log, base' = base, unread' = unread, owner' = owner,
         faults' \in 0..MaxFaults, Grows,
         stored' \in [Collections -> [Events -> Places \cup {None}]],
         poison' \in SUBSET Places,
         TypeOK' => DocumentsOK' /\ FirstRecordKept',
         committed' \in [Groups -> [Partitions -> 0..LogCap]],
         \A g \in Groups, p \in Partitions :
           committed'[g][p] = committed[g][p] \/ Done(g, p, committed'[g][p])
  PROVE  Inv'
<1>1. TypeOK /\ LogOK
  BY DEF Inv
<1>2. /\ pc' \in [Consumers -> {"down", "poll", "store", "commit"}]
      /\ record' \in [Consumers -> Places \cup {None}]
      /\ position' \in [Consumers -> [Partitions -> 0..LogCap \cup {None}]]
      /\ member' \in [Consumers -> {"out", "invited", "synced"}]
      /\ pc'[c] = "down" /\ \A p \in Partitions : position'[c][p] = None
      /\ \A d \in Consumers : d # c =>
           pc'[d] = pc[d] /\ record'[d] = record[d] /\ position'[d] = position[d]
  BY <1>1, StopStops
<1>3. TypeOK'
  BY <1>1, <1>2 DEF TypeOK
<1>4. LogOK' /\ ExpiredOK'
  BY <1>1, <1>3, ExpiredStays DEF LogOK
<1> QED
  BY <1>2, <1>3, <1>4, StepInv

\* Action Rebalance keeps the invariant.
LEMMA RebalanceInv ==
  ASSUME Inv, NEW g \in Groups, NEW M \in SUBSET Running(g), Rebalance(g, M)
  PROVE  Inv'
<1>1. TypeOK /\ LogOK
  BY DEF Inv
<1>2. /\ log' = log /\ base' = base /\ unread' = unread /\ committed' = committed
      /\ stored' = stored /\ poison' = poison /\ position' = position
      /\ pc' = pc /\ record' = record
  BY DEF Rebalance, kafkaVars, mongoVars, consumerVars
<1>3. faults' \in 0..MaxFaults
  BY <1>1, NumberAssumption DEF Rebalance, Fault, TypeOK
<1>4. owner' \in [Groups -> [Partitions -> Consumers \cup {None}]]
  <2>1. PICK f \in [Partitions -> M] : owner' = [owner EXCEPT ![g] = f]
    BY DEF Rebalance
  <2>2. f \in [Partitions -> Consumers \cup {None}]
    BY DEF Running
  <2> QED
    BY <1>1, <2>1, <2>2 DEF TypeOK
<1>5. member' \in [Consumers -> {"out", "invited", "synced"}]
  BY <1>1 DEF Rebalance, TypeOK
<1>6. TypeOK' /\ Grows
  BY <1>1, <1>2, <1>3, <1>4, <1>5, QuietGrows DEF TypeOK
<1>7. LogOK' /\ ExpiredOK' /\ DocumentsOK' /\ FirstRecordKept'
  BY <1>1, <1>2, <1>6, ExpiredStays, DocumentsStay DEF LogOK
<1> QED
  BY <1>2, <1>6, <1>7, StepInv

\* A stuttering step keeps the invariant.
LEMMA StutterInv ==
  ASSUME Inv, UNCHANGED vars
  PROVE  Inv'
<1>1. TypeOK /\ LogOK
  BY DEF Inv
<1>2. /\ log' = log /\ base' = base /\ unread' = unread /\ committed' = committed
      /\ stored' = stored /\ poison' = poison /\ position' = position
      /\ pc' = pc /\ record' = record /\ owner' = owner /\ member' = member
      /\ faults' = faults
  BY DEF vars
<1>3. TypeOK' /\ Grows
  BY <1>1, <1>2, QuietGrows DEF TypeOK
<1>4. LogOK' /\ ExpiredOK' /\ DocumentsOK' /\ FirstRecordKept'
  BY <1>1, <1>2, <1>3, ExpiredStays, DocumentsStay DEF LogOK
<1> QED
  BY <1>2, <1>3, <1>4, StepInv

\* Action Produce keeps the invariant.
LEMMA ProduceInv ==
  ASSUME Inv, NEW r \in Records, Produce(r)
  PROVE  Inv'
<1>1. TypeOK /\ LogOK
  BY DEF Inv
<1> DEFINE q == PartitionOf[r.key]
<1>2. /\ base' = base /\ unread' = unread /\ committed' = committed
      /\ stored' = stored /\ poison' = poison /\ position' = position
      /\ pc' = pc /\ record' = record /\ owner' = owner /\ member' = member
      /\ faults' = faults
      /\ Len(log[q]) < LogCap /\ log' = [log EXCEPT ![q] = Append(log[q], r)]
  BY DEF Produce, groupVars, mongoVars, consumerVars
<1>3. q \in Partitions
  BY AssignmentAssumption DEF Records
<1>4. /\ log'[q] = Append(log[q], r)
      /\ \A p \in Partitions : p # q => log'[p] = log[p]
  BY <1>1, <1>2, <1>3 DEF TypeOK
<1>5. \A p \in Partitions : log[p] \in Seq(Records) /\ Len(log[p]) \in Nat
  BY <1>1, LengthIsNat
<1>6. /\ log'[q] \in Seq(Records) /\ Len(log'[q]) = Len(log[q]) + 1
      /\ \A i \in 1..Len(log[q]) : log'[q][i] = log[q][i]
      /\ log'[q][Len(log[q]) + 1] = r
  <2> HIDE DEF q
  <2>1. log[q] \in Seq(Records)
    BY <1>3, <1>5
  <2> QED
    BY <1>3, <1>4, <2>1
<1>7. log' \in [Partitions -> Seq(Records)]
  BY <1>1, <1>2, <1>3, <1>6 DEF TypeOK
<1>8. TypeOK'
  BY <1>1, <1>2, <1>7 DEF TypeOK
<1>9. \A p \in Partitions :
        /\ Len(log[p]) <= Len(log'[p])
        /\ \A i \in 1..Len(log[p]) : log'[p][i] = log[p][i]
  <2> SUFFICES ASSUME NEW p \in Partitions
               PROVE  /\ Len(log[p]) <= Len(log'[p])
                      /\ \A i \in 1..Len(log[p]) : log'[p][i] = log[p][i]
    OBVIOUS
  <2> HIDE DEF q
  <2>1. CASE p = q
    BY <1>5, <1>6, <2>1
  <2>2. CASE p # q
    <3>1. log'[p] = log[p] /\ Len(log[p]) \in Nat
      BY <1>4, <1>5, <2>2
    <3> QED
      BY <3>1
  <2> QED
    BY <2>1, <2>2
<1>10. Grows
  BY <1>2, <1>9 DEF Grows
<1>11. LogOK'
  <2> SUFFICES ASSUME NEW p \in Partitions
               PROVE  /\ Len(log'[p]) <= LogCap
                      /\ base[p] <= Len(log'[p])
                      /\ \A i \in 1..Len(log'[p]) : PartitionOf[log'[p][i].key] = p
    BY <1>2 DEF LogOK
  <2>1. /\ Len(log[p]) <= LogCap /\ base[p] <= Len(log[p]) /\ base[p] \in Nat
        /\ \A i \in 1..Len(log[p]) : PartitionOf[log[p][i].key] = p
    BY <1>1, NumberAssumption DEF LogOK, TypeOK
  <2>2. CASE p = q
    <3>1. \A i \in 1..Len(log'[q]) : i \in 1..Len(log[q]) \/ i = Len(log[q]) + 1
      BY <1>3, <1>5, <1>6
    <3>2. PartitionOf[r.key] = q
      OBVIOUS
    <3> HIDE DEF q
    <3>3. \A i \in 1..Len(log'[q]) : PartitionOf[log'[q][i].key] = q
      BY <1>6, <2>1, <2>2, <3>1, <3>2
    <3>4. Len(log'[q]) <= LogCap /\ base[q] <= Len(log'[q])
      BY <1>2, <1>3, <1>5, <1>6, <2>1, <2>2, NumberAssumption
    <3> QED
      BY <2>2, <3>3, <3>4
  <2>3. CASE p # q
    BY <1>4, <2>1, <2>3
  <2> QED
    BY <2>2, <2>3
<1>12. ExpiredOK' /\ DocumentsOK' /\ FirstRecordKept'
  BY <1>2, <1>8, <1>10, ExpiredStays, DocumentsStay
<1> QED
  BY <1>2, <1>8, <1>10, <1>11, <1>12, StepInv

\* Action Expire keeps the invariant.
LEMMA ExpireInv ==
  ASSUME Inv, NEW q \in Partitions, Expire(q)
  PROVE  Inv'
<1>1. TypeOK /\ LogOK /\ ExpiredOK
  BY DEF Inv
<1> DEFINE n == base[q]
<1>2. /\ log' = log /\ committed' = committed
      /\ stored' = stored /\ poison' = poison /\ position' = position
      /\ pc' = pc /\ record' = record /\ owner' = owner /\ member' = member
      /\ faults' = faults
      /\ n < Len(log[q]) /\ base' = [base EXCEPT ![q] = n + 1]
      /\ unread' = [g \in Groups |-> IF Handled(g, Place(q, n)) THEN unread[g]
                                     ELSE unread[g] \cup {Place(q, n)}]
  BY DEF Expire, groupVars, mongoVars, consumerVars
<1>3. Len(log[q]) \in Nat /\ Len(log[q]) <= LogCap /\ n \in Nat
  BY <1>1, LengthIsNat, NumberAssumption DEF LogOK, TypeOK
<1>4. n \in Offsets /\ n + 1 \in 0..LogCap
  BY <1>2, <1>3, NumberAssumption DEF Offsets
<1>5. Place(q, n) \in Places
  BY <1>4, PlaceIsAPlace
<1>6. base' \in [Partitions -> 0..LogCap] /\ unread' \in [Groups -> SUBSET Places]
  BY <1>1, <1>2, <1>4, <1>5 DEF TypeOK
<1>7. TypeOK'
  BY <1>1, <1>2, <1>6 DEF TypeOK
<1>8. Grows
  <2>1. \A p \in Partitions : Len(log[p]) \in Nat
    BY <1>1, LengthIsNat
  <2>2. \A g \in Groups : unread[g] \subseteq unread'[g]
    BY <1>2
  <2> QED
    BY <1>2, <2>1, <2>2 DEF Grows
<1>9. /\ base'[q] = n + 1
      /\ \A p \in Partitions : p # q => base'[p] = base[p]
  BY <1>1, <1>2 DEF TypeOK
<1>10. LogOK'
  BY <1>1, <1>2, <1>3, <1>9 DEF LogOK
<1>11. ExpiredOK'
  <2> SUFFICES ASSUME NEW g \in Groups, NEW p \in Partitions, NEW o \in Offsets, o < base'[p]
               PROVE  Settled(g, Place(p, o))'
    BY DEF ExpiredOK, Offsets
  <2>1. o \in Nat /\ base[p] \in Nat /\ Len(log[p]) \in Nat /\ base[p] <= Len(log[p])
    BY <1>1, LengthIsNat, NumberAssumption DEF Offsets, TypeOK, LogOK
  <2>2. CASE o < base[p]
    <3>1. o < Len(log[p]) /\ Settled(g, Place(p, o))
      BY <1>1, <2>1, <2>2 DEF ExpiredOK, Offsets
    <3> QED
      BY <1>1, <1>7, <1>8, <3>1, PlaceIsAPlace, SettledStays
  <2>3. CASE ~ (o < base[p])
    <3>1. p = q /\ o = n
      BY <1>3, <1>9, <2>1, <2>3
    <3> HIDE DEF n
    <3>2. CASE Handled(g, Place(q, n))
      <4>1. o < Len(log[p]) /\ Settled(g, Place(p, o))
        BY <1>2, <3>1, <3>2 DEF Settled
      <4> QED
        BY <1>1, <1>7, <1>8, <4>1, PlaceIsAPlace, SettledStays
    <3>3. CASE ~ Handled(g, Place(q, n))
      <4>1. Place(p, o) \in unread'[g]
        BY <1>2, <3>1, <3>3
      <4> QED
        BY <4>1 DEF Settled
    <3> QED
      BY <3>2, <3>3
  <2> QED
    BY <2>2, <2>3
<1>12. DocumentsOK' /\ FirstRecordKept'
  BY <1>2, <1>7, <1>8, DocumentsStay
<1> QED
  BY <1>2, <1>7, <1>8, <1>10, <1>11, <1>12, StepInv

-----------------------------------------------------------------------------
(* Steps of a consumer                                                     *)

\* Action Start keeps the invariant.
LEMMA StartInv ==
  ASSUME Inv, NEW c \in Consumers, Start(c)
  PROVE  Inv'
<1>1. TypeOK /\ LogOK
  BY DEF Inv
<1>2. /\ log' = log /\ base' = base /\ unread' = unread /\ committed' = committed
      /\ stored' = stored /\ poison' = poison /\ position' = position
      /\ record' = record /\ owner' = owner /\ member' = member /\ faults' = faults
      /\ pc[c] = "down" /\ pc' = [pc EXCEPT ![c] = "poll"]
  BY DEF Start, kafkaVars, groupVars, mongoVars
<1>3. pc'[c] = "poll" /\ \A d \in Consumers : d # c => pc'[d] = pc[d]
  BY <1>1, <1>2 DEF TypeOK
<1>4. TypeOK' /\ Grows
  BY <1>1, <1>2, QuietGrows DEF TypeOK
<1>5. LogOK' /\ ExpiredOK' /\ DocumentsOK' /\ FirstRecordKept'
  BY <1>1, <1>2, <1>4, ExpiredStays, DocumentsStay DEF LogOK
<1> QED
  BY <1>2, <1>3, <1>4, <1>5, StepInv

\* Action Sync keeps the invariant.
LEMMA SyncInv ==
  ASSUME Inv, NEW c \in Consumers, Sync(c)
  PROVE  Inv'
<1>1. TypeOK /\ LogOK /\ OffsetsOK /\ NothingSkipped
  BY DEF Inv
<1> DEFINE g == GroupOf[c]
           new == [p \in Partitions |-> IF owner[g][p] = c THEN committed[g][p] ELSE None]
<1>2. /\ log' = log /\ base' = base /\ unread' = unread /\ committed' = committed
      /\ stored' = stored /\ poison' = poison /\ pc' = pc
      /\ record' = record /\ owner' = owner /\ faults' = faults
      /\ member' = [member EXCEPT ![c] = "synced"]
      /\ position' = [position EXCEPT ![c] = new]
  BY DEF Sync, kafkaVars, mongoVars
<1>3. g \in Groups
  BY AssignmentAssumption
<1>4. new \in [Partitions -> 0..LogCap \cup {None}]
  BY <1>1, <1>3 DEF TypeOK
<1>5. \A p \in Partitions : new[p] = None \/ Done(g, p, new[p])
  <2>1. \A p \in Partitions : Done(g, p, committed[g][p])
    BY <1>1, <1>3 DEF OffsetsOK, NothingSkipped, Done, Offsets
  <2> QED
    BY <2>1
<1> HIDE DEF new
<1>6. position'[c] = new /\ \A d \in Consumers : d # c => position'[d] = position[d]
  BY <1>1, <1>2 DEF TypeOK
<1>7. TypeOK' /\ Grows
  BY <1>1, <1>2, <1>4, QuietGrows DEF TypeOK
<1>8. LogOK' /\ ExpiredOK' /\ DocumentsOK' /\ FirstRecordKept'
  BY <1>1, <1>2, <1>7, ExpiredStays, DocumentsStay DEF LogOK
<1>9. \A d \in Consumers, p \in Partitions :
        \/ position'[d][p] = None
        \/ Done(GroupOf[d], p, position'[d][p])
        \/ position'[d][p] = position[d][p] /\ pc'[d] = pc[d] /\ record'[d] = record[d]
  BY <1>2, <1>5, <1>6
<1> QED
  BY <1>2, <1>7, <1>8, <1>9, StepInv

\* Action Poll keeps the invariant.
LEMMA PollInv ==
  ASSUME Inv, NEW c \in Consumers, NEW p \in Partitions, Poll(c, p)
  PROVE  Inv'
<1>1. TypeOK /\ LogOK /\ ExpiredOK /\ PositionsOK
  BY DEF Inv
<1>2. /\ log' = log /\ base' = base /\ unread' = unread /\ committed' = committed
      /\ stored' = stored /\ poison' = poison /\ owner' = owner /\ member' = member
      /\ faults' = faults
      /\ pc[c] = "poll" /\ pc' = [pc EXCEPT ![c] = "store"] /\ position[c][p] # None
  BY DEF Poll, kafkaVars, groupVars, mongoVars
<1>3. PICK o \in Offsets :
        /\ o = IF position[c][p] < base[p] THEN base[p] ELSE position[c][p]
        /\ o < Len(log[p])
        /\ record' = [record EXCEPT ![c] = Place(p, o)]
        /\ position' = [position EXCEPT ![c][p] = o + 1]
  BY DEF Poll, Offsets
<1>4. /\ Place(p, o) \in Places /\ Place(p, o).partition = p /\ Place(p, o).offset = o
      /\ o + 1 \in 0..LogCap
  BY PlaceIsAPlace, NumberAssumption DEF Offsets
<1>5. /\ pc'[c] = "store" /\ record'[c] = Place(p, o) /\ position'[c][p] = o + 1
      /\ \A r \in Partitions : r # p => position'[c][r] = position[c][r]
      /\ \A d \in Consumers : d # c =>
           pc'[d] = pc[d] /\ record'[d] = record[d] /\ position'[d] = position[d]
  BY <1>1, <1>2, <1>3 DEF TypeOK
<1>6. position' \in [Consumers -> [Partitions -> 0..LogCap \cup {None}]]
  BY <1>1, <1>3, <1>4 DEF TypeOK
<1>7. TypeOK' /\ Grows
  BY <1>1, <1>2, <1>3, <1>4, <1>6, QuietGrows DEF TypeOK
<1>8. Done(GroupOf[c], p, o)
  <2>1. GroupOf[c] \in Groups
    BY AssignmentAssumption
  <2>2. position[c][p] \in Nat /\ base[p] \in Nat /\ o \in Nat /\ Len(log[p]) \in Nat
    BY <1>1, <1>2, LengthIsNat, NumberAssumption DEF TypeOK, Offsets
  <2>3. \A j \in Offsets : j < position[c][p] => Settled(GroupOf[c], Place(p, j))
    BY <1>1, <1>2 DEF PositionsOK, Offsets
  <2>4. \A j \in Offsets : j < base[p] => Settled(GroupOf[c], Place(p, j))
    BY <1>1, <2>1 DEF ExpiredOK, Offsets
  <2> QED
    BY <1>3, <2>2, <2>3, <2>4 DEF Done
<1>9. LogOK' /\ ExpiredOK' /\ DocumentsOK' /\ FirstRecordKept'
  BY <1>1, <1>2, <1>7, ExpiredStays, DocumentsStay DEF LogOK
<1>10. \A d \in Consumers :
         \/ pc'[d] = pc[d] /\ record'[d] = record[d]
         \/ /\ pc'[d] = "store" /\ record'[d] \in Places
            /\ record'[d].offset < Len(log[record'[d].partition])
            /\ Done(GroupOf[d], record'[d].partition, record'[d].offset)
  BY <1>3, <1>4, <1>5, <1>8
<1>11. \A d \in Consumers, r \in Partitions :
         \/ /\ position'[d][r] = position[d][r]
            /\ pc[d] # "store" \/ (pc'[d] = pc[d] /\ record'[d] = record[d])
         \/ \E k \in Offsets :
              /\ position'[d][r] = k + 1 /\ Done(GroupOf[d], r, k) /\ k < Len(log[r])
              /\ pc'[d] = "store" /\ record'[d] = Place(r, k)
  BY <1>2, <1>3, <1>5, <1>8
<1> QED
  BY <1>2, <1>7, <1>9, <1>10, <1>11, StepInv

\* What Upsert writes: the event of the record in hand, where it was first.
LEMMA UpsertWrites ==
  ASSUME Inv, NEW c \in Consumers, pc[c] = "store", Upsert(c),
         NEW x \in Places, record[c] = x, log' = log, unread' = unread
  PROVE  /\ stored' \in [Collections -> [Events -> Places \cup {None}]]
         /\ poison' \in SUBSET Places
         /\ Grows
         /\ Settled(GroupOf[c], x)'
         /\ TypeOK' => DocumentsOK' /\ FirstRecordKept'
<1>1. TypeOK /\ LogOK /\ RecordsOK /\ DocumentsOK /\ FirstRecordKept
  BY DEF Inv
<1> DEFINE g == GroupOf[c]
           k == CollectionOf[g]
           r == RecordAt(x)
           p == x.partition
<1>2. /\ g \in Groups /\ k \in Collections /\ p \in Partitions /\ x.offset \in Nat
      /\ x.offset < Len(log[p]) /\ Len(log[p]) \in Nat /\ log[p] \in Seq(Records)
  BY <1>1, RecordInHand, LengthIsNat, NumberAssumption DEF Offsets
<1>3. x.offset + 1 \in 1..Len(log[p])
  BY <1>2
<1>4. r \in Records /\ PartitionOf[r.key] = p
  BY <1>1, <1>2, <1>3 DEF RecordAt, LogOK
<1>5. RecordAt(x)' = r
  BY DEF RecordAt
<1>6. \A q \in Partitions : Len(log[q]) \in Nat
  BY <1>1, LengthIsNat
<1>7. CASE Valid(r)
  <2> DEFINE e == r.event
  <2>1. e \in Events /\ r.key = r.article
    BY <1>4, <1>7, ValidIsWhole
  <2>2. poison' = poison /\
        stored' = IF stored[k][e] = None THEN [stored EXCEPT ![k][e] = x] ELSE stored
    BY <1>7 DEF Upsert
  <2> HIDE DEF e, k, r, g
  <2>3. CASE stored[k][e] # None
    <3>1. stored' = stored
      BY <2>2, <2>3
    <3>2. Grows
      BY <1>1, <2>2, <3>1, QuietGrows
    <3>3. Settled(GroupOf[c], x)'
      BY <1>5, <1>7, <2>3, <3>1 DEF Settled, Handled, e, k, g
    <3> QED
      BY <1>1, <2>2, <3>1, <3>2, <3>3, DocumentsStay DEF TypeOK
  <2>4. CASE stored[k][e] = None
    <3>1. stored' = [stored EXCEPT ![k][e] = x]
      BY <2>2, <2>4
    <3>2. /\ stored' \in [Collections -> [Events -> Places \cup {None}]]
          /\ stored'[k][e] = x
          /\ \A l \in Collections, d \in Events :
               l # k \/ d # e => stored'[l][d] = stored[l][d]
      BY <1>1, <1>2, <2>1, <3>1 DEF TypeOK
    <3>3. Grows
      <4>1. \A l \in Collections, d \in Events :
              stored[l][d] # None => stored'[l][d] # None
        BY <2>4, <3>2
      <4> QED
        BY <1>6, <2>2, <4>1 DEF Grows
    <3>4. Settled(GroupOf[c], x)'
      BY <1>5, <1>7, <3>2, NoneAssumption DEF Settled, Handled, e, k, g
    <3>5. ASSUME TypeOK' PROVE DocumentsOK' /\ FirstRecordKept'
      <4>1. ASSUME NEW l \in Collections, NEW d \in Events, NEW y \in Places,
                   stored'[l][d] = y
            PROVE  FirstAt(l, d, y)'
        <5>1. CASE stored[l][d] = y
          BY <1>1, <3>3, <3>5, <5>1, DocumentsAreFirst, FirstStays
        <5>2. CASE stored[l][d] # y
          <6>1. l = k /\ d = e /\ y = x
            BY <3>2, <4>1, <5>2
          <6>2. ASSUME NEW o \in Offsets, o < x.offset, Tells(Place(p, o), e)
                PROVE  Place(p, o) \in unread[g]
            <7>1. Settled(g, Place(p, o))
              BY <1>1, <6>2 DEF RecordsOK, Offsets, g
            <7>2. o < Len(log[p]) /\ Place(p, o) \in Places /\ Place(p, o).partition = p
                  /\ Place(p, o).offset = o
              BY <1>2, <6>2, PlaceIsAPlace, NumberAssumption DEF Offsets
            <7>3. RecordAt(Place(p, o)) \in Records
              BY <1>1, <7>2, LoggedIsRecord
            <7>4. Valid(RecordAt(Place(p, o))) /\ RecordAt(Place(p, o)).event = e
              BY <6>2, <7>3, NoneAssumption DEF Tells, Valid, Records
            <7>5. ~ Handled(g, Place(p, o))
              BY <2>4, <7>4 DEF Handled, k
            <7> QED
              BY <7>1, <7>5 DEF Settled
          <6>3. PartitionOf[r.article] = p /\ Tells(x, e)
            BY <1>4, <2>1 DEF Tells, e, r
          <6>4. \A o \in Offsets :
                  o < x.offset /\ Tells(Place(p, o), e) =>
                    \E h \in Groups : CollectionOf[h] = k /\ Place(p, o) \in unread[h]
            BY <1>2, <6>2 DEF k
          <6>5. \A o \in Offsets : RecordAt(Place(p, o))' = RecordAt(Place(p, o))
            BY DEF RecordAt
          <6> QED
            BY <1>2, <1>5, <2>1, <6>1, <6>3, <6>4, <6>5 DEF FirstAt, Tells, r, k
        <5> QED
          BY <5>1, <5>2
      <4> QED
        BY <3>5, <4>1, DocumentsAreFirstNext
    <3>6. poison' \in SUBSET Places
      BY <1>1, <2>2 DEF TypeOK
    <3> QED
      BY <3>2, <3>3, <3>4, <3>5, <3>6
  <2> QED
    BY <2>3, <2>4
<1>8. CASE ~ Valid(r)
  <2>1. poison' = poison \cup {x} /\ stored' = stored
    BY <1>8 DEF Upsert
  <2>2. Grows
    BY <1>6, <2>1 DEF Grows
  <2>3. Settled(GroupOf[c], x)'
    BY <1>5, <1>8, <2>1 DEF Settled, Handled
  <2> QED
    BY <1>1, <2>1, <2>2, <2>3, DocumentsStay DEF TypeOK
<1> QED
  BY <1>7, <1>8

\* Action Store keeps the invariant.
LEMMA StoreInv ==
  ASSUME Inv, NEW c \in Consumers, Store(c)
  PROVE  Inv'
<1>1. TypeOK /\ LogOK
  BY DEF Inv
<1>2. /\ log' = log /\ base' = base /\ unread' = unread /\ committed' = committed
      /\ owner' = owner /\ member' = member /\ position' = position
      /\ record' = record /\ faults' = faults
      /\ pc[c] = "store" /\ pc' = [pc EXCEPT ![c] = "commit"] /\ Upsert(c)
  BY DEF Store, kafkaVars, groupVars
<1>3. PICK x \in Places : record[c] = x
  BY <1>2, RecordInHand
<1>4. /\ stored' \in [Collections -> [Events -> Places \cup {None}]]
      /\ poison' \in SUBSET Places
      /\ Grows
      /\ Settled(GroupOf[c], x)'
      /\ TypeOK' => DocumentsOK' /\ FirstRecordKept'
  BY <1>2, <1>3, UpsertWrites
<1>5. TypeOK'
  BY <1>1, <1>2, <1>4 DEF TypeOK
<1>6. LogOK' /\ ExpiredOK'
  BY <1>1, <1>2, <1>4, <1>5, ExpiredStays DEF LogOK
<1>7. pc'[c] = "commit" /\ \A d \in Consumers : d # c => pc'[d] = pc[d]
  BY <1>1, <1>2 DEF TypeOK
<1>8. record'[c] = record[c] /\ Settled(GroupOf[c], record[c])'
  BY <1>2, <1>3, <1>4
<1>9. \A d \in Consumers :
        \/ pc'[d] = pc[d] /\ record'[d] = record[d]
        \/ /\ pc[d] = "store" /\ pc'[d] = "commit" /\ record'[d] = record[d]
           /\ Settled(GroupOf[d], record[d])'
  BY <1>2, <1>7, <1>8
<1> QED
  BY <1>2, <1>4, <1>5, <1>6, <1>9, StepInv

\* The offset that CommitOffset commits leaves nothing behind.
LEMMA CommitIsDone ==
  ASSUME Inv, NEW c \in Consumers, pc[c] = "commit",
         CommitOffset(c) \/ UNCHANGED committed
  PROVE  /\ committed' \in [Groups -> [Partitions -> 0..LogCap]]
         /\ \A g \in Groups, p \in Partitions :
              committed'[g][p] = committed[g][p] \/ Done(g, p, committed'[g][p])
<1>1. TypeOK /\ RecordsOK
  BY DEF Inv
<1>2. CASE UNCHANGED committed
  BY <1>1, <1>2 DEF TypeOK
<1>3. CASE CommitOffset(c)
  <2> DEFINE x == record[c]
             n == x.offset + 1
  <2>1. /\ x \in Places /\ x.partition \in Partitions /\ x.offset \in Offsets
        /\ GroupOf[c] \in Groups /\ x.offset < Len(log[x.partition])
    BY RecordInHand
  <2>2. x = Place(x.partition, x.offset)
    BY <2>1, PlaceOfPlace
  <2>3. n \in 0..LogCap /\ x.offset \in Nat /\ Len(log[x.partition]) \in Nat
    BY <1>1, <2>1, LengthIsNat, NumberAssumption DEF Offsets
  <2>4. /\ \A o \in Offsets : o < x.offset => Settled(GroupOf[c], Place(x.partition, o))
        /\ Settled(GroupOf[c], x)
    BY <1>1 DEF RecordsOK, Offsets
  <2>5. committed' = [committed EXCEPT ![GroupOf[c]][x.partition] = n]
    BY <1>3 DEF CommitOffset
  <2> HIDE DEF x
  <2>6. \A o \in Offsets : o < n => o < x.offset \/ o = x.offset
    BY <2>3, NumberAssumption DEF Offsets
  <2>7. n <= Len(log[x.partition])
    BY <2>1, <2>3
  <2>8. Done(GroupOf[c], x.partition, n)
    BY <2>2, <2>4, <2>6, <2>7 DEF Done
  <2> HIDE DEF n
  <2>9. committed' \in [Groups -> [Partitions -> 0..LogCap]]
    BY <1>1, <2>1, <2>3, <2>5 DEF TypeOK
  <2>10. ASSUME NEW g \in Groups, NEW p \in Partitions
         PROVE  committed'[g][p] = committed[g][p] \/ Done(g, p, committed'[g][p])
    <3>1. CASE g = GroupOf[c] /\ p = x.partition
      <4>1. committed'[g][p] = n
        BY <1>1, <2>1, <2>5, <3>1 DEF TypeOK
      <4> QED
        BY <2>8, <3>1, <4>1
    <3>2. CASE g # GroupOf[c] \/ p # x.partition
      BY <1>1, <2>1, <2>5, <3>2 DEF TypeOK
    <3> QED
      BY <3>1, <3>2
  <2> QED
    BY <2>9, <2>10
<1> QED
  BY <1>2, <1>3

\* Action Commit keeps the invariant.
LEMMA CommitInv ==
  ASSUME Inv, NEW c \in Consumers, Commit(c)
  PROVE  Inv'
<1>1. TypeOK /\ LogOK
  BY DEF Inv
<1>2. /\ log' = log /\ base' = base /\ unread' = unread
      /\ stored' = stored /\ poison' = poison /\ owner' = owner /\ member' = member
      /\ position' = position /\ faults' = faults
      /\ pc[c] = "commit" /\ pc' = [pc EXCEPT ![c] = "poll"]
      /\ record' = [record EXCEPT ![c] = None] /\ CommitOffset(c)
  BY DEF Commit, kafkaVars, groupVars, mongoVars
<1>3. /\ committed' \in [Groups -> [Partitions -> 0..LogCap]]
      /\ \A g \in Groups, p \in Partitions :
           committed'[g][p] = committed[g][p] \/ Done(g, p, committed'[g][p])
  BY <1>2, CommitIsDone
<1>4. /\ pc'[c] = "poll"
      /\ \A d \in Consumers : d # c => pc'[d] = pc[d] /\ record'[d] = record[d]
  BY <1>1, <1>2 DEF TypeOK
<1>5. TypeOK' /\ Grows
  BY <1>1, <1>2, <1>3, QuietGrows DEF TypeOK
<1>6. LogOK' /\ ExpiredOK' /\ DocumentsOK' /\ FirstRecordKept'
  BY <1>1, <1>2, <1>5, ExpiredStays, DocumentsStay DEF LogOK
<1>7. \A d \in Consumers, p \in Partitions :
        /\ position'[d][p] = position[d][p]
        /\ pc[d] # "store" \/ (pc'[d] = pc[d] /\ record'[d] = record[d])
  BY <1>2, <1>4
<1> QED
  BY <1>3, <1>4, <1>5, <1>6, <1>7, StepInv

\* A process ends without having written or committed anything.
LEMMA QuietEndInv ==
  ASSUME Inv, NEW c \in Consumers, Stop(c),
         UNCHANGED <<kafkaVars, committed, owner, mongoVars>>, faults' \in 0..MaxFaults
  PROVE  Inv'
<1>1. TypeOK
  BY DEF Inv
<1>2. /\ log' = log /\ base' = base /\ unread' = unread /\ committed' = committed
      /\ stored' = stored /\ poison' = poison /\ owner' = owner
  BY DEF kafkaVars, mongoVars
<1>3. Grows
  BY <1>1, <1>2, QuietGrows
<1> QED
  BY <1>1, <1>2, <1>3, EndInv, DocumentsStay DEF TypeOK

\* Fault keeps the count of faults within its bound.
LEMMA FaultCounted ==
  ASSUME TypeOK, Fault
  PROVE  faults' \in 0..MaxFaults
BY NumberAssumption DEF TypeOK, Fault

\* Action StoreFails keeps the invariant.
LEMMA StoreFailsInv ==
  ASSUME Inv, NEW c \in Consumers, StoreFails(c)
  PROVE  Inv'
<1>1. TypeOK
  BY DEF Inv
<1>2. /\ pc[c] = "store" /\ Stop(c) /\ log' = log /\ base' = base /\ unread' = unread
      /\ committed' = committed /\ owner' = owner
  BY DEF StoreFails, kafkaVars
<1>3. faults' \in 0..MaxFaults
  BY <1>1, FaultCounted DEF StoreFails
<1>4. CASE Upsert(c)
  <2>1. PICK x \in Places : record[c] = x
    BY <1>2, RecordInHand
  <2>2. /\ stored' \in [Collections -> [Events -> Places \cup {None}]]
        /\ poison' \in SUBSET Places
        /\ Grows
        /\ TypeOK' => DocumentsOK' /\ FirstRecordKept'
    BY <1>2, <1>4, <2>1, UpsertWrites
  <2> QED
    BY <1>1, <1>2, <1>3, <2>2, EndInv DEF TypeOK
<1>5. CASE UNCHANGED mongoVars
  BY <1>2, <1>3, <1>5, QuietEndInv DEF kafkaVars
<1> QED
  BY <1>4, <1>5 DEF StoreFails

\* Action CommitFails keeps the invariant.
LEMMA CommitFailsInv ==
  ASSUME Inv, NEW c \in Consumers, CommitFails(c)
  PROVE  Inv'
<1>1. TypeOK
  BY DEF Inv
<1>2. /\ pc[c] = "commit" /\ Stop(c) /\ log' = log /\ base' = base /\ unread' = unread
      /\ owner' = owner /\ stored' = stored /\ poison' = poison
  BY DEF CommitFails, kafkaVars, mongoVars
<1>3. faults' \in 0..MaxFaults
  BY <1>1, FaultCounted DEF CommitFails
<1>4. /\ committed' \in [Groups -> [Partitions -> 0..LogCap]]
      /\ \A g \in Groups, p \in Partitions :
           committed'[g][p] = committed[g][p] \/ Done(g, p, committed'[g][p])
  BY <1>2, CommitIsDone DEF CommitFails
<1>5. Grows
  BY <1>1, <1>2, QuietGrows
<1> QED
  BY <1>1, <1>2, <1>3, <1>4, <1>5, EndInv, DocumentsStay DEF TypeOK

-----------------------------------------------------------------------------
(* The theorems                                                            *)

\* Every step keeps the invariant: one case for each action.
LEMMA NextInv ==
  ASSUME Inv, [Next]_vars
  PROVE  Inv'
<1>1. ASSUME NEW r \in Records, Produce(r)
      PROVE  Inv'
  BY <1>1, ProduceInv
<1>2. ASSUME NEW p \in Partitions, Expire(p)
      PROVE  Inv'
  BY <1>2, ExpireInv
<1>3. ASSUME NEW g \in Groups, NEW M \in SUBSET Running(g), Rebalance(g, M)
      PROVE  Inv'
  BY <1>3, RebalanceInv
<1>4. ASSUME NEW c \in Consumers, Run(c)
      PROVE  Inv'
  <2>1. CASE Start(c)
    BY <2>1, StartInv
  <2>2. CASE Sync(c)
    BY <2>2, SyncInv
  <2>3. CASE \E p \in Partitions : Poll(c, p)
    BY <2>3, PollInv
  <2>4. CASE Store(c)
    BY <2>4, StoreInv
  <2>5. CASE StoreFails(c)
    BY <2>5, StoreFailsInv
  <2>6. CASE Commit(c)
    BY <2>6, CommitInv
  <2>7. CASE CommitRefused(c)
    <3>1. faults' \in 0..MaxFaults
      BY <2>7 DEF CommitRefused, Inv, TypeOK
    <3> QED
      BY <2>7, <3>1, QuietEndInv DEF CommitRefused
  <2>8. CASE CommitFails(c)
    BY <2>8, CommitFailsInv
  <2>9. CASE Crash(c)
    <3>1. faults' \in 0..MaxFaults
      BY <2>9, FaultCounted DEF Crash, Inv
    <3> QED
      BY <2>9, <3>1, QuietEndInv DEF Crash
  <2> QED
    BY <1>4, <2>1, <2>2, <2>3, <2>4, <2>5, <2>6, <2>7, <2>8, <2>9 DEF Run
<1>5. CASE UNCHANGED vars
  BY <1>5, StutterInv
<1> QED
  BY <1>1, <1>2, <1>3, <1>4, <1>5 DEF Next

\* Inv holds in every reachable state: what positions, records in hand and
\* committed offsets say about the documents.
THEOREM Invariance == Spec => []Inv
<1>1. Init => Inv
  BY InitInv
<1>2. Inv /\ [Next]_vars => Inv'
  BY NextInv
<1> QED
  BY <1>1, <1>2, PTL DEF Spec

\* The state of topic, groups, consumers and collections is well formed; in
\* particular no committed offset exceeds the length a log can have.
THEOREM TypeCorrect == Spec => []TypeOK
<1>1. Inv => TypeOK
  BY DEF Inv
<1> QED
  BY <1>1, Invariance, PTL

\* process_record never commits past a record that has neither its document
\* nor its entry among the poison records, unless it expired unread.
THEOREM RecordsAreNotSkipped == Spec => []NothingSkipped
<1>1. Inv => NothingSkipped
  BY DEF Inv
<1> QED
  BY <1>1, Invariance, PTL

\* $setOnInsert keeps, for every event_id, the document of the first valid
\* record of its partition, whether or not the id is the article's own.
THEOREM FirstRecordsAreKept == Spec => []FirstRecordKept
<1>1. Inv => FirstRecordKept
  BY DEF Inv
<1> QED
  BY <1>1, Invariance, PTL
-----------------------------------------------------------------------------
(* The promise                                                             *)

\* A valid record announces one event_id, any other one none.
LEMMA ValidAnnounces ==
  ASSUME TypeOK, NEW x \in Places, x.offset < Len(log[x.partition])
  PROVE  /\ Valid(RecordAt(x)) => /\ RecordAt(x).event \in Events
                                  /\ Promise!Announces(x, RecordAt(x).event)
         /\ \A e \in Events : Promise!Announces(x, e) =>
              Valid(RecordAt(x)) /\ RecordAt(x).event = e
         /\ Valid(RecordAt(x)) <=> ~ Promise!Void(x)
<1> DEFINE r == RecordAt(x)
<1>1. r \in Records
  BY LoggedIsRecord
<1>2. Promise!RecordAt(x) = r
  BY DEF RecordAt, Promise!RecordAt
<1> HIDE DEF r
<1>3. Valid(r) => r.event \in Events /\ Promise!Announces(x, r.event)
  BY <1>1, <1>2, ValidIsWhole DEF Promise!Announces
<1>4. \A e \in Events : Promise!Announces(x, e) => Valid(r) /\ r.event = e
  BY <1>2, NoneAssumption DEF Valid, Promise!Announces
<1> QED
  BY <1>3, <1>4 DEF Promise!Void, r

\* Both modules mean the same by a record that is done with.
LEMMA SameSettled ==
  ASSUME TypeOK, NEW g \in Groups, NEW x \in Places, x.offset < Len(log[x.partition])
  PROVE  /\ Promise!Done(g, x) <=> Handled(g, x)
         /\ Promise!Settled(g, x) <=> Settled(g, x)
<1>1. Promise!Done(g, x) <=> Handled(g, x)
  BY ValidAnnounces DEF Promise!Done, Handled
<1> QED
  BY <1>1 DEF Promise!Settled, Settled

\* Records of the log are published.
LEMMA LoggedIsPublished ==
  ASSUME NEW x \in Places, x.offset < Len(log[x.partition])
  PROVE  x \in Promise!Published
BY DEF Places, Promise!Published, Promise!Places

\* Consumers and coordinator are of no concern to the promise.
LEMMA InvisibleStep ==
  ASSUME UNCHANGED <<log, unread, committed, mongoVars>>
  PROVE  UNCHANGED Promise!vars
BY DEF mongoVars, Promise!vars

\* Initially nothing is published.
LEMMA InitRefines == Init => Promise!Init
BY DEF Init, Promise!Init, Collections, Promise!Collections

\* Retention loses one record.
LEMMA ExpireRefines ==
  ASSUME Inv, NEW p \in Partitions, Expire(p)
  PROVE  Promise!Next
<1> DEFINE x == Place(p, base[p])
<1>1. TypeOK /\ LogOK
  BY DEF Inv
<1>2. base[p] \in Offsets /\ base[p] < Len(log[p])
  BY <1>1, LengthIsNat, NumberAssumption DEF Expire, TypeOK, LogOK, Offsets
<1>3. x \in Places /\ x.partition = p /\ x.offset = base[p]
  BY <1>2, PlaceIsAPlace
<1> HIDE DEF x
<1>4. \A g \in Groups : Promise!Done(g, x) <=> Handled(g, x)
  BY <1>1, <1>2, <1>3, SameSettled
<1>5. unread' = [g \in Groups |-> IF Handled(g, x) THEN unread[g] ELSE unread[g] \cup {x}]
  BY DEF Expire, x
<1>6. unread' = [g \in Groups |-> IF Promise!Done(g, x) THEN unread[g] ELSE unread[g] \cup {x}]
  BY <1>4, <1>5
<1>7. Promise!Lose(x)
  BY <1>6 DEF Promise!Lose, Expire, mongoVars
<1> QED
  BY <1>2, <1>3, <1>7, LoggedIsPublished DEF Promise!Next

\* The write of process_record is the effect of the event, or has none.
LEMMA UpsertRefines ==
  ASSUME Inv, NEW c \in Consumers, pc[c] = "store", Upsert(c),
         UNCHANGED <<log, unread, committed>>
  PROVE  [Promise!Next]_(Promise!vars)
<1> DEFINE g == GroupOf[c]
           k == CollectionOf[g]
<1>1. TypeOK /\ RecordsOK
  BY DEF Inv
<1>2. PICK x \in Places : record[c] = x
  BY RecordInHand
<1>3. /\ g \in Groups /\ k \in Promise!Collections /\ x.partition \in Partitions
      /\ x.offset \in Offsets /\ x.offset < Len(log[x.partition])
  BY <1>2, RecordInHand DEF Collections, Promise!Collections
<1> DEFINE e == RecordAt(x).event
<1>4. CASE Valid(RecordAt(x)) /\ stored[k][e] = None
  <2>1. e \in Events /\ Promise!Announces(x, e)
    BY <1>1, <1>3, <1>4, ValidAnnounces
  <2>2. stored' = [stored EXCEPT ![k][e] = x] /\ poison' = poison
    BY <1>2, <1>4 DEF Upsert
  <2>3. ASSUME NEW o \in 0..(x.offset - 1), Promise!Announces(Place(x.partition, o), e)
        PROVE  Place(x.partition, o) \in unread[g]
    <3> DEFINE y == Place(x.partition, o)
    <3>1. o \in Offsets /\ o < x.offset /\ Len(log[x.partition]) \in Nat
      BY <1>1, <1>3, LengthIsNat, NumberAssumption DEF Offsets
    <3>2. y \in Places /\ y.partition = x.partition /\ y.offset = o
      BY <1>3, <3>1, PlaceIsAPlace
    <3>3. Settled(g, y)
      BY <1>1, <1>2, <3>1 DEF RecordsOK, Offsets
    <3> HIDE DEF y
    <3>4. y.offset < Len(log[y.partition])
      BY <1>3, <3>1, <3>2, NumberAssumption DEF Offsets
    <3>5. Valid(RecordAt(y)) /\ RecordAt(y).event = e
      BY <1>1, <2>1, <2>3, <3>2, <3>4, ValidAnnounces DEF y
    <3>6. ~ Handled(g, y)
      BY <1>4, <3>5 DEF Handled
    <3> QED
      BY <3>3, <3>6 DEF Settled, y
  <2>4. \A o \in 0..(x.offset - 1) :
          Promise!Announces(Promise!Place(x.partition, o), e) =>
            \E h \in Groups : CollectionOf[h] = k /\ Promise!Place(x.partition, o) \in unread[h]
    BY <1>3, <2>3 DEF Place, Promise!Place
  <2>5. Promise!Document(k, e, x)
    BY <1>4, <2>1, <2>2, <2>4 DEF Promise!Document
  <2> QED
    BY <1>3, <2>1, <2>5, LoggedIsPublished DEF Promise!Next
<1>5. CASE Valid(RecordAt(x)) /\ stored[k][e] # None
  <2>1. stored' = stored /\ poison' = poison
    BY <1>2, <1>5 DEF Upsert
  <2> QED
    BY <2>1, InvisibleStep DEF mongoVars
<1>6. CASE ~ Valid(RecordAt(x))
  <2>1. poison' = poison \cup {x} /\ stored' = stored
    BY <1>2, <1>6 DEF Upsert
  <2>2. Promise!Park(x)
    BY <1>1, <1>3, <1>6, <2>1, ValidAnnounces DEF Promise!Park
  <2> QED
    BY <1>3, <2>2, LoggedIsPublished DEF Promise!Next
<1> QED
  BY <1>4, <1>5, <1>6

\* A commit moves a group over settled records.
LEMMA CommitRefines ==
  ASSUME Inv, NEW c \in Consumers, pc[c] = "commit", CommitOffset(c),
         UNCHANGED <<log, unread, mongoVars>>
  PROVE  Promise!Next
<1> DEFINE g == GroupOf[c]
<1>1. TypeOK /\ RecordsOK
  BY DEF Inv
<1>2. PICK x \in Places : record[c] = x
  BY RecordInHand
<1>3. /\ g \in Groups /\ x.partition \in Partitions /\ x.offset \in Offsets
      /\ x.offset < Len(log[x.partition]) /\ Len(log[x.partition]) \in Nat
      /\ x.offset \in Nat /\ x = Place(x.partition, x.offset)
  BY <1>1, <1>2, RecordInHand, LengthIsNat, PlaceOfPlace, NumberAssumption DEF Offsets
<1> DEFINE n == x.offset + 1
<1>4. n \in 0..Len(log[x.partition])
  BY <1>3
<1>5. ASSUME NEW o \in 0..(n - 1)
      PROVE  Promise!Settled(g, Promise!Place(x.partition, o))
  <2> DEFINE y == Place(x.partition, o)
  <2>1. o \in Offsets /\ o < Len(log[x.partition]) /\ (o < x.offset \/ o = x.offset)
    BY <1>3, NumberAssumption DEF Offsets
  <2>2. Settled(g, y)
    BY <1>1, <1>2, <1>3, <2>1 DEF RecordsOK, Offsets
  <2>3. y \in Places /\ y.partition = x.partition /\ y.offset = o
    BY <1>3, <2>1, PlaceIsAPlace
  <2>4. y = Promise!Place(x.partition, o)
    BY DEF Place, Promise!Place
  <2> HIDE DEF y
  <2> QED
    BY <1>1, <1>3, <2>1, <2>2, <2>3, <2>4, SameSettled
<1>6. committed' = [committed EXCEPT ![g][x.partition] = n]
  BY <1>2 DEF CommitOffset
<1>7. Promise!Advance(g, x.partition, n)
  BY <1>5, <1>6 DEF Promise!Advance, mongoVars
<1> QED
  BY <1>3, <1>4, <1>7 DEF Promise!Next

\* Every step is a step of the promise or of no concern to it.
LEMMA NextRefines ==
  ASSUME Inv, [Next]_vars
  PROVE  [Promise!Next]_(Promise!vars)
<1>1. ASSUME NEW r \in Records, Produce(r)
      PROVE  Promise!Next
  <2>1. r = [key |-> r.key, article |-> r.article, event |-> r.event]
    BY DEF Records
  <2>2. Promise!Publish(r.key, r.article, r.event)
    BY <1>1, <2>1 DEF Produce, Promise!Publish, mongoVars
  <2>3. CASE r.article = None
    <3>1. r.key \in Articles /\ r.event = None
      BY <2>3 DEF Records
    <3> QED
      BY <2>2, <2>3, <3>1 DEF Promise!Next
  <2>4. CASE r.article # None
    <3>1. r.key \in Articles /\ r.article \in Articles /\ r.event \in Events
      BY <2>4 DEF Records
    <3> QED
      BY <2>2, <3>1 DEF Promise!Next
  <2> QED
    BY <2>3, <2>4
<1>2. ASSUME NEW p \in Partitions, Expire(p)
      PROVE  Promise!Next
  BY <1>2, ExpireRefines
<1>3. ASSUME NEW g \in Groups, NEW M \in SUBSET Running(g), Rebalance(g, M)
      PROVE  UNCHANGED Promise!vars
  BY <1>3, InvisibleStep DEF Rebalance, kafkaVars
<1>4. ASSUME NEW c \in Consumers, Run(c)
      PROVE  [Promise!Next]_(Promise!vars)
  <2>1. CASE Start(c) \/ Sync(c) \/ \E p \in Partitions : Poll(c, p)
    BY <2>1, InvisibleStep DEF Start, Sync, Poll, kafkaVars
  <2>2. CASE Store(c)
    BY <2>2, UpsertRefines DEF Store, kafkaVars
  <2>3. CASE StoreFails(c)
    <3>1. CASE Upsert(c)
      BY <2>3, <3>1, UpsertRefines DEF StoreFails, kafkaVars
    <3>2. CASE UNCHANGED mongoVars
      BY <2>3, <3>2, InvisibleStep DEF StoreFails, kafkaVars
    <3> QED
      BY <2>3, <3>1, <3>2 DEF StoreFails
  <2>4. CASE Commit(c)
    BY <2>4, CommitRefines DEF Commit, kafkaVars
  <2>5. CASE CommitFails(c)
    <3>1. CASE CommitOffset(c)
      BY <2>5, <3>1, CommitRefines DEF CommitFails, kafkaVars
    <3>2. CASE UNCHANGED committed
      BY <2>5, <3>2, InvisibleStep DEF CommitFails, kafkaVars
    <3> QED
      BY <2>5, <3>1, <3>2 DEF CommitFails
  <2>6. CASE CommitRefused(c) \/ Crash(c)
    BY <2>6, InvisibleStep DEF CommitRefused, Crash, kafkaVars
  <2> QED
    BY <1>4, <2>1, <2>2, <2>3, <2>4, <2>5, <2>6 DEF Run
<1>5. CASE UNCHANGED vars
  BY <1>5, InvisibleStep DEF vars, mongoVars
<1> QED
  BY <1>1, <1>2, <1>3, <1>4, <1>5 DEF Next

\* The consumers implement EventPromise: every event_id takes effect once and
\* from its first record, whatever article a producer has given it to, and offsets move over settled records only, whatever
\* crashes, rebalances and replays repeat (process_record, run).
THEOREM PromiseIsKept == Spec => KeepsPromise
BY InitRefines, Invariance, NextRefines, PTL DEF Spec, KeepsPromise, Promise!Spec
=============================================================================
