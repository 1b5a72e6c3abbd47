---------------------------- MODULE OutboxProofs ----------------------------
(***************************************************************************)
(* What holds of the outbox for any number of articles and dispatchers,    *)
(* any lease, any delay and any number of faults.                          *)
(***************************************************************************)
EXTENDS Outbox, FiniteSetTheorems, TLAPS

\* There are two channels.
LEMMA TwoChannels == Channels = {"rabbitmq", "kafka"}
BY DEF Channels, CHANNELS

\* A retry delay is a number of seconds.
LEMMA BackoffIsADelay ==
  ASSUME NEW n \in 1..ExponentCap
  PROVE  Backoff(n) \in Nat
BY TimeAssumption

\* What a claim writes is a record again.
LEMMA LeaseIsARecord ==
  ASSUME TypeOK, NEW a \in Articles, NEW c \in Channels, NEW t \in Tokens
  PROVE  /\ Lease(a, c, t) \in Records
         /\ Lease(a, c, t).status = "leased"
         /\ Lease(a, c, t).token = t
         /\ Lease(a, c, t).attempts \in 1..ExponentCap
         /\ Lease(a, c, t).due = LeaseSeconds
BY TimeAssumption DEF TypeOK, Lease, Records, Lesser

\* What Update writes, for the dispatcher that holds the lease.
LEMMA UpdateIsARecord ==
  ASSUME TypeOK, JobsOK, NEW d \in Dispatchers, pc[d] \in Working,
         NEW status \in {"pending", "published"}, NEW due \in Nat,
         Update(d, status, due)
  PROVE  /\ outbox' \in [Articles -> [Channels -> Records]]
         /\ outbox'[job[d].article][chan[d]].status = status
         /\ outbox'[job[d].article][chan[d]].token = None
         /\ outbox'[job[d].article][chan[d]].due = due
         /\ \A a \in Articles, c \in Channels :
              a # job[d].article \/ c # chan[d] => outbox'[a][c] = outbox[a][c]
<1> DEFINE a0 == job[d].article
           c0 == chan[d]
           new == [outbox[a0][c0] EXCEPT !.status = status, !.token = None, !.due = due]
<1>1. a0 \in Articles /\ c0 \in Channels
  BY DEF TypeOK, JobsOK
<1> HIDE DEF a0, c0
<1>2. outbox \in [Articles -> [Channels -> Records]]
  BY DEF TypeOK
<1>3. outbox' = [outbox EXCEPT ![a0][c0] = new]
  BY DEF Update, a0, c0
<1>. DEFINE r == outbox[a0][c0]
<1>4. new \in Records /\ new.status = status /\ new.token = None /\ new.due = due
  <2>1. r \in Records
    BY <1>1, <1>2
  <2>2. new = [r EXCEPT !.status = status, !.token = None, !.due = due]
    OBVIOUS
  <2> HIDE DEF r, new
  <2> QED
    BY <2>1, <2>2 DEF Records
<1> HIDE DEF new
<1>5. /\ outbox' \in [Articles -> [Channels -> Records]]
      /\ outbox'[a0][c0] = new
      /\ \A a \in Articles, c \in Channels :
           a # a0 \/ c # c0 => outbox'[a][c] = outbox[a][c]
  BY <1>1, <1>2, <1>3, <1>4
<1> QED
  BY <1>4, <1>5 DEF a0, c0

\* The invariant holds initially.
LEMMA InitInv == Init => Inv
BY TwoChannels, TimeAssumption, ValueAssumption
   DEF Init, Inv, TypeOK, JobsOK, ConfirmationsOK, TokensOK, LeasesOK, Records,
       Absent, Jobs, NoJob, Working

\* The next channel and an abandoned round leave a dispatcher idle.
LEMMA IdleAgain ==
  ASSUME TypeOK, NEW d \in Dispatchers, NextChannel(d) \/ AbandonRound(d)
  PROVE  /\ pc' \in [Dispatchers -> {"connect", "claim"} \cup Working]
         /\ chan' \in [Dispatchers -> Channels]
         /\ job' \in [Dispatchers -> Jobs]
         /\ pc'[d] \in {"connect", "claim"} /\ job'[d] = NoJob
         /\ \A e \in Dispatchers \ {d} :
              pc'[e] = pc[e] /\ chan'[e] = chan[e] /\ job'[e] = job[e]
<1>1. NoJob \in Jobs
  BY TimeAssumption DEF NoJob, Jobs
<1>2. job' = [job EXCEPT ![d] = NoJob]
  BY DEF NextChannel, AbandonRound
<1>3. \E p \in {"connect", "claim"} : pc' = [pc EXCEPT ![d] = p]
  BY DEF NextChannel, AbandonRound
<1>4. \E c \in Channels : chan' = [chan EXCEPT ![d] = c]
  BY TwoChannels DEF NextChannel, AbandonRound
<1> QED
  BY <1>1, <1>2, <1>3, <1>4 DEF TypeOK

\* Every step in which dispatcher d ends up idle: what it must leave alone for
\* the invariant to survive.
LEMMA IdleStep ==
  ASSUME Inv, NEW d \in Dispatchers, NextChannel(d) \/ AbandonRound(d),
         createdAt' = createdAt,
         conn' \in [Dispatchers -> SUBSET Channels],
         faults' \in 0..MaxFaults,
         outbox' \in [Articles -> [Channels -> Records]],
         copies' \in [Articles -> [Channels -> Nat]],
         \A a \in Articles, c \in Channels :
           /\ copies[a][c] > 0 => copies'[a][c] > 0
           /\ outbox'[a][c].status = "absent" => outbox[a][c].status = "absent"
           /\ outbox'[a][c].status = "published" => copies'[a][c] > 0,
         faults' = 0 =>
           /\ faults = 0
           /\ \A e \in Dispatchers \ {d} :
                pc[e] \in Working =>
                  outbox'[job[e].article][chan[e]] = outbox[job[e].article][chan[e]]
  PROVE  Inv'
<1>1. /\ TypeOK /\ JobsOK /\ ConfirmationsOK /\ TokensOK /\ LeasesOK
  BY DEF Inv
<1>2. /\ pc' \in [Dispatchers -> {"connect", "claim"} \cup Working]
      /\ chan' \in [Dispatchers -> Channels]
      /\ job' \in [Dispatchers -> Jobs]
      /\ pc'[d] \notin Working /\ job'[d] = NoJob
      /\ \A e \in Dispatchers \ {d} :
           pc'[e] = pc[e] /\ chan'[e] = chan[e] /\ job'[e] = job[e]
  BY <1>1, IdleAgain DEF Working
<1>3. TypeOK'
  BY <1>1, <1>2 DEF TypeOK
<1>4. \A e \in Dispatchers : pc[e] \in Working =>
        job[e].article \in Articles /\ chan[e] \in Channels
  BY <1>1 DEF JobsOK, TypeOK
<1>5. JobsOK'
  BY <1>1, <1>2, <1>4 DEF JobsOK, Record
<1>6. ConfirmationsOK'
  BY <1>1, <1>2, <1>4 DEF ConfirmationsOK, Working
<1>7. TokensOK'
  BY <1>1, <1>2 DEF TokensOK
<1>8. LeasesOK'
  BY <1>1, <1>2 DEF LeasesOK, HoldsLease, Record
<1> QED
  BY <1>3, <1>5, <1>6, <1>7, <1>8 DEF Inv

\* A record that its holder may update belongs to nobody else.
LEMMA HoldersDiffer ==
  ASSUME Inv, NEW d \in Dispatchers, NEW e \in Dispatchers \ {d},
         pc[d] \in Working, pc[e] \in Working, HoldsLease(d), HoldsLease(e)
  PROVE  job[d].article # job[e].article \/ chan[d] # chan[e]
BY DEF Inv, TokensOK, HoldsLease, Record

\* Both status updates, in terms of the records.
LEMMA MarkStep ==
  ASSUME Inv, NEW d \in Dispatchers, MarkPublished(d) \/ MarkFailed(d)
  PROVE  /\ pc[d] \in Working /\ HoldsLease(d)
         /\ outbox' \in [Articles -> [Channels -> Records]]
         /\ outbox'[job[d].article][chan[d]].status = "published" => pc[d] = "confirmed"
         /\ outbox'[job[d].article][chan[d]].status \in {"pending", "published"}
         /\ \A a \in Articles, c \in Channels :
              a # job[d].article \/ c # chan[d] => outbox'[a][c] = outbox[a][c]
<1>1. TypeOK /\ JobsOK
  BY DEF Inv
<1>2. CASE MarkPublished(d)
  BY <1>1, <1>2, UpdateIsARecord DEF MarkPublished, Working
<1>3. CASE MarkFailed(d)
  <2>1. pc[d] \in Working /\ pc[d] = "failed" /\ HoldsLease(d)
    BY <1>3 DEF MarkFailed, Working
  <2>2. Backoff(job[d].attempts) \in Nat
    BY <1>1, <2>1, BackoffIsADelay DEF JobsOK
  <2>3. Update(d, "pending", Backoff(job[d].attempts))
    BY <1>3 DEF MarkFailed
  <2> HIDE DEF Backoff
  <2> QED
    BY <1>1, <2>1, <2>2, <2>3, UpdateIsARecord
<1> QED
  BY <1>2, <1>3

\* Action RecordOutcome keeps the invariant.
LEMMA RecordOutcomeInv ==
  ASSUME Inv, NEW d \in Dispatchers, RecordOutcome(d)
  PROVE  Inv'
<1>1. /\ pc[d] \in Working /\ HoldsLease(d)
      /\ outbox' \in [Articles -> [Channels -> Records]]
      /\ outbox'[job[d].article][chan[d]].status = "published" => pc[d] = "confirmed"
      /\ outbox'[job[d].article][chan[d]].status \in {"pending", "published"}
      /\ \A a \in Articles, c \in Channels :
           a # job[d].article \/ c # chan[d] => outbox'[a][c] = outbox[a][c]
  BY MarkStep DEF RecordOutcome
<1>2. /\ NextChannel(d) /\ createdAt' = createdAt /\ copies' = copies
      /\ conn' = conn /\ faults' = faults
  BY DEF RecordOutcome
<1>3. TypeOK /\ JobsOK /\ ConfirmationsOK /\ LeasesOK
  BY DEF Inv
<1>4. ASSUME NEW a \in Articles, NEW c \in Channels
      PROVE  /\ outbox'[a][c].status = "absent" => outbox[a][c].status = "absent"
             /\ outbox'[a][c].status = "published" => copies[a][c] > 0
  <2>1. CASE a = job[d].article /\ c = chan[d]
    BY <1>1, <1>3, <2>1 DEF ConfirmationsOK
  <2>2. CASE a # job[d].article \/ c # chan[d]
    BY <1>1, <1>3, <2>2 DEF ConfirmationsOK
  <2> QED
    BY <2>1, <2>2
<1>5. ASSUME faults' = 0, NEW e \in Dispatchers \ {d}, pc[e] \in Working
      PROVE  outbox'[job[e].article][chan[e]] = outbox[job[e].article][chan[e]]
  <2>1. HoldsLease(e)
    BY <1>2, <1>3, <1>5 DEF LeasesOK
  <2>2. job[d].article # job[e].article \/ chan[d] # chan[e]
    BY <1>1, <1>5, <2>1, HoldersDiffer
  <2>3. job[e].article \in Articles /\ chan[e] \in Channels
    BY <1>3, <1>5 DEF JobsOK, TypeOK
  <2> QED
    BY <1>1, <2>2, <2>3
<1> QED
  BY <1>1, <1>2, <1>3, <1>4, <1>5, IdleStep DEF TypeOK

\* A dispatcher that gives up its work without an update keeps the
\* invariant.
LEMMA IdleWithoutUpdateInv ==
  ASSUME Inv, NEW d \in Dispatchers, SkipChannel(d) \/ ClaimNothing(d) \/ LeaseLost(d)
  PROVE  Inv'
<1>1. /\ NextChannel(d) \/ AbandonRound(d)
      /\ outbox' = outbox /\ createdAt' = createdAt /\ copies' = copies
      /\ conn' = conn /\ faults' = faults
  BY DEF SkipChannel, ClaimNothing, LeaseLost, dbVars
<1>2. TypeOK /\ ConfirmationsOK
  BY DEF Inv
<1> QED
  BY <1>1, <1>2, IdleStep DEF TypeOK, ConfirmationsOK

\* Fault keeps the count of faults within its bound.
LEMMA FaultCounted ==
  ASSUME TypeOK, Fault
  PROVE  faults' \in 0..MaxFaults /\ faults' # 0
BY TimeAssumption DEF TypeOK, Fault

\* A broker that accepts a message has a copy, and no copy goes away.
LEMMA AcceptAddsACopy ==
  ASSUME TypeOK, NEW a \in Articles, NEW c \in Channels, Accept(a, c)
  PROVE  /\ copies' \in [Articles -> [Channels -> Nat]]
         /\ copies'[a][c] > 0
         /\ \A b \in Articles, e \in Channels : copies[b][e] > 0 => copies'[b][e] > 0
BY DEF TypeOK, Accept

\* Action ClaimError keeps the invariant.
LEMMA ClaimErrorInv ==
  ASSUME Inv, NEW d \in Dispatchers, ClaimError(d)
  PROVE  Inv'
<1>1. /\ AbandonRound(d) /\ createdAt' = createdAt /\ copies' = copies /\ conn' = conn
      /\ Fault
  BY DEF ClaimError
<1>2. TypeOK /\ ConfirmationsOK
  BY DEF Inv
<1>3. faults' \in 0..MaxFaults /\ faults' # 0
  BY <1>1, <1>2, FaultCounted
<1>4. CASE outbox' = outbox
  BY <1>1, <1>2, <1>3, <1>4, IdleStep DEF TypeOK, ConfirmationsOK
<1>5. CASE \E a \in Oldest(chan[d]), t \in Tokens :
             outbox' = [outbox EXCEPT ![a][chan[d]] = Lease(a, chan[d], t)]
  <2>1. PICK a \in Oldest(chan[d]), t \in Tokens :
               outbox' = [outbox EXCEPT ![a][chan[d]] = Lease(a, chan[d], t)]
    BY <1>5
  <2> DEFINE c == chan[d]
             new == Lease(a, c, t)
  <2>2. a \in Articles /\ c \in Channels /\ outbox[a][c].status # "absent"
    BY <1>2 DEF Oldest, Claimable, TypeOK
  <2>3. new \in Records /\ new.status = "leased"
    BY <1>2, <2>2, LeaseIsARecord
  <2>4. outbox' = [outbox EXCEPT ![a][c] = new]
    BY <2>1
  <2> HIDE DEF c, new
  <2>5. /\ outbox' \in [Articles -> [Channels -> Records]]
        /\ \A b \in Articles, e \in Channels :
             outbox'[b][e] = outbox[b][e] \/ (b = a /\ e = c /\ outbox'[b][e] = new)
    BY <1>2, <2>2, <2>3, <2>4 DEF TypeOK
  <2>6. \A b \in Articles, e \in Channels :
          /\ outbox'[b][e].status = "absent" => outbox[b][e].status = "absent"
          /\ outbox'[b][e].status = "published" => copies'[b][e] > 0
    BY <1>1, <1>2, <2>3, <2>5 DEF ConfirmationsOK
  <2> QED
    BY <1>1, <1>2, <1>3, <2>5, <2>6, IdleStep DEF TypeOK
<1> QED
  BY <1>4, <1>5 DEF ClaimError

\* Action OutcomeError keeps the invariant.
LEMMA OutcomeErrorInv ==
  ASSUME Inv, NEW d \in Dispatchers, OutcomeError(d)
  PROVE  Inv'
<1>1. /\ AbandonRound(d) /\ createdAt' = createdAt /\ copies' = copies /\ conn' = conn
      /\ Fault
  BY DEF OutcomeError
<1>2. TypeOK /\ ConfirmationsOK
  BY DEF Inv
<1>3. faults' \in 0..MaxFaults /\ faults' # 0
  BY <1>1, <1>2, FaultCounted
<1>4. CASE outbox' = outbox
  BY <1>1, <1>2, <1>3, <1>4, IdleStep DEF TypeOK, ConfirmationsOK
<1>5. CASE MarkPublished(d) \/ MarkFailed(d)
  <2>1. /\ outbox' \in [Articles -> [Channels -> Records]]
        /\ outbox'[job[d].article][chan[d]].status = "published" => pc[d] = "confirmed"
        /\ outbox'[job[d].article][chan[d]].status \in {"pending", "published"}
        /\ \A a \in Articles, c \in Channels :
             a # job[d].article \/ c # chan[d] => outbox'[a][c] = outbox[a][c]
    BY <1>5, MarkStep
  <2>2. ASSUME NEW a \in Articles, NEW c \in Channels
        PROVE  /\ outbox'[a][c].status = "absent" => outbox[a][c].status = "absent"
               /\ outbox'[a][c].status = "published" => copies[a][c] > 0
    <3>1. CASE a = job[d].article /\ c = chan[d]
      BY <1>2, <2>1, <3>1 DEF ConfirmationsOK
    <3>2. CASE a # job[d].article \/ c # chan[d]
      BY <1>2, <2>1, <3>2 DEF ConfirmationsOK
    <3> QED
      BY <3>1, <3>2
  <2> QED
    BY <1>1, <1>2, <1>3, <2>1, <2>2, IdleStep DEF TypeOK
<1> QED
  BY <1>4, <1>5 DEF OutcomeError

\* Action Die keeps the invariant.
LEMMA DieInv ==
  ASSUME Inv, NEW d \in Dispatchers, Die(d)
  PROVE  Inv'
<1>1. /\ AbandonRound(d) /\ outbox' = outbox /\ createdAt' = createdAt
      /\ conn' = [conn EXCEPT ![d] = {}] /\ Fault
  BY DEF Die, dbVars
<1>2. TypeOK /\ JobsOK /\ ConfirmationsOK
  BY DEF Inv
<1>3. faults' \in 0..MaxFaults /\ faults' # 0
  BY <1>1, <1>2, FaultCounted
<1>4. /\ copies' \in [Articles -> [Channels -> Nat]]
      /\ \A a \in Articles, c \in Channels : copies[a][c] > 0 => copies'[a][c] > 0
  <2>1. CASE pc[d] = "publish" /\ Accept(job[d].article, chan[d])
    <3>1. job[d].article \in Articles /\ chan[d] \in Channels
      BY <1>2, <2>1 DEF JobsOK, TypeOK, Working
    <3> QED
      BY <1>2, <2>1, <3>1, AcceptAddsACopy
  <2>2. CASE copies' = copies
    BY <1>2, <2>2 DEF TypeOK
  <2> QED
    BY <2>1, <2>2 DEF Die
<1> QED
  BY <1>1, <1>2, <1>3, <1>4, IdleStep DEF TypeOK, ConfirmationsOK

\* Action Create keeps the invariant.
LEMMA CreateInv ==
  ASSUME Inv, NEW a \in Articles, Create(a)
  PROVE  Inv'
<1>1. TypeOK /\ JobsOK /\ ConfirmationsOK /\ TokensOK /\ LeasesOK
  BY DEF Inv
<1> DEFINE new == [Absent EXCEPT !.status = "pending"]
<1>2. new \in Records /\ new.status = "pending"
  BY TimeAssumption DEF Absent, Records
<1>3. /\ outbox[a] = [c \in Channels |-> Absent]
      /\ outbox' = [outbox EXCEPT ![a] = [c \in Channels |-> new]]
      /\ createdAt' = createdAt /\ copies' = copies /\ pc' = pc /\ chan' = chan
      /\ conn' = conn /\ job' = job /\ faults' = faults
  BY DEF Create, procVars
<1> HIDE DEF new
<1>4. /\ outbox' \in [Articles -> [Channels -> Records]]
      /\ \A b \in Articles, c \in Channels :
           IF b = a THEN outbox'[b][c] = new ELSE outbox'[b][c] = outbox[b][c]
  BY <1>1, <1>2, <1>3 DEF TypeOK
<1>5. \A d \in Dispatchers : pc[d] \in Working =>
        /\ job[d].article \in Articles /\ chan[d] \in Channels
        /\ job[d].article # a
        /\ outbox'[job[d].article][chan[d]] = outbox[job[d].article][chan[d]]
  <2> SUFFICES ASSUME NEW d \in Dispatchers, pc[d] \in Working
               PROVE  /\ job[d].article \in Articles /\ chan[d] \in Channels
                      /\ job[d].article # a
    BY <1>4
  <2>1. job[d].article \in Articles /\ chan[d] \in Channels
    BY <1>1 DEF JobsOK, TypeOK
  <2>2. outbox[job[d].article][chan[d]].status # "absent"
    BY <1>1 DEF JobsOK, Record
  <2> QED
    BY <1>3, <2>1, <2>2 DEF Absent
<1>6. TypeOK'
  BY <1>1, <1>3, <1>4 DEF TypeOK
<1>7. JobsOK'
  BY <1>1, <1>3, <1>5 DEF JobsOK, Record
<1>8. ConfirmationsOK'
  BY <1>1, <1>2, <1>3, <1>4 DEF ConfirmationsOK
<1>9. TokensOK' /\ LeasesOK'
  BY <1>1, <1>3, <1>5 DEF TokensOK, LeasesOK, HoldsLease, Record
<1> QED
  BY <1>6, <1>7, <1>8, <1>9 DEF Inv

\* Action Connect keeps the invariant.
LEMMA ConnectInv ==
  ASSUME Inv, NEW d \in Dispatchers, NEW reached \in SUBSET Channels, Connect(d, reached)
  PROVE  Inv'
<1>1. TypeOK /\ JobsOK /\ ConfirmationsOK /\ TokensOK /\ LeasesOK
  BY DEF Inv
<1>2. /\ pc[d] = "connect" /\ pc' = [pc EXCEPT ![d] = "claim"]
      /\ conn' = [conn EXCEPT ![d] = @ \cup reached]
      /\ outbox' = outbox /\ createdAt' = createdAt /\ copies' = copies
      /\ chan' = chan /\ job' = job /\ faults' = faults
  BY DEF Connect, dbVars
<1>3. TypeOK'
  BY <1>1, <1>2 DEF TypeOK
<1>4. \A e \in Dispatchers : /\ pc'[e] \in Working <=> pc[e] \in Working
                             /\ pc'[e] = "confirmed" <=> pc[e] = "confirmed"
  BY <1>1, <1>2 DEF TypeOK, Working
<1>5. JobsOK'
  BY <1>1, <1>2, <1>4 DEF JobsOK, Record
<1>6. ConfirmationsOK' /\ TokensOK' /\ LeasesOK'
  BY <1>1, <1>2, <1>4 DEF ConfirmationsOK, TokensOK, LeasesOK, HoldsLease, Record
<1> QED
  BY <1>3, <1>5, <1>6 DEF Inv

\* Action Claim keeps the invariant.
LEMMA ClaimInv ==
  ASSUME Inv, NEW d \in Dispatchers, NEW a \in Articles, NEW t \in Tokens, Claim(d, a, t)
  PROVE  Inv'
<1>1. TypeOK /\ JobsOK /\ ConfirmationsOK /\ TokensOK /\ LeasesOK
  BY DEF Inv
<1> DEFINE c == chan[d]
           new == Lease(a, c, t)
           mine == [article |-> a, token |-> t, attempts |-> new.attempts]
<1>2. c \in Channels
  BY <1>1 DEF TypeOK
<1>3. outbox[a][c].due = 0
  BY DEF Claim, Oldest, Claimable
<1>4. new \in Records /\ new.status = "leased" /\ new.token = t /\ new.due = LeaseSeconds
      /\ new.attempts \in 1..ExponentCap
  BY <1>1, <1>2, LeaseIsARecord
<1>5. mine \in Jobs /\ mine.article = a /\ mine.token = t /\ mine.attempts \in 1..ExponentCap
  <2>1. new.attempts \in 0..ExponentCap
    BY <1>4, TimeAssumption
  <2> HIDE DEF new
  <2> QED
    BY <1>4, <2>1 DEF Jobs
<1>6. /\ pc[d] = "claim" /\ pc' = [pc EXCEPT ![d] = "publish"]
      /\ outbox' = [outbox EXCEPT ![a][c] = new] /\ job' = [job EXCEPT ![d] = mine]
      /\ createdAt' = createdAt /\ copies' = copies /\ chan' = chan
      /\ conn' = conn /\ faults' = faults
  BY DEF Claim
<1>7. \A e \in Dispatchers : job[e].token # t
  BY DEF Claim, NewToken, FreshTokens, TokensInUse
<1> HIDE DEF c, new, mine
<1>8. /\ outbox' \in [Articles -> [Channels -> Records]]
      /\ outbox'[a][c] = new
      /\ \A b \in Articles, k \in Channels :
           b # a \/ k # c => outbox'[b][k] = outbox[b][k]
  BY <1>1, <1>2, <1>4, <1>6 DEF TypeOK
<1>9. /\ pc'[d] = "publish" /\ job'[d] = mine /\ chan'[d] = c
      /\ \A e \in Dispatchers \ {d} :
           pc'[e] = pc[e] /\ job'[e] = job[e] /\ chan'[e] = chan[e]
  BY <1>1, <1>6 DEF TypeOK, c
<1>10. \A e \in Dispatchers \ {d} : pc[e] \in Working =>
         job[e].article \in Articles /\ chan[e] \in Channels
  BY <1>1 DEF JobsOK, TypeOK
<1>11. TypeOK'
  BY <1>1, <1>5, <1>6, <1>8 DEF TypeOK, Working
<1>12. JobsOK'
  <2> SUFFICES ASSUME NEW e \in Dispatchers
               PROVE  IF pc'[e] \in Working
                      THEN /\ job'[e].article \in Articles
                           /\ job'[e].token \in Tokens
                           /\ job'[e].attempts \in 1..ExponentCap
                           /\ outbox'[job'[e].article][chan'[e]].status # "absent"
                      ELSE job'[e] = NoJob
    BY DEF JobsOK, Record
  <2>1. CASE e = d
    BY <1>4, <1>5, <1>8, <1>9, <2>1 DEF Working
  <2>2. CASE e # d
    BY <1>1, <1>4, <1>8, <1>9, <1>10, <2>2 DEF JobsOK, Record
  <2> QED
    BY <2>1, <2>2
<1>13. ConfirmationsOK'
  <2>1. \A e \in Dispatchers : pc'[e] = "confirmed" => e # d /\ pc[e] = "confirmed"
    BY <1>9
  <2> QED
    BY <1>1, <1>4, <1>6, <1>8, <1>9, <2>1 DEF ConfirmationsOK
<1>14. TokensOK'
  BY <1>1, <1>5, <1>7, <1>9 DEF TokensOK
<1>15. LeasesOK'
  <2> SUFFICES ASSUME faults = 0, NEW e \in Dispatchers, pc'[e] \in Working
               PROVE  HoldsLease(e)' /\ Record(e)'.due > 0
    BY <1>6 DEF LeasesOK
  <2>1. CASE e = d
    BY <1>4, <1>5, <1>8, <1>9, <2>1, TimeAssumption DEF HoldsLease, Record
  <2>2. CASE e # d
    <3>1. HoldsLease(e) /\ Record(e).due > 0
      BY <1>1, <1>9, <2>2 DEF LeasesOK
    <3>2. job[e].article # a \/ chan[e] # c
      BY <1>3, <3>1 DEF Record
    <3> QED
      BY <1>8, <1>9, <1>10, <2>2, <3>1, <3>2 DEF HoldsLease, Record
  <2> QED
    BY <2>1, <2>2
<1> QED
  BY <1>11, <1>12, <1>13, <1>14, <1>15 DEF Inv

\* Action Publish keeps the invariant.
LEMMA PublishInv ==
  ASSUME Inv, NEW d \in Dispatchers, Publish(d)
  PROVE  Inv'
<1>1. TypeOK /\ JobsOK /\ ConfirmationsOK /\ TokensOK /\ LeasesOK
  BY DEF Inv
<1>2. /\ pc[d] = "publish" /\ outbox' = outbox /\ createdAt' = createdAt
      /\ chan' = chan /\ conn' = conn /\ job' = job
  BY DEF Publish, PublishConfirmed, PublishRefused, PublishUndecided, dbVars
<1>3. job[d].article \in Articles /\ chan[d] \in Channels
  BY <1>1, <1>2 DEF JobsOK, TypeOK, Working
<1>4. /\ copies' \in [Articles -> [Channels -> Nat]]
      /\ \A a \in Articles, c \in Channels : copies[a][c] > 0 => copies'[a][c] > 0
      /\ pc' = [pc EXCEPT ![d] = "confirmed"] => copies'[job[d].article][chan[d]] > 0
      /\ pc' = [pc EXCEPT ![d] = "confirmed"] \/ pc' = [pc EXCEPT ![d] = "failed"]
  <2>1. CASE PublishConfirmed(d)
    BY <1>1, <1>3, <2>1, AcceptAddsACopy DEF PublishConfirmed
  <2>2. CASE PublishRefused(d)
    BY <1>1, <2>2 DEF PublishRefused, TypeOK
  <2>3. CASE PublishUndecided(d)
    BY <1>1, <1>3, <2>3, AcceptAddsACopy DEF PublishUndecided
  <2> QED
    BY <2>1, <2>2, <2>3 DEF Publish
<1>5. faults' \in 0..MaxFaults /\ (faults' = 0 => faults = 0)
  <2>1. faults' = faults \/ Fault
    BY DEF Publish, PublishConfirmed, PublishRefused, PublishUndecided
  <2> QED
    BY <1>1, <2>1, FaultCounted DEF TypeOK
<1>6. TypeOK'
  BY <1>1, <1>2, <1>4, <1>5 DEF TypeOK, Working
<1>7. \A e \in Dispatchers :
        /\ pc'[e] \in Working <=> pc[e] \in Working
        /\ pc'[e] = "confirmed" =>
             \/ pc[e] = "confirmed"
             \/ e = d /\ pc' = [pc EXCEPT ![d] = "confirmed"]
  BY <1>1, <1>2, <1>4 DEF TypeOK, Working
<1>8. JobsOK'
  BY <1>1, <1>2, <1>7 DEF JobsOK, Record
<1>9. \A e \in Dispatchers : pc[e] = "confirmed" =>
        job[e].article \in Articles /\ chan[e] \in Channels
  BY <1>1 DEF JobsOK, TypeOK, Working
<1>10. ConfirmationsOK'
  BY <1>1, <1>2, <1>4, <1>7, <1>9 DEF ConfirmationsOK
<1>11. TokensOK' /\ LeasesOK'
  BY <1>1, <1>2, <1>5, <1>7 DEF TokensOK, LeasesOK, HoldsLease, Record
<1> QED
  BY <1>6, <1>8, <1>10, <1>11 DEF Inv

\* Action Tick keeps the invariant.
LEMMA TickInv ==
  ASSUME Inv, Tick
  PROVE  Inv'
<1>1. TypeOK /\ JobsOK /\ ConfirmationsOK /\ TokensOK /\ LeasesOK
  BY DEF Inv
<1>2. /\ outbox' = [a \in Articles |-> [c \in Channels |->
           [outbox[a][c] EXCEPT !.due = IF @ > 0 THEN @ - 1 ELSE 0]]]
      /\ createdAt' = createdAt /\ copies' = copies /\ pc' = pc /\ chan' = chan
      /\ conn' = conn /\ job' = job
  BY DEF Tick, procVars
<1>3. ASSUME NEW r \in Records
      PROVE  [r EXCEPT !.due = IF @ > 0 THEN @ - 1 ELSE 0] \in Records
  BY DEF Records
<1>4. outbox' \in [Articles -> [Channels -> Records]]
  BY <1>1, <1>2, <1>3 DEF TypeOK
<1>5. \A a \in Articles, c \in Channels :
        /\ outbox'[a][c].status = outbox[a][c].status
        /\ outbox'[a][c].token = outbox[a][c].token
        /\ outbox[a][c].due > 1 => outbox'[a][c].due > 0
  <2> SUFFICES ASSUME NEW a \in Articles, NEW c \in Channels
               PROVE  /\ outbox'[a][c].status = outbox[a][c].status
                      /\ outbox'[a][c].token = outbox[a][c].token
                      /\ outbox[a][c].due > 1 => outbox'[a][c].due > 0
    OBVIOUS
  <2>1. outbox[a][c] \in Records
    BY <1>1 DEF TypeOK
  <2>2. outbox'[a][c] = [outbox[a][c] EXCEPT !.due = IF @ > 0 THEN @ - 1 ELSE 0]
    BY <1>2
  <2> QED
    BY <2>1, <2>2 DEF Records
<1>6. faults' \in 0..MaxFaults /\ (faults' = 0 => faults = 0 /\ Overrun = {})
  BY <1>1, FaultCounted DEF Tick, TypeOK
<1>7. \A d \in Dispatchers : pc[d] \in Working =>
        job[d].article \in Articles /\ chan[d] \in Channels
  BY <1>1 DEF JobsOK, TypeOK
<1>8. TypeOK'
  BY <1>1, <1>2, <1>4, <1>6 DEF TypeOK
<1>9. JobsOK'
  BY <1>1, <1>2, <1>5, <1>7 DEF JobsOK, Record
<1>10. ConfirmationsOK' /\ TokensOK'
  BY <1>1, <1>2, <1>5 DEF ConfirmationsOK, TokensOK
<1>11. LeasesOK'
  <2> SUFFICES ASSUME faults' = 0, NEW d \in Dispatchers, pc[d] \in Working
               PROVE  HoldsLease(d)' /\ Record(d)'.due > 0
    BY <1>2 DEF LeasesOK
  <2>1. HoldsLease(d) /\ Record(d).due > 0 /\ Record(d).due # 1
    BY <1>1, <1>6 DEF LeasesOK, Overrun
  <2>2. Record(d).due \in Nat
    BY <1>1, <1>7 DEF TypeOK, Record, Records
  <2>3. Record(d).due > 1
    BY <2>1, <2>2
  <2>4. LET r == outbox'[job[d].article][chan[d]] IN
        r.status = Record(d).status /\ r.token = Record(d).token /\ r.due > 0
    BY <1>5, <1>7, <2>3 DEF Record
  <2> QED
    BY <1>2, <2>1, <2>4 DEF HoldsLease, Record
<1> QED
  BY <1>8, <1>9, <1>10, <1>11 DEF Inv

\* Every step keeps the invariant: one case for each action.
LEMMA NextInv == Inv /\ [Next]_vars => Inv'
<1> SUFFICES ASSUME Inv, [Next]_vars PROVE Inv'
  OBVIOUS
<1>1. CASE UNCHANGED vars
  BY <1>1 DEF vars, Inv, TypeOK, JobsOK, ConfirmationsOK, TokensOK, LeasesOK,
              HoldsLease, Record
<1>2. CASE \E a \in Articles : Create(a)
  BY <1>2, CreateInv
<1>3. ASSUME NEW d \in Dispatchers, Dispatch(d) PROVE Inv'
  BY <1>3, ConnectInv, IdleWithoutUpdateInv, ClaimInv, ClaimErrorInv, PublishInv,
     RecordOutcomeInv, OutcomeErrorInv DEF Dispatch
<1>4. CASE \E d \in Dispatchers : Die(d)
  BY <1>4, DieInv
<1>5. CASE Tick
  BY <1>5, TickInv
<1> QED
  BY <1>1, <1>2, <1>3, <1>4, <1>5 DEF Next

\* The invariant of module Outbox holds of every behaviour.
THEOREM Invariance == Spec => []Inv
BY InitInv, NextInv, PTL DEF Spec

\* Type correctness of the outbox and its dispatchers.
THEOREM TypeCorrect == Spec => []TypeOK
<1>1. Inv => TypeOK
  BY DEF Inv
<1> QED
  BY <1>1, Invariance, PTL

\* For any number of dispatchers and articles: without a fault no delivery has
\* two of them working on it (claim's atomic update, with its lease).
THEOREM ExclusiveWork == Spec => []WorkIsExclusive
<1>1. Inv => WorkIsExclusive
  <2> SUFFICES ASSUME Inv, NEW d1 \in Dispatchers, NEW d2 \in Dispatchers, d1 # d2,
                      pc[d1] \in Working, pc[d2] \in Working,
                      job[d1].article = job[d2].article, chan[d1] = chan[d2]
               PROVE  faults > 0
    BY DEF WorkIsExclusive
  <2>1. CASE faults = 0
    <3>1. HoldsLease(d1) /\ HoldsLease(d2)
      BY <2>1 DEF Inv, LeasesOK
    <3> QED
      BY <3>1, HoldersDiffer
  <2> QED
    BY <2>1, TimeAssumption DEF Inv, TypeOK
<1> QED
  BY <1>1, Invariance, PTL

-----------------------------------------------------------------------------
(* Stale holders                                                           *)

\* A claim touches one record, which was due.
LEMMA ClaimStep ==
  ASSUME TypeOK, NEW c \in Channels, NEW a \in Oldest(c), NEW t \in Tokens,
         outbox' = [outbox EXCEPT ![a][c] = Lease(a, c, t)]
  PROVE  /\ a \in Articles /\ outbox[a][c].due = 0
         /\ outbox[a][c].status \in {"pending", "leased"}
         /\ outbox'[a][c].status = "leased"
         /\ \A b \in Articles, k \in Channels :
              b # a \/ k # c => outbox'[b][k] = outbox[b][k]
<1>1. a \in Articles /\ outbox[a][c].due = 0 /\ outbox[a][c].status \in {"pending", "leased"}
  BY DEF Oldest, Claimable
<1> DEFINE new == Lease(a, c, t)
<1>2. new.status = "leased"
  BY DEF Lease
<1> HIDE DEF new
<1>3. outbox' = [outbox EXCEPT ![a][c] = new]
  BY DEF new
<1> QED
  BY <1>1, <1>2, <1>3 DEF TypeOK

\* Time changes neither the status nor the token of a record.
LEMMA TickKeepsStatus ==
  ASSUME Tick, TypeOK, NEW a \in Articles, NEW c \in Channels
  PROVE  /\ outbox'[a][c].status = outbox[a][c].status
         /\ outbox'[a][c].token = outbox[a][c].token
<1>1. outbox'[a][c] = [outbox[a][c] EXCEPT !.due = IF @ > 0 THEN @ - 1 ELSE 0]
  BY DEF Tick
<1>2. outbox[a][c] \in Records
  BY DEF TypeOK
<1> QED
  BY <1>1, <1>2 DEF Records

\* A dispatcher whose lease was taken over cannot touch the record any more:
\* the token in the filters of mark_published and mark_failed.
THEOREM StaleHolderIsHarmless == Spec => StaleHolderHarmless
<1> DEFINE Kept ==
      \A a \in Articles, c \in Channels :
        LET r == outbox[a][c] IN
        (r.status = "leased" /\ outbox'[a][c].token # r.token) =>
          \/ outbox'[a][c].status = "leased" /\ r.due = 0
          \/ \E d \in Dispatchers :
               /\ pc[d] \in {"confirmed", "failed"}
               /\ job[d].article = a /\ chan[d] = c /\ job[d].token = r.token
               /\ job'[d] = NoJob
<1>1. Inv /\ [Next]_vars => [Kept]_vars
  <2> SUFFICES ASSUME Inv, Next,
                      NEW a \in Articles, NEW c \in Channels, outbox[a][c].status = "leased",
                      outbox'[a][c].token # outbox[a][c].token
               PROVE  \/ outbox'[a][c].status = "leased" /\ outbox[a][c].due = 0
                      \/ \E d \in Dispatchers :
                           /\ pc[d] \in {"confirmed", "failed"}
                           /\ job[d].article = a /\ chan[d] = c
                           /\ job[d].token = outbox[a][c].token
                           /\ job'[d] = NoJob
    OBVIOUS
  <2>1. TypeOK /\ JobsOK
    BY DEF Inv
  <2>2. ASSUME NEW b \in Articles, Create(b) PROVE FALSE
    <3>1. b # a
      BY <2>2 DEF Create, Absent
    <3> QED
      BY <2>1, <2>2, <3>1 DEF Create, TypeOK
  <2>3. ASSUME NEW d \in Dispatchers, NEW b \in Oldest(chan[d]), NEW t \in Tokens,
               outbox' = [outbox EXCEPT ![b][chan[d]] = Lease(b, chan[d], t)]
        PROVE  outbox'[a][c].status = "leased" /\ outbox[a][c].due = 0
    <3>1. chan[d] \in Channels
      BY <2>1 DEF TypeOK
    <3>2. /\ outbox[b][chan[d]].due = 0 /\ outbox'[b][chan[d]].status = "leased"
          /\ \A e \in Articles, k \in Channels :
               e # b \/ k # chan[d] => outbox'[e][k] = outbox[e][k]
      BY <2>1, <2>3, <3>1, ClaimStep
    <3>3. b = a /\ chan[d] = c
      BY <3>2
    <3> QED
      BY <3>2, <3>3
  <2>4. ASSUME NEW d \in Dispatchers, MarkPublished(d) \/ MarkFailed(d), job'[d] = NoJob
        PROVE  /\ pc[d] \in {"confirmed", "failed"}
               /\ job[d].article = a /\ chan[d] = c
               /\ job[d].token = outbox[a][c].token
               /\ job'[d] = NoJob
    <3>1. job[d].article = a /\ chan[d] = c
      BY <2>4, MarkStep
    <3> QED
      BY <2>4, <3>1 DEF MarkPublished, MarkFailed, HoldsLease, Record
  <2>5. ASSUME NEW d \in Dispatchers, RecordOutcome(d) \/ OutcomeError(d)
        PROVE  (MarkPublished(d) \/ MarkFailed(d)) /\ job'[d] = NoJob
    BY <2>1, <2>5, IdleAgain DEF RecordOutcome, OutcomeError
  <2>6. ~ Tick
    BY <2>1, TickKeepsStatus
  <2>7. outbox' # outbox
    OBVIOUS
  <2>8. CASE \E d \in Dispatchers : Dispatch(d)
    <3>1. PICK d \in Dispatchers : Dispatch(d)
      BY <2>8
    <3>2. CASE \E b \in Articles, t \in Tokens : Claim(d, b, t)
      BY <2>3, <3>2 DEF Claim
    <3>3. CASE ClaimError(d)
      BY <2>3, <2>7, <3>3 DEF ClaimError
    <3>4. CASE RecordOutcome(d) \/ OutcomeError(d)
      BY <2>4, <2>5, <3>4
    <3> QED
      BY <2>7, <3>1, <3>2, <3>3, <3>4
         DEF Dispatch, Connect, SkipChannel, ClaimNothing, LeaseLost, Publish,
             PublishConfirmed, PublishRefused, PublishUndecided, dbVars
  <2>9. ~ \E d \in Dispatchers : Die(d)
    BY <2>7 DEF Die, dbVars
  <2> QED
    BY <2>2, <2>6, <2>8, <2>9 DEF Next
<1> QED
  BY <1>1, Invariance, PTL DEF Spec, StaleHolderHarmless

-----------------------------------------------------------------------------
(* The outbox implements PublicationIntent                                 *)

\* The abstract intent of a record is one of the three of
\* PublicationIntent.
LEMMA Intents ==
  /\ IntentOf("absent") = "absent"
  /\ IntentOf("pending") = "intended" /\ IntentOf("leased") = "intended"
  /\ IntentOf("published") = "discharged"
BY DEF IntentOf

\* Initial states map to initial states of PublicationIntent.
LEMMA InitRefines == Init => Promise!Init
BY DEF Init, Promise!Init, IntentOf, Absent

\* A broker accepts a message of a stored article.
LEMMA AcceptRefines ==
  ASSUME TypeOK, NEW a \in Articles, NEW c \in Channels,
         outbox[a][c].status # "absent", outbox' = outbox, Accept(a, c)
  PROVE  Promise!Next
<1>1. IntentOf(outbox[a][c].status) # "absent"
  BY DEF IntentOf, TypeOK, Records
<1>2. copies' = [copies EXCEPT ![a][c] = @ + 1] /\ copies[a][c] \in Nat
  BY DEF Accept, TypeOK
<1>3. [b \in Articles |-> {k \in Channels : copies'[b][k] > 0}]
        = [[b \in Articles |-> {k \in Channels : copies[b][k] > 0}] EXCEPT ![a] = @ \cup {c}]
  <2>1. \A b \in Articles, k \in Channels :
          copies'[b][k] > 0 <=> copies[b][k] > 0 \/ (b = a /\ k = c)
    BY <1>2 DEF TypeOK
  <2>2. \A b \in Articles :
          {k \in Channels : copies'[b][k] > 0} =
            IF b = a THEN {k \in Channels : copies[b][k] > 0} \cup {c}
                     ELSE {k \in Channels : copies[b][k] > 0}
    BY <2>1
  <2> QED
    BY <2>2
<1>4. Promise!Receive(a, c)
  BY <1>1, <1>3 DEF Promise!Receive
<1> QED
  BY <1>4 DEF Promise!Next

\* A step that changes no copy, and a record's status between pending and
\* leased only, is invisible.
LEMMA InvisibleStep ==
  ASSUME copies' = copies,
         \A a \in Articles, c \in Channels :
           IntentOf(outbox'[a][c].status) = IntentOf(outbox[a][c].status)
  PROVE  UNCHANGED Promise!vars
BY DEF Promise!vars

\* Create implements Intend.
LEMMA CreateRefines ==
  ASSUME TypeOK, NEW a \in Articles, Create(a)
  PROVE  Promise!Next
<1>1. outbox[a] = [c \in Channels |-> Absent] /\ copies' = copies
  BY DEF Create
<1>2. [c \in Channels |-> IntentOf(outbox[a][c].status)] = [c \in Channels |-> "absent"]
  BY <1>1 DEF IntentOf, Absent
<1>3. \A b \in Articles, c \in Channels :
        IF b = a THEN outbox'[b][c].status = "pending" ELSE outbox'[b][c] = outbox[b][c]
  BY DEF Create, TypeOK, Absent
<1>4. [b \in Articles |-> [c \in Channels |-> IntentOf(outbox'[b][c].status)]]
        = [[b \in Articles |-> [c \in Channels |-> IntentOf(outbox[b][c].status)]]
             EXCEPT ![a] = [c \in Channels |-> "intended"]]
  <2>1. \A b \in Articles :
          [c \in Channels |-> IntentOf(outbox'[b][c].status)] =
            IF b = a THEN [c \in Channels |-> "intended"]
                     ELSE [c \in Channels |-> IntentOf(outbox[b][c].status)]
    BY <1>3, Intents
  <2> QED
    BY <2>1
<1>5. Promise!Intend(a)
  BY <1>1, <1>2, <1>4 DEF Promise!Intend
<1> QED
  BY <1>5 DEF Promise!Next

\* A status update implements Discharge, or leaves the intent as it is.
LEMMA MarkRefines ==
  ASSUME Inv, NEW d \in Dispatchers, MarkPublished(d) \/ MarkFailed(d), copies' = copies
  PROVE  Promise!Next \/ UNCHANGED Promise!vars
<1> DEFINE a == job[d].article
           c == chan[d]
<1>1. /\ a \in Articles /\ c \in Channels
      /\ outbox[a][c].status = "leased"
      /\ outbox'[a][c].status = "published" => copies[a][c] > 0
      /\ outbox'[a][c].status \in {"pending", "published"}
      /\ \A b \in Articles, k \in Channels : b # a \/ k # c => outbox'[b][k] = outbox[b][k]
  BY MarkStep DEF Inv, JobsOK, TypeOK, ConfirmationsOK, HoldsLease, Record
<1> HIDE DEF a, c
<1>2. CASE outbox'[a][c].status = "pending"
  <2>1. \A b \in Articles, k \in Channels :
          IntentOf(outbox'[b][k].status) = IntentOf(outbox[b][k].status)
    BY <1>1, <1>2 DEF IntentOf
  <2> QED
    BY <2>1, InvisibleStep
<1>3. CASE outbox'[a][c].status = "published"
  <2>1. [b \in Articles |-> [k \in Channels |-> IntentOf(outbox'[b][k].status)]]
          = [[b \in Articles |-> [k \in Channels |-> IntentOf(outbox[b][k].status)]]
               EXCEPT ![a][c] = "discharged"]
    <3>1. \A b \in Articles, k \in Channels :
            IntentOf(outbox'[b][k].status) =
              IF b = a /\ k = c THEN "discharged" ELSE IntentOf(outbox[b][k].status)
      <4>1. IntentOf(outbox'[a][c].status) = "discharged"
        BY <1>3, Intents
      <4>2. \A b \in Articles, k \in Channels :
              b # a \/ k # c => IntentOf(outbox'[b][k].status) = IntentOf(outbox[b][k].status)
        BY <1>1
      <4> QED
        BY <4>1, <4>2
    <3>2. \A b \in Articles :
            [k \in Channels |-> IntentOf(outbox'[b][k].status)] =
              IF b = a
              THEN [[k \in Channels |-> IntentOf(outbox[a][k].status)]
                      EXCEPT ![c] = "discharged"]
              ELSE [k \in Channels |-> IntentOf(outbox[b][k].status)]
      BY <1>1, <3>1
    <3> QED
      BY <1>1, <3>2
  <2>2. Promise!Discharge(a, c)
    BY <1>1, <1>3, <2>1 DEF Promise!Discharge, IntentOf
  <2> QED
    BY <1>1, <2>2 DEF Promise!Next
<1> QED
  BY <1>1, <1>2, <1>3

\* A claim, with its answer or without, is invisible in PublicationIntent.
LEMMA ClaimRefines ==
  ASSUME TypeOK, NEW d \in Dispatchers, NEW a \in Oldest(chan[d]), NEW t \in Tokens,
         outbox' = [outbox EXCEPT ![a][chan[d]] = Lease(a, chan[d], t)], copies' = copies
  PROVE  UNCHANGED Promise!vars
<1>1. chan[d] \in Channels
  BY DEF TypeOK
<1>2. /\ outbox[a][chan[d]].status \in {"pending", "leased"}
      /\ outbox'[a][chan[d]].status = "leased"
      /\ \A b \in Articles, k \in Channels :
           b # a \/ k # chan[d] => outbox'[b][k] = outbox[b][k]
  BY <1>1, ClaimStep
<1>3. \A b \in Articles, k \in Channels :
        IntentOf(outbox'[b][k].status) = IntentOf(outbox[b][k].status)
  BY <1>2 DEF IntentOf
<1> QED
  BY <1>3, InvisibleStep

\* Every step implements a step of PublicationIntent or a stutter.
LEMMA NextRefines == Inv /\ [Next]_vars => [Promise!Next]_(Promise!vars)
<1> SUFFICES ASSUME Inv, [Next]_vars
             PROVE  Promise!Next \/ UNCHANGED Promise!vars
  OBVIOUS
<1>1. TypeOK /\ JobsOK
  BY DEF Inv
<1>2. CASE outbox' = outbox /\ copies' = copies
  BY <1>2, InvisibleStep
<1>3. CASE \E a \in Articles : Create(a)
  BY <1>1, <1>3, CreateRefines
<1>4. ASSUME NEW d \in Dispatchers, pc[d] = "publish", outbox' = outbox,
             Accept(job[d].article, chan[d])
      PROVE  Promise!Next
  <2>1. /\ job[d].article \in Articles /\ chan[d] \in Channels
        /\ outbox[job[d].article][chan[d]].status # "absent"
    BY <1>1, <1>4 DEF JobsOK, TypeOK, Working, Record
  <2> QED
    BY <1>1, <1>4, <2>1, AcceptRefines
<1>5. ASSUME NEW d \in Dispatchers, Dispatch(d)
      PROVE  Promise!Next \/ UNCHANGED Promise!vars
  <2>1. CASE \E a \in Articles, t \in Tokens : Claim(d, a, t)
    <3>1. PICK a \in Articles, t \in Tokens : Claim(d, a, t)
      BY <2>1
    <3>2. /\ a \in Oldest(chan[d]) /\ copies' = copies
          /\ outbox' = [outbox EXCEPT ![a][chan[d]] = Lease(a, chan[d], t)]
      BY <3>1 DEF Claim
    <3> QED
      BY <1>1, <3>2, ClaimRefines
  <2>2. CASE ClaimError(d)
    <3>1. copies' = copies
      BY <2>2 DEF ClaimError
    <3>2. CASE \E a \in Oldest(chan[d]), t \in Tokens :
                 outbox' = [outbox EXCEPT ![a][chan[d]] = Lease(a, chan[d], t)]
      BY <1>1, <3>1, <3>2, ClaimRefines
    <3> QED
      BY <1>2, <2>2, <3>1, <3>2 DEF ClaimError
  <2>3. CASE Publish(d)
    BY <1>2, <1>4, <2>3
       DEF Publish, PublishConfirmed, PublishRefused, PublishUndecided, dbVars
  <2>4. CASE RecordOutcome(d) \/ OutcomeError(d)
    BY <1>2, <2>4, MarkRefines DEF RecordOutcome, OutcomeError
  <2>5. CASE (\E reached \in SUBSET Channels : Connect(d, reached)) \/ SkipChannel(d)
             \/ ClaimNothing(d) \/ LeaseLost(d)
    BY <1>2, <2>5 DEF Connect, SkipChannel, ClaimNothing, LeaseLost, dbVars
  <2> QED
    BY <1>5, <2>1, <2>2, <2>3, <2>4, <2>5 DEF Dispatch
<1>6. CASE \E d \in Dispatchers : Die(d)
  BY <1>2, <1>4, <1>6 DEF Die, dbVars
<1>7. CASE Tick
  <2>1. \A a \in Articles, c \in Channels :
          IntentOf(outbox'[a][c].status) = IntentOf(outbox[a][c].status)
    BY <1>1, <1>7, TickKeepsStatus
  <2> QED
    BY <1>7, <2>1, InvisibleStep DEF Tick
<1>8. CASE UNCHANGED vars
  BY <1>2, <1>8 DEF vars
<1> QED
  BY <1>3, <1>5, <1>6, <1>7, <1>8 DEF Next

\* The outbox implements its abstract promise: intentions are stored with the
\* article, discharged only after the broker has the message, never lost.
THEOREM PromiseIsKept == Spec => KeepsPromise
BY InitRefines, Invariance, NextRefines, PTL DEF Spec, KeepsPromise, Promise!Spec

-----------------------------------------------------------------------------
(* Copies and faults                                                       *)

\* A fault adds one to the count of faults.
LEMMA FaultAddsOne ==
  ASSUME TypeOK, Fault
  PROVE  faults \in Nat /\ faults' = faults + 1
BY TimeAssumption DEF TypeOK, Fault

\* The numbers that are compared.
LEMMA CountIsNat ==
  ASSUME TypeOK, NEW a \in Articles, NEW c \in Channels, Counted(a, c)
  PROVE  /\ copies[a][c] \in Nat /\ faults \in Nat
         /\ Cardinality(Publishers(a, c)) \in Nat
BY TimeAssumption, FS_CardinalityType DEF TypeOK, Counted

\* Initially there is nothing to count.
LEMMA InitCopies == Init => CopiesOK
<1> SUFFICES ASSUME Init, NEW a \in Articles, NEW c \in Channels
             PROVE  Counted(a, c)
  BY DEF CopiesOK
<1>1. Publishers(a, c) = {} /\ copies[a][c] = 0 /\ faults = 0
  BY DEF Init, Publishers
<1> QED
  BY <1>1, FS_EmptySet DEF Counted

\* Fewer publishers, no new copy, and a delivery that is open only if it was
\* open before.
LEMMA QuietCount ==
  ASSUME TypeOK, NEW a \in Articles, NEW c \in Channels, Counted(a, c),
         faults' = faults, copies'[a][c] = copies[a][c],
         Publishers(a, c)' \subseteq Publishers(a, c),
         Open(a, c)' => Open(a, c)
  PROVE  Counted(a, c)'
<1>1. /\ IsFiniteSet(Publishers(a, c)')
      /\ Cardinality(Publishers(a, c)') <= Cardinality(Publishers(a, c))
  BY FS_Subset DEF Counted
<1>2. Cardinality(Publishers(a, c)') \in Nat
  BY <1>1, FS_CardinalityType
<1> QED
  BY <1>1, <1>2, CountIsNat DEF Counted

\* A fault pays for opening a delivery.
LEMMA FaultCount ==
  ASSUME TypeOK, Fault, NEW a \in Articles, NEW c \in Channels, Counted(a, c),
         copies'[a][c] = copies[a][c],
         Publishers(a, c)' \subseteq Publishers(a, c)
  PROVE  Counted(a, c)'
<1>1. /\ IsFiniteSet(Publishers(a, c)')
      /\ Cardinality(Publishers(a, c)') <= Cardinality(Publishers(a, c))
  BY FS_Subset DEF Counted
<1>2. Cardinality(Publishers(a, c)') \in Nat
  BY <1>1, FS_CardinalityType
<1> QED
  BY <1>1, <1>2, CountIsNat, FaultAddsOne DEF Counted

\* A publisher that has sent the message is one no longer.
LEMMA SentCount ==
  ASSUME TypeOK, NEW a \in Articles, NEW c \in Channels, Counted(a, c),
         NEW d \in Publishers(a, c),
         copies'[a][c] \in {copies[a][c], copies[a][c] + 1},
         Publishers(a, c)' \subseteq Publishers(a, c) \ {d}
  PROVE  /\ IsFiniteSet(Publishers(a, c)')
         /\ copies'[a][c] \in Nat /\ Cardinality(Publishers(a, c)') \in Nat
         /\ copies'[a][c] + Cardinality(Publishers(a, c)') <=
              copies[a][c] + Cardinality(Publishers(a, c))
         /\ copies'[a][c] = copies[a][c] =>
              copies'[a][c] + Cardinality(Publishers(a, c)') <
                copies[a][c] + Cardinality(Publishers(a, c))
<1> DEFINE Rest == Publishers(a, c) \ {d}
<1>1. IsFiniteSet(Rest) /\ Cardinality(Rest) = Cardinality(Publishers(a, c)) - 1
  BY FS_RemoveElement DEF Counted
<1>2. IsFiniteSet(Publishers(a, c)') /\ Cardinality(Publishers(a, c)') <= Cardinality(Rest)
  BY <1>1, FS_Subset
<1>3. Cardinality(Publishers(a, c)') \in Nat
  BY <1>2, FS_CardinalityType
<1> HIDE DEF Rest
<1> QED
  BY <1>1, <1>2, <1>3, CountIsNat

\* Where a dispatcher is that others do not move.
LEMMA OthersPublish ==
  ASSUME NEW d \in Dispatchers, NEW a, NEW c, pc'[d] # "publish",
         \A e \in Dispatchers \ {d} :
           pc'[e] = pc[e] /\ chan'[e] = chan[e] /\ job'[e] = job[e]
  PROVE  Publishers(a, c)' \subseteq Publishers(a, c) \ {d}
BY DEF Publishers

\* A delivery stays covered by a dispatcher that goes on, under its lease.
LEMMA StaysCovered ==
  ASSUME NEW e \in Dispatchers, NEW a, NEW c, Covers(e, a, c),
         pc'[e] \in {"publish", "confirmed"}, chan'[e] = chan[e], job'[e] = job[e],
         outbox'[a][c].status = outbox[a][c].status,
         outbox'[a][c].token = outbox[a][c].token, outbox'[a][c].due > 0
  PROVE  Covers(e, a, c)'
BY DEF Covers, HoldsLease, Record

\* Creating an article.
LEMMA CreateCount ==
  ASSUME Inv, CopiesOK, NEW a \in Articles, Create(a)
  PROVE  CopiesOK'
<1>1. TypeOK
  BY DEF Inv
<1>2. /\ copies' = copies /\ faults' = faults /\ pc' = pc /\ chan' = chan /\ job' = job
      /\ outbox[a] = [c \in Channels |-> Absent]
      /\ \A b \in Articles : b # a => outbox'[b] = outbox[b]
  BY <1>1 DEF Create, procVars, TypeOK
<1>3. ASSUME NEW b \in Articles, NEW c \in Channels, NEW e \in Dispatchers, Covers(e, b, c)
      PROVE  Covers(e, b, c)'
  <2>1. b # a
    BY <1>2, <1>3 DEF Covers, HoldsLease, Record, Absent
  <2> QED
    BY <1>2, <1>3, <2>1 DEF Covers, HoldsLease, Record
<1>4. ASSUME NEW b \in Articles, NEW c \in Channels
      PROVE  Counted(b, c)'
  <2>1. Open(b, c)' => Open(b, c)
    BY <1>2, <1>3 DEF Open, Absent
  <2>2. Publishers(b, c)' = Publishers(b, c)
    BY <1>2 DEF Publishers
  <2> QED
    BY <1>1, <1>2, <2>1, <2>2, QuietCount DEF CopiesOK
<1> QED
  BY <1>4 DEF CopiesOK

\* A dispatcher that ends up idle without a fault, and has covered nothing.
LEMMA IdleCount ==
  ASSUME Inv, CopiesOK, NEW d \in Dispatchers, NextChannel(d) \/ AbandonRound(d),
         faults' = faults, copies' = copies, outbox' = outbox,
         \A a \in Articles, c \in Channels : ~ Covers(d, a, c)
  PROVE  CopiesOK'
<1>1. TypeOK
  BY DEF Inv
<1>2. /\ pc'[d] \in {"connect", "claim"}
      /\ \A e \in Dispatchers \ {d} :
           pc'[e] = pc[e] /\ chan'[e] = chan[e] /\ job'[e] = job[e]
  BY <1>1, IdleAgain
<1>3. ASSUME NEW a \in Articles, NEW c \in Channels
      PROVE  Counted(a, c)'
  <2>1. Publishers(a, c)' \subseteq Publishers(a, c)
    BY <1>2, OthersPublish
  <2>2. Open(a, c)' => Open(a, c)
    BY <1>2 DEF Open, Covers, HoldsLease, Record
  <2> QED
    BY <1>1, <2>1, <2>2, QuietCount DEF CopiesOK
<1> QED
  BY <1>3 DEF CopiesOK

\* Connecting covers nothing and uncovers nothing.
LEMMA ConnectCount ==
  ASSUME Inv, CopiesOK, NEW d \in Dispatchers, NEW reached, Connect(d, reached)
  PROVE  CopiesOK'
<1>1. TypeOK
  BY DEF Inv
<1>2. /\ pc[d] = "connect" /\ pc'[d] = "claim" /\ chan' = chan /\ job' = job
      /\ outbox' = outbox /\ copies' = copies /\ faults' = faults
      /\ \A e \in Dispatchers \ {d} : pc'[e] = pc[e]
  BY <1>1 DEF Connect, dbVars, TypeOK
<1>3. ASSUME NEW a \in Articles, NEW c \in Channels
      PROVE  Counted(a, c)'
  <2>1. Publishers(a, c)' \subseteq Publishers(a, c)
    BY <1>2, OthersPublish
  <2>2. Open(a, c)' => Open(a, c)
    BY <1>2 DEF Open, Covers, HoldsLease, Record
  <2> QED
    BY <1>1, <1>2, <2>1, <2>2, QuietCount DEF CopiesOK
<1> QED
  BY <1>3 DEF CopiesOK

\* A claim closes an open delivery and has one more publisher for it.
LEMMA ClaimCount ==
  ASSUME Inv, CopiesOK, NEW d \in Dispatchers, NEW a \in Articles, NEW t \in Tokens,
         Claim(d, a, t)
  PROVE  CopiesOK'
<1>1. TypeOK
  BY DEF Inv
<1>2. PICK k \in Channels : k = chan[d] /\ pc[d] = "claim" /\ a \in Oldest(k)
      /\ outbox' = [outbox EXCEPT ![a][k] = Lease(a, k, t)]
      /\ copies' = copies /\ faults' = faults /\ chan' = chan
  BY <1>1 DEF Claim, TypeOK
<1>3. /\ outbox[a][k].due = 0 /\ outbox[a][k].status \in {"pending", "leased"}
      /\ \A b \in Articles, c \in Channels : b # a \/ c # k => outbox'[b][c] = outbox[b][c]
  BY <1>1, <1>2, ClaimStep
<1>4. /\ outbox'[a][k].status = "leased" /\ outbox'[a][k].token = t
      /\ outbox'[a][k].due = LeaseSeconds /\ LeaseSeconds > 0
  BY <1>1, <1>2, LeaseIsARecord, TimeAssumption DEF TypeOK
<1>5. /\ pc'[d] = "publish" /\ job'[d].article = a /\ job'[d].token = t /\ chan'[d] = k
      /\ \A e \in Dispatchers \ {d} :
           pc'[e] = pc[e] /\ chan'[e] = chan[e] /\ job'[e] = job[e]
  <2>1. job' = [job EXCEPT ![d] =
          [article |-> a, token |-> t, attempts |-> Lease(a, k, t).attempts]]
    BY <1>2 DEF Claim
  <2>2. pc' = [pc EXCEPT ![d] = "publish"]
    BY DEF Claim
  <2> QED
    BY <1>1, <1>2, <2>1, <2>2 DEF TypeOK
<1>6. Counted(a, k)'
  <2>1. Counted(a, k)
    BY <1>2 DEF CopiesOK
  <2>2. Open(a, k)
    <3>1. \A e \in Dispatchers : ~ Covers(e, a, k)
      BY <1>3 DEF Covers, Record
    <3> QED
      BY <1>3, <3>1 DEF Open
  <2>3. ~ Open(a, k)'
    <3>1. Covers(d, a, k)'
      BY <1>4, <1>5 DEF Covers, HoldsLease, Record
    <3> QED
      BY <3>1 DEF Open
  <2>4. Publishers(a, k)' \subseteq Publishers(a, k) \cup {d}
    BY <1>5 DEF Publishers
  <2>5. /\ IsFiniteSet(Publishers(a, k) \cup {d})
        /\ Cardinality(Publishers(a, k) \cup {d}) \in
             {Cardinality(Publishers(a, k)), Cardinality(Publishers(a, k)) + 1}
    BY <2>1, FS_AddElement DEF Counted
  <2>6. /\ IsFiniteSet(Publishers(a, k)')
        /\ Cardinality(Publishers(a, k)') <= Cardinality(Publishers(a, k) \cup {d})
    BY <2>4, <2>5, FS_Subset
  <2>7. Cardinality(Publishers(a, k)') \in Nat
    BY <2>6, FS_CardinalityType
  <2> QED
    BY <1>1, <1>2, <2>1, <2>2, <2>3, <2>5, <2>6, <2>7, CountIsNat DEF Counted
<1>7. ASSUME NEW b \in Articles, NEW c \in Channels, b # a \/ c # k
      PROVE  Counted(b, c)'
  <2>1. Publishers(b, c)' \subseteq Publishers(b, c)
    BY <1>5, <1>7 DEF Publishers
  <2>2. outbox'[b][c] = outbox[b][c]
    BY <1>3, <1>7
  <2>3. ASSUME NEW e \in Dispatchers, Covers(e, b, c) PROVE Covers(e, b, c)'
    <3>1. pc[d] = "claim"
      BY <1>2
    <3>2. e # d
      BY <2>3, <3>1 DEF Covers
    <3> QED
      BY <1>5, <2>2, <2>3, <3>2 DEF Covers, HoldsLease, Record
  <2>4. Open(b, c)' => Open(b, c)
    BY <2>2, <2>3 DEF Open
  <2> QED
    BY <1>1, <1>2, <2>1, <2>4, QuietCount DEF CopiesOK
<1> QED
  BY <1>6, <1>7 DEF CopiesOK

\* A publication that is confirmed, refused or undecided.
LEMMA PublishCount ==
  ASSUME Inv, CopiesOK, NEW d \in Dispatchers, Publish(d)
  PROVE  CopiesOK'
<1>1. TypeOK /\ JobsOK
  BY DEF Inv
<1>2. /\ pc[d] = "publish" /\ outbox' = outbox /\ chan' = chan /\ job' = job
      /\ pc'[d] \in {"confirmed", "failed"} /\ \A e \in Dispatchers \ {d} : pc'[e] = pc[e]
  BY <1>1 DEF Publish, PublishConfirmed, PublishRefused, PublishUndecided, dbVars, TypeOK
<1>3. PICK a \in Articles, k \in Channels : a = job[d].article /\ k = chan[d]
  BY <1>1, <1>2 DEF JobsOK, TypeOK, Working
<1>4. d \in Publishers(a, k)
  BY <1>2, <1>3 DEF Publishers
<1>5. \A b \in Articles, c \in Channels : Publishers(b, c)' \subseteq Publishers(b, c) \ {d}
  BY <1>2, OthersPublish
<1>6. \/ /\ PublishConfirmed(d) /\ faults' = faults /\ pc'[d] = "confirmed"
         /\ copies' = [copies EXCEPT ![a][k] = @ + 1]
      \/ PublishRefused(d) /\ faults' = faults /\ copies' = copies
      \/ PublishUndecided(d) /\ Fault /\ copies' = [copies EXCEPT ![a][k] = @ + 1]
  BY <1>1, <1>3 DEF Publish, PublishConfirmed, PublishRefused, PublishUndecided, Accept, TypeOK
<1>7. /\ copies'[a][k] \in {copies[a][k], copies[a][k] + 1}
      /\ copies' = copies \/ copies'[a][k] = copies[a][k] + 1
      /\ \A b \in Articles, c \in Channels : b # a \/ c # k => copies'[b][c] = copies[b][c]
  BY <1>1, <1>3, <1>6 DEF TypeOK
<1>8. Counted(a, k)'
  <2>1. Counted(a, k)
    BY <1>3 DEF CopiesOK
  <2>2. /\ IsFiniteSet(Publishers(a, k)')
        /\ copies'[a][k] \in Nat /\ Cardinality(Publishers(a, k)') \in Nat
        /\ copies'[a][k] + Cardinality(Publishers(a, k)') <=
             copies[a][k] + Cardinality(Publishers(a, k))
        /\ copies'[a][k] = copies[a][k] =>
             copies'[a][k] + Cardinality(Publishers(a, k)') <
               copies[a][k] + Cardinality(Publishers(a, k))
    BY <1>1, <1>3, <1>4, <1>5, <1>7, <2>1, SentCount
  <2>3. CASE PublishConfirmed(d) /\ faults' = faults /\ pc'[d] = "confirmed"
    <3>1. Open(a, k)' => Open(a, k)
      BY <1>2, <2>3 DEF Open, Covers, HoldsLease, Record
    <3> QED
      BY <1>1, <1>3, <2>1, <2>2, <2>3, <3>1, CountIsNat DEF Counted
  <2>4. CASE faults' = faults /\ copies' = copies
    BY <1>1, <1>3, <2>1, <2>2, <2>4, CountIsNat DEF Counted
  <2>5. CASE Fault
    BY <1>1, <1>3, <2>1, <2>2, <2>5, CountIsNat, FaultAddsOne DEF Counted
  <2> QED
    BY <1>6, <2>3, <2>4, <2>5
<1>9. ASSUME NEW b \in Articles, NEW c \in Channels, b # a \/ c # k
      PROVE  Counted(b, c)'
  <2>1. Open(b, c)' => Open(b, c)
    BY <1>2, <1>3, <1>9 DEF Open, Covers, HoldsLease, Record
  <2>2. faults' = faults \/ Fault
    BY <1>6
  <2> QED
    BY <1>1, <1>5, <1>7, <1>9, <2>1, <2>2, QuietCount, FaultCount DEF CopiesOK
<1> QED
  BY <1>8, <1>9 DEF CopiesOK

\* Recording an outcome opens no delivery that was not open before.
LEMMA RecordCount ==
  ASSUME Inv, CopiesOK, NEW d \in Dispatchers, RecordOutcome(d)
  PROVE  CopiesOK'
<1>1. TypeOK /\ JobsOK
  BY DEF Inv
<1>2. pc[d] \in Working /\ HoldsLease(d)
  BY MarkStep DEF RecordOutcome
<1>3. PICK a \in Articles, k \in Channels : a = job[d].article /\ k = chan[d]
  BY <1>1, <1>2 DEF JobsOK, TypeOK
<1>4. /\ outbox'[a][k].status = "published" => pc[d] = "confirmed"
      /\ outbox'[a][k].status \in {"pending", "published"}
      /\ \A b \in Articles, c \in Channels : b # a \/ c # k => outbox'[b][c] = outbox[b][c]
  BY <1>3, MarkStep DEF RecordOutcome
<1>5. /\ pc'[d] \in {"connect", "claim"}
      /\ \A e \in Dispatchers \ {d} :
           pc'[e] = pc[e] /\ chan'[e] = chan[e] /\ job'[e] = job[e]
      /\ copies' = copies /\ faults' = faults
  BY <1>1, IdleAgain DEF RecordOutcome
<1>6. outbox[a][k].status = "leased"
  BY <1>2, <1>3 DEF HoldsLease, Record
<1>7. \A e \in Dispatchers \ {d} : ~ Covers(e, a, k)
  BY <1>2, <1>3, HoldersDiffer DEF Covers, Working
<1>8. outbox'[a][k].status = "published" \/ pc[d] = "failed"
  <2>1. CASE MarkPublished(d)
    <3>1. outbox' = [outbox EXCEPT ![a][k] = [@ EXCEPT !.status = "published",
                                                       !.token = None, !.due = 0]]
      BY <1>3, <2>1 DEF MarkPublished, Update
    <3>2. outbox[a][k] \in Records
      BY <1>1 DEF TypeOK
    <3> QED
      BY <1>1, <3>1, <3>2 DEF TypeOK, Records
  <2>2. CASE MarkFailed(d)
    BY <2>2 DEF MarkFailed
  <2> QED
    BY <2>1, <2>2 DEF RecordOutcome
<1>9. ASSUME NEW b \in Articles, NEW c \in Channels
      PROVE  Counted(b, c)'
  <2>1. Publishers(b, c)' \subseteq Publishers(b, c)
    BY <1>5, OthersPublish
  <2>2. CASE b = a /\ c = k
    <3>1. pc[d] = "failed" => Open(a, k)
      BY <1>6, <1>7 DEF Open, Covers
    <3>2. Open(b, c)' => Open(b, c)
      BY <1>8, <2>2, <3>1 DEF Open
    <3> QED
      BY <1>1, <1>5, <2>1, <3>2, QuietCount DEF CopiesOK
  <2>3. CASE b # a \/ c # k
    <3>1. Open(b, c)' => Open(b, c)
      BY <1>3, <1>4, <1>5, <2>3 DEF Open, Covers, HoldsLease, Record
    <3> QED
      BY <1>1, <1>5, <2>1, <3>1, QuietCount DEF CopiesOK
  <2> QED
    BY <2>2, <2>3
<1> QED
  BY <1>9 DEF CopiesOK

\* A fault in which a dispatcher ends up idle pays for what it has sent or
\* left open.
LEMMA FaultyCount ==
  ASSUME Inv, CopiesOK, NEW d \in Dispatchers, Fault,
         NextChannel(d) \/ AbandonRound(d),
         \/ copies' = copies
         \/ pc[d] = "publish" /\ Accept(job[d].article, chan[d])
  PROVE  CopiesOK'
<1>1. TypeOK /\ JobsOK
  BY DEF Inv
<1>2. /\ pc'[d] \in {"connect", "claim"}
      /\ \A e \in Dispatchers \ {d} :
           pc'[e] = pc[e] /\ chan'[e] = chan[e] /\ job'[e] = job[e]
  BY <1>1, IdleAgain
<1>3. \A b \in Articles, c \in Channels : Publishers(b, c)' \subseteq Publishers(b, c) \ {d}
  BY <1>2, OthersPublish
<1>4. CASE copies' = copies
  BY <1>1, <1>3, <1>4, FaultCount DEF CopiesOK
<1>5. CASE pc[d] = "publish" /\ Accept(job[d].article, chan[d])
  <2>1. PICK a \in Articles, k \in Channels :
          a = job[d].article /\ k = chan[d] /\ d \in Publishers(a, k)
    BY <1>1, <1>5 DEF JobsOK, TypeOK, Working, Publishers
  <2>2. /\ copies'[a][k] \in {copies[a][k], copies[a][k] + 1}
        /\ \A b \in Articles, c \in Channels : b # a \/ c # k => copies'[b][c] = copies[b][c]
    BY <1>1, <1>5, <2>1 DEF Accept, TypeOK
  <2>3. Counted(a, k)'
    <3>1. Counted(a, k)
      BY <2>1 DEF CopiesOK
    <3>2. /\ IsFiniteSet(Publishers(a, k)')
          /\ copies'[a][k] \in Nat /\ Cardinality(Publishers(a, k)') \in Nat
          /\ copies'[a][k] + Cardinality(Publishers(a, k)') <=
               copies[a][k] + Cardinality(Publishers(a, k))
      BY <1>1, <1>3, <2>1, <2>2, <3>1, SentCount
    <3> QED
      BY <1>1, <2>1, <3>1, <3>2, CountIsNat, FaultAddsOne DEF Counted
  <2>4. ASSUME NEW b \in Articles, NEW c \in Channels, b # a \/ c # k
        PROVE  Counted(b, c)'
    BY <1>1, <1>3, <2>2, <2>4, FaultCount DEF CopiesOK
  <2> QED
    BY <2>3, <2>4 DEF CopiesOK
<1> QED
  BY <1>4, <1>5

\* Time opens a delivery only by outlasting its holder, which is a fault.
LEMMA TickCount ==
  ASSUME Inv, CopiesOK, Tick
  PROVE  CopiesOK'
<1>1. TypeOK /\ JobsOK
  BY DEF Inv
<1>2. copies' = copies /\ pc' = pc /\ chan' = chan /\ job' = job
  BY DEF Tick, procVars
<1>3. \A a \in Articles, c \in Channels :
        /\ outbox'[a][c].status = outbox[a][c].status
        /\ outbox'[a][c].token = outbox[a][c].token
  BY <1>1, TickKeepsStatus
<1>4. \A a \in Articles, c \in Channels : Publishers(a, c)' = Publishers(a, c)
  BY <1>2 DEF Publishers
<1>5. CASE Overrun # {}
  <2>1. Fault
    BY <1>5 DEF Tick
  <2> QED
    BY <1>1, <1>2, <1>4, <2>1, FaultCount DEF CopiesOK
<1>6. CASE Overrun = {}
  <2>1. faults' = faults
    BY <1>6 DEF Tick
  <2>2. ASSUME NEW a \in Articles, NEW c \in Channels, NEW e \in Dispatchers, Covers(e, a, c)
        PROVE  Covers(e, a, c)'
    <3>1. outbox[a][c].due > 0 /\ outbox[a][c].due # 1
      BY <1>6, <2>2 DEF Overrun, Covers, Working, Record
    <3>2. outbox[a][c] \in Records /\ outbox[a][c].due \in Nat
      BY <1>1 DEF TypeOK, Records
    <3>3. outbox'[a][c] = [outbox[a][c] EXCEPT !.due = IF @ > 0 THEN @ - 1 ELSE 0]
      BY DEF Tick
    <3>4. outbox'[a][c].due > 0
      BY <3>1, <3>2, <3>3 DEF Records
    <3> QED
      BY <1>2, <1>3, <2>2, <3>4, StaysCovered DEF Covers
  <2>3. \A a \in Articles, c \in Channels : Open(a, c)' => Open(a, c)
    BY <1>3, <2>2 DEF Open
  <2> QED
    BY <1>1, <1>2, <1>4, <2>1, <2>3, QuietCount DEF CopiesOK
<1> QED
  BY <1>5, <1>6

\* Every step keeps the count.
LEMMA NextCopies ==
  ASSUME Inv, CopiesOK, [Next]_vars
  PROVE  CopiesOK'
<1>1. CASE UNCHANGED vars
  BY <1>1 DEF vars, CopiesOK, Counted, Publishers, Open, Covers, HoldsLease, Record
<1>2. CASE \E a \in Articles : Create(a)
  BY <1>2, CreateCount
<1>3. ASSUME NEW d \in Dispatchers, SkipChannel(d) \/ ClaimNothing(d) \/ LeaseLost(d)
      PROVE  CopiesOK'
  <2>1. /\ NextChannel(d) \/ AbandonRound(d)
        /\ outbox' = outbox /\ copies' = copies /\ faults' = faults
    BY <1>3 DEF SkipChannel, ClaimNothing, LeaseLost, dbVars
  <2>2. \A a \in Articles, c \in Channels : ~ Covers(d, a, c)
    BY <1>3 DEF SkipChannel, ClaimNothing, LeaseLost, Covers
  <2> QED
    BY <2>1, <2>2, IdleCount
<1>4. ASSUME NEW d \in Dispatchers, ClaimError(d) \/ OutcomeError(d) \/ Die(d)
      PROVE  CopiesOK'
  BY <1>4, FaultyCount DEF ClaimError, OutcomeError, Die
<1>5. ASSUME NEW d \in Dispatchers, Dispatch(d)
      PROVE  CopiesOK'
  BY <1>3, <1>4, <1>5, ConnectCount, ClaimCount, PublishCount, RecordCount DEF Dispatch
<1>6. CASE Tick
  BY <1>6, TickCount
<1> QED
  BY <1>1, <1>2, <1>4, <1>5, <1>6 DEF Next

\* For any number of dispatchers and articles: a broker has at most one copy of
\* a message more than there were faults (claim, its lease, and the order of
\* publish and mark_published in dispatch_one).
THEOREM CopiesAreCounted == Spec => []DuplicatesNeedFaults
<1>1. Init => CopiesOK
  BY InitCopies
<1>2. Inv /\ CopiesOK /\ [Next]_vars => CopiesOK'
  BY NextCopies
<1>3. Inv /\ CopiesOK => DuplicatesNeedFaults
  <2> SUFFICES ASSUME Inv, CopiesOK, NEW a \in Articles, NEW c \in Channels
               PROVE  copies[a][c] <= 1 + faults
    BY DEF DuplicatesNeedFaults
  <2> QED
    BY CountIsNat DEF Inv, CopiesOK, Counted
<1> QED
  BY <1>1, <1>2, <1>3, Invariance, PTL DEF Spec
=============================================================================
