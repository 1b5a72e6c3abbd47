--------------------------- MODULE SearchCacheProofs ---------------------------
(***************************************************************************)
(* What holds of searches and their cache for any articles, keys, searches *)
(* and workers, any TTL and timeouts, and any number of faults.            *)
(***************************************************************************)
EXTENDS SearchCache, Integers, TLAPS

-----------------------------------------------------------------------------
(* Numbers                                                                 *)

\* All bounds are natural numbers.
LEMMA Bounds ==
  /\ TTL \in Nat /\ TTL >= 1
  /\ ElasticsearchTimeout \in Nat /\ RedisTimeout \in Nat /\ Linger \in Nat
  /\ Window \in Nat /\ Window = ElasticsearchTimeout + RedisTimeout + Linger
  /\ AgeCap \in Nat /\ AgeCap = TTL + Window + 1
BY NumberAssumption DEF Window, AgeCap

\* Counting a fault leaves the counter within its bound.
LEMMA FaultCounted ==
  ASSUME TypeOK, Fault
  PROVE  faults' \in 0..MaxFaults
BY NumberAssumption DEF TypeOK, Fault

\* So does a call that raises.
LEMMA RaiseCounted ==
  ASSUME TypeOK, NEW s \in Searches, Raises(s)
  PROVE  faults' \in 0..MaxFaults
BY FaultCounted DEF Raises, TypeOK

\* The age of a visible article is a number.
LEMMA AgeIsNat ==
  ASSUME TypeOK, NEW a \in Visible
  PROVE  a \in Articles /\ age[a] \in Nat /\ age[a] <= AgeCap
BY Bounds DEF TypeOK, Visible

\* What lags by d lags by any greater number.
LEMMA LagWeaker ==
  ASSUME TypeOK, NEW S, NEW d \in Int, NEW e \in Int, d <= e, Lag(S, d)
  PROVE  Lag(S, e)
BY AgeIsNat DEF Lag

\* Nothing but time makes a set lag behind further.
LEMMA LagStays ==
  ASSUME TypeOK, NEW S, NEW d \in Nat, Lag(S, d),
         \A a \in Articles : age'[a] \in {age[a], 0, None}
  PROVE  \A a \in Visible' \ S : age'[a] <= d
<1>1. SUFFICES ASSUME NEW a \in Articles, age'[a] # None, a \notin S
               PROVE  age'[a] <= d
  BY DEF Visible
<1>2. CASE age'[a] = age[a]
  BY <1>1, <1>2 DEF Lag, Visible
<1>3. CASE age'[a] = 0
  BY <1>3
<1> QED
  BY <1>1, <1>2, <1>3

\* A tick makes it lag by one more.
LEMMA LagTick ==
  ASSUME TypeOK, Tick, NEW S, NEW d \in Int, Lag(S, d)
  PROVE  \A a \in Visible' \ S : age'[a] <= d + 1
<1>1. SUFFICES ASSUME NEW a \in Articles, age'[a] # None, a \notin S
               PROVE  age'[a] <= d + 1
  BY DEF Visible
<1>2. a \in Visible
  BY <1>1 DEF Tick
<1>3. age[a] \in Nat /\ age[a] <= AgeCap /\ age[a] <= d
  BY <1>1, <1>2, AgeIsNat DEF Lag
<1>4. age'[a] = IF age[a] < AgeCap THEN age[a] + 1 ELSE AgeCap
  BY <1>1, <1>2 DEF Tick
<1> QED
  BY <1>3, <1>4, Bounds

\* What lags by at most Window has every settled article.
LEMMA SettledFound ==
  ASSUME TypeOK, ClearOK, NEW S, Lag(S, Window), NEW w \in Workers
  PROVE  settled[w] \subseteq S
<1>1. SUFFICES ASSUME NEW b \in settled[w], b \notin S
               PROVE  FALSE
  OBVIOUS
<1>2. b \in Visible /\ age[b] > Window
  BY DEF ClearOK
<1>3. age[b] \in Nat /\ age[b] <= Window
  BY <1>1, <1>2, AgeIsNat DEF Lag
<1> QED
  BY <1>2, <1>3, Bounds

-----------------------------------------------------------------------------
(* Init                                                                    *)

\* The invariant holds at the start.
LEMMA InitInv ==
  ASSUME Init
  PROVE  Inv
<1>1. TypeOK
  BY NumberAssumption, Bounds DEF Init, TypeOK
<1>2. \A s \in Searches : SearchOK(s)
  BY DEF Init, SearchOK
<1>3. EntriesOK
  BY DEF Init, EntriesOK, Cached
<1>4. ClearOK
  BY DEF Init, ClearOK
<1> QED
  BY <1>1, <1>2, <1>3, <1>4 DEF Inv

-----------------------------------------------------------------------------
(* Steps that leave the index and the workers alone                        *)

\* New entries and new late commands lack nothing that is settled.
LEMMA CacheStep ==
  ASSUME Inv, UNCHANGED entryVars, UNCHANGED workerVars,
         \A k \in Keys : cache'[k] # None =>
           \/ cache'[k] = cache[k]
           \/ cache'[k].ttl = TTL /\ Lag(cache'[k].ids, Window),
         \A x \in late' : x \in late \/ Lag(x.ids, Window - x.left)
  PROVE  EntriesOK' /\ ClearOK'
<1>1. TypeOK /\ EntriesOK /\ ClearOK
  BY DEF Inv
<1>2. Visible' = Visible /\ age' = age
  BY DEF Visible, entryVars
<1>3. \A S, d : Lag(S, d) => \A a \in Visible' \ S : age'[a] <= d
  BY <1>2 DEF Lag
<1>4. ASSUME NEW x \in late' PROVE Lag(x.ids, Window - x.left)
  BY <1>1, <1>4 DEF EntriesOK
<1>5. ASSUME NEW k \in Keys, cache'[k] # None
      PROVE  Lag(cache'[k].ids, Window + TTL - cache'[k].ttl)
  <2>1. CASE cache'[k] = cache[k]
    BY <1>1, <1>5, <2>1 DEF EntriesOK, Cached
  <2>2. CASE cache'[k].ttl = TTL /\ Lag(cache'[k].ids, Window)
    <3>1. Window + TTL - cache'[k].ttl = Window
      BY <2>2, Bounds
    <3> QED
      BY <2>2, <3>1
  <2> QED
    BY <1>5, <2>1, <2>2
<1>6. EntriesOK'
  BY <1>2, <1>4, <1>5 DEF EntriesOK, Cached, Lag, Window
<1>7. ASSUME NEW w \in Workers, wpc[w] # "idle", NEW k \in Keys, cache'[k] # None
      PROVE  settled[w] \subseteq cache'[k].ids \/ k \in scan[w] \cup batch[w]
  <2>1. CASE cache'[k] = cache[k]
    BY <1>1, <1>7, <2>1 DEF ClearOK, Cached
  <2>2. CASE cache'[k].ttl = TTL /\ Lag(cache'[k].ids, Window)
    BY <1>1, <2>2, SettledFound
  <2> QED
    BY <1>7, <2>1, <2>2
<1>8. ClearOK'
  BY <1>1, <1>2, <1>7 DEF ClearOK, Cached, workerVars, Window
<1> QED
  BY <1>6, <1>8

\* A step of one search.
LEMMA SearchStep ==
  ASSUME Inv, TypeOK', NEW s \in Searches, SearchOK(s)',
         UNCHANGED entryVars, UNCHANGED workerVars,
         \A t \in Searches \ {s} : /\ pc'[t] = pc[t] /\ key'[t] = key[t]
                                   /\ left'[t] = left[t] /\ found'[t] = found[t],
         \A k \in Keys : cache'[k] # None =>
           \/ cache'[k] = cache[k]
           \/ cache'[k].ttl = TTL /\ Lag(cache'[k].ids, Window),
         \A x \in late' : x \in late \/ Lag(x.ids, Window - x.left)
  PROVE  Inv'
<1>1. EntriesOK' /\ ClearOK'
  BY CacheStep
<1>2. ASSUME NEW t \in Searches PROVE SearchOK(t)'
  <2>1. CASE t = s
    BY <2>1
  <2>2. CASE t # s
    BY <2>2 DEF Inv, SearchOK, Lag, Visible, entryVars
  <2> QED
    BY <2>1, <2>2
<1> QED
  BY <1>1, <1>2 DEF Inv

\* The types of an answered search.
LEMMA EndTypes ==
  ASSUME TypeOK, NEW s \in Searches, End(s)
  PROVE  /\ pc' \in [Searches -> {"idle", "get", "query", "reply", "set"}]
         /\ key' \in [Searches -> Keys \cup {None}]
         /\ clients' \in [Searches -> SUBSET Clients]
         /\ left' \in [Searches -> 0..Window]
         /\ found' \in [Searches -> (SUBSET Articles) \cup {None}]
         /\ pc'[s] = "idle"
         /\ \A t \in Searches \ {s} : /\ pc'[t] = pc[t] /\ key'[t] = key[t]
                                      /\ left'[t] = left[t] /\ found'[t] = found[t]
BY Bounds DEF TypeOK, End, Enter

\* A search that ends while index, workers and cache stay as they are.
LEMMA EndInv ==
  ASSUME Inv, NEW s \in Searches, End(s), UNCHANGED entryVars, UNCHANGED workerVars,
         UNCHANGED redisVars, faults' \in 0..MaxFaults
  PROVE  Inv'
<1>1. TypeOK
  BY DEF Inv
<1>2. TypeOK'
  BY <1>1, EndTypes DEF TypeOK, entryVars, workerVars, redisVars
<1>3. SearchOK(s)'
  BY <1>1, EndTypes DEF SearchOK
<1> QED
  BY <1>1, <1>2, <1>3, EndTypes, SearchStep DEF redisVars

-----------------------------------------------------------------------------
(* search_articles                                                         *)

\* A search that goes on to another step, with a timeout of its own.
LEMMA EnterTypes ==
  ASSUME TypeOK, NEW s \in Searches, NEW timeout \in 0..Window,
         NEW where \in {"idle", "get", "query", "reply", "set"}, Enter(s, where, timeout)
  PROVE  /\ pc' \in [Searches -> {"idle", "get", "query", "reply", "set"}]
         /\ left' \in [Searches -> 0..Window]
         /\ pc'[s] = where /\ left'[s] = timeout
         /\ \A t \in Searches \ {s} : pc'[t] = pc[t] /\ left'[t] = left[t]
BY DEF TypeOK, Enter

\* A request begins with the cache or with the query.
LEMMA BeginInv ==
  ASSUME Inv, NEW s \in Searches, NEW k \in Keys, NEW C \in SUBSET Clients, Begin(s, k, C)
  PROVE  Inv'
<1>1. TypeOK
  BY DEF Inv
<1>2. /\ key' \in [Searches -> Keys \cup {None}] /\ key'[s] = k
      /\ clients' \in [Searches -> SUBSET Clients]
      /\ \A t \in Searches \ {s} : key'[t] = key[t]
  BY <1>1 DEF TypeOK, Begin
<1>3. UNCHANGED entryVars /\ UNCHANGED redisVars /\ UNCHANGED workerVars /\ found' = found
      /\ faults' = faults
  BY DEF Begin
<1>4. \/ Enter(s, "get", RedisTimeout)
      \/ Enter(s, "query", ElasticsearchTimeout)
  BY DEF Begin
<1>5. CASE Enter(s, "get", RedisTimeout)
  <2>1. RedisTimeout \in 0..Window
    BY Bounds
  <2>2. TypeOK'
    BY <1>1, <1>2, <1>3, <1>5, <2>1, EnterTypes DEF TypeOK, entryVars, redisVars, workerVars
  <2>3. SearchOK(s)'
    BY <1>1, <1>2, <1>5, <2>1, EnterTypes, Bounds DEF SearchOK
  <2> QED
    BY <1>1, <1>2, <1>3, <1>5, <2>1, <2>2, <2>3, EnterTypes, SearchStep DEF redisVars
<1>6. CASE Enter(s, "query", ElasticsearchTimeout)
  <2>1. ElasticsearchTimeout \in 0..Window
    BY Bounds
  <2>2. TypeOK'
    BY <1>1, <1>2, <1>3, <1>6, <2>1, EnterTypes DEF TypeOK, entryVars, redisVars, workerVars
  <2>3. SearchOK(s)'
    BY <1>1, <1>2, <1>6, <2>1, EnterTypes, Bounds DEF SearchOK
  <2> QED
    BY <1>1, <1>2, <1>3, <1>6, <2>1, <2>2, <2>3, EnterTypes, SearchStep DEF redisVars
<1> QED
  BY <1>4, <1>5, <1>6

\* A hit ends the search.
LEMMA HitInv ==
  ASSUME Inv, NEW s \in Searches, Hit(s)
  PROVE  Inv'
BY EndInv DEF Hit, Inv, TypeOK

\* After the cache comes Elasticsearch, or the end.
LEMMA GoOnInv ==
  ASSUME Inv, NEW s \in Searches, pc[s] = "get", GoOn(s), UNCHANGED entryVars,
         UNCHANGED workerVars, UNCHANGED redisVars, faults' \in 0..MaxFaults
  PROVE  Inv'
<1>1. TypeOK
  BY DEF Inv
<1>2. CASE End(s)
  BY <1>2, EndInv
<1>3. CASE Enter(s, "query", ElasticsearchTimeout) /\ UNCHANGED <<key, clients, found>>
  <2>1. ElasticsearchTimeout \in 0..Window
    BY Bounds
  <2>2. TypeOK'
    BY <1>1, <1>3, <2>1, EnterTypes DEF TypeOK, entryVars, redisVars, workerVars
  <2>3. SearchOK(s)'
    BY <1>1, <1>3, <2>1, EnterTypes, Bounds DEF SearchOK, Inv
  <2> QED
    BY <1>1, <1>3, <2>1, <2>2, <2>3, EnterTypes, SearchStep DEF redisVars
<1> QED
  BY <1>2, <1>3 DEF GoOn

\* A miss goes on.
LEMMA MissInv ==
  ASSUME Inv, NEW s \in Searches, Miss(s)
  PROVE  Inv'
BY GoOnInv DEF Miss, Inv, TypeOK

\* So does a read that fails.
LEMMA GetFailsInv ==
  ASSUME Inv, NEW s \in Searches, GetFails(s)
  PROVE  Inv'
BY GoOnInv, RaiseCounted DEF GetFails, Inv

\* What is found lacks nothing that is visible.
LEMMA QueryInv ==
  ASSUME Inv, NEW s \in Searches, Query(s)
  PROVE  Inv'
<1>1. TypeOK /\ SearchOK(s)
  BY DEF Inv
<1>2. /\ UNCHANGED entryVars /\ UNCHANGED redisVars /\ UNCHANGED workerVars
      /\ UNCHANGED <<key, clients, left>> /\ faults' = faults
      /\ pc[s] = "query" /\ pc' = [pc EXCEPT ![s] = "reply"]
      /\ found' = [found EXCEPT ![s] = Visible]
  BY DEF Query
<1>3. TypeOK'
  BY <1>1, <1>2 DEF TypeOK, Visible, entryVars, redisVars, workerVars
<1>4. pc'[s] = "reply" /\ found'[s] = Visible /\ left'[s] = left[s]
      /\ \A t \in Searches \ {s} : pc'[t] = pc[t] /\ found'[t] = found[t]
  BY <1>1, <1>2 DEF TypeOK
<1>5. Visible' \ Visible = {} /\ Visible \in SUBSET Articles
  BY <1>2 DEF Visible, entryVars
<1>6. SearchOK(s)'
  BY <1>1, <1>2, <1>4, <1>5 DEF SearchOK, Lag
<1> QED
  BY <1>2, <1>3, <1>4, <1>6, SearchStep DEF redisVars

\* The answer has aged by the time the query took.
LEMMA ReplyInv ==
  ASSUME Inv, NEW s \in Searches, Reply(s)
  PROVE  Inv'
<1>1. TypeOK /\ SearchOK(s)
  BY DEF Inv
<1>2. /\ UNCHANGED entryVars /\ UNCHANGED redisVars /\ UNCHANGED workerVars
      /\ faults' = faults /\ pc[s] = "reply"
  BY DEF Reply
<1>3. CASE End(s)
  BY <1>1, <1>2, <1>3, EndInv DEF TypeOK
<1>4. CASE Enter(s, "set", RedisTimeout) /\ UNCHANGED <<key, clients, found>>
  <2>1. RedisTimeout \in 0..Window
    BY Bounds
  <2>2. TypeOK'
    BY <1>1, <1>2, <1>4, <2>1, EnterTypes DEF TypeOK, entryVars, redisVars, workerVars
  <2>3. pc'[s] = "set" /\ left'[s] = RedisTimeout /\ key'[s] \in Keys /\ found'[s] \in SUBSET Articles
    BY <1>1, <1>2, <1>4, <2>1, EnterTypes DEF SearchOK
  <2>4. Lag(found[s], ElasticsearchTimeout + RedisTimeout - RedisTimeout)
    <3>1. left[s] \in Nat
      BY <1>1 DEF TypeOK
    <3>2. Lag(found[s], ElasticsearchTimeout - left[s])
      BY <1>1, <1>2 DEF SearchOK
    <3>3. /\ ElasticsearchTimeout - left[s] \in Int
          /\ ElasticsearchTimeout + RedisTimeout - RedisTimeout \in Int
          /\ ElasticsearchTimeout - left[s] <= ElasticsearchTimeout + RedisTimeout - RedisTimeout
      BY <3>1, Bounds
    <3> QED
      BY <1>1, <3>2, <3>3, LagWeaker
  <2>5. SearchOK(s)'
    BY <1>2, <1>4, <2>3, <2>4, Bounds DEF SearchOK, Lag, Visible, entryVars
  <2> QED
    BY <1>1, <1>2, <1>4, <2>1, <2>2, <2>5, EnterTypes, SearchStep DEF redisVars
<1> QED
  BY <1>3, <1>4 DEF Reply

\* A failed query ends the search.
LEMMA QueryFailsInv ==
  ASSUME Inv, NEW s \in Searches, QueryFails(s)
  PROVE  Inv'
BY EndInv DEF QueryFails, Inv, TypeOK

\* What a search is about to write.
LEMMA ToBeWritten ==
  ASSUME Inv, NEW s \in Searches, pc[s] = "set"
  PROVE  /\ key[s] \in Keys /\ found[s] \in SUBSET Articles
         /\ Lag(found[s], Window - Linger) /\ Lag(found[s], Window)
<1>1. TypeOK /\ SearchOK(s) /\ left[s] \in Nat
  BY DEF Inv, TypeOK
<1>2. Lag(found[s], ElasticsearchTimeout + RedisTimeout - left[s])
  BY <1>1 DEF SearchOK
<1>3. /\ ElasticsearchTimeout + RedisTimeout - left[s] \in Int
      /\ Window - Linger \in Int /\ Window \in Int
      /\ ElasticsearchTimeout + RedisTimeout - left[s] <= Window - Linger
      /\ ElasticsearchTimeout + RedisTimeout - left[s] <= Window
  BY <1>1, Bounds
<1> QED
  BY <1>1, <1>2, <1>3, LagWeaker DEF SearchOK

\* The entry that it writes.
LEMMA WriteEntry ==
  ASSUME Inv, NEW s \in Searches, pc[s] = "set", Write(s)
  PROVE  /\ cache' \in [Keys -> Entries \cup {None}]
         /\ \A k \in Keys : cache'[k] # None =>
              \/ cache'[k] = cache[k]
              \/ cache'[k].ttl = TTL /\ Lag(cache'[k].ids, Window)
<1>1. [ids |-> found[s], ttl |-> TTL] \in Entries
  BY ToBeWritten, Bounds DEF Entries
<1>2. cache' = [cache EXCEPT ![key[s]] = [ids |-> found[s], ttl |-> TTL]]
  BY DEF Write
<1> QED
  BY <1>1, <1>2, ToBeWritten DEF Inv, TypeOK

\* The command that lingers.
LEMMA LingeringWrite ==
  ASSUME Inv, NEW s \in Searches, pc[s] = "set",
         late' = late \cup {[key |-> key[s], ids |-> found[s], left |-> Linger]}
  PROVE  /\ late' \in SUBSET LateWrites
         /\ \A x \in late' : x \in late \/ Lag(x.ids, Window - x.left)
<1>1. [key |-> key[s], ids |-> found[s], left |-> Linger] \in LateWrites
  BY ToBeWritten, Bounds DEF LateWrites
<1> QED
  BY <1>1, ToBeWritten DEF Inv, TypeOK

\* Writing the cache, or failing to.
LEMMA SetInv ==
  ASSUME Inv, NEW s \in Searches, Set(s) \/ SetFails(s)
  PROVE  Inv'
<1>1. TypeOK /\ pc[s] = "set" /\ End(s) /\ UNCHANGED entryVars /\ UNCHANGED workerVars
  BY DEF Inv, Set, SetFails
<1>2. faults' \in 0..MaxFaults
  BY <1>1, RaiseCounted DEF Set, SetFails, TypeOK
<1>3. /\ cache' \in [Keys -> Entries \cup {None}]
      /\ \A k \in Keys : cache'[k] # None =>
           \/ cache'[k] = cache[k]
           \/ cache'[k].ttl = TTL /\ Lag(cache'[k].ids, Window)
  <2>1. CASE cache' = cache
    BY <1>1, <2>1 DEF TypeOK
  <2>2. CASE Write(s)
    BY <1>1, <2>2, WriteEntry
  <2> QED
    BY <2>1, <2>2 DEF Set, SetFails, redisVars
<1>4. /\ late' \in SUBSET LateWrites
      /\ \A x \in late' : x \in late \/ Lag(x.ids, Window - x.left)
  <2>1. CASE late' = late
    BY <1>1, <2>1 DEF TypeOK
  <2>2. CASE late' = late \cup {[key |-> key[s], ids |-> found[s], left |-> Linger]}
    BY <1>1, <2>2, LingeringWrite
  <2> QED
    BY <2>1, <2>2 DEF Set, SetFails, redisVars
<1>5. TypeOK'
  BY <1>1, <1>2, <1>3, <1>4, EndTypes DEF TypeOK, entryVars, workerVars
<1>6. SearchOK(s)'
  BY <1>1, EndTypes DEF SearchOK
<1> QED
  BY <1>1, <1>3, <1>4, <1>5, <1>6, EndTypes, SearchStep

\* A late command writes what it has carried.
LEMMA LateWriteInv ==
  ASSUME Inv, NEW x \in late, LateWrite(x)
  PROVE  Inv'
<1>1. TypeOK /\ EntriesOK
  BY DEF Inv
<1>2. x.key \in Keys /\ x.ids \in SUBSET Articles /\ x.left \in 0..Linger
  BY <1>1 DEF TypeOK, LateWrites
<1>3. Lag(x.ids, Window)
  <2>1. Lag(x.ids, Window - x.left)
    BY <1>1 DEF EntriesOK
  <2>2. Window - x.left \in Int /\ Window \in Int /\ Window - x.left <= Window
    BY <1>2, Bounds
  <2> QED
    BY <1>1, <2>1, <2>2, LagWeaker
<1>4. [ids |-> x.ids, ttl |-> TTL] \in Entries
  BY <1>2, Bounds DEF Entries
<1>5. cache' = [cache EXCEPT ![x.key] = [ids |-> x.ids, ttl |-> TTL]] /\ late' = late \ {x}
      /\ UNCHANGED entryVars /\ UNCHANGED searchVars /\ UNCHANGED workerVars /\ faults' = faults
  BY DEF LateWrite
<1>6. /\ cache' \in [Keys -> Entries \cup {None}]
      /\ \A k \in Keys : cache'[k] # None =>
           \/ cache'[k] = cache[k]
           \/ cache'[k].ttl = TTL /\ Lag(cache'[k].ids, Window)
  BY <1>1, <1>2, <1>3, <1>4, <1>5 DEF TypeOK
<1>7. TypeOK'
  BY <1>1, <1>5, <1>6 DEF TypeOK, entryVars, searchVars, workerVars
<1>8. EntriesOK' /\ ClearOK'
  BY <1>5, <1>6, CacheStep
<1>9. \A s \in Searches : SearchOK(s)'
  BY <1>5 DEF Inv, SearchOK, Lag, Visible, entryVars, searchVars
<1> QED
  BY <1>7, <1>8, <1>9 DEF Inv

-----------------------------------------------------------------------------
(* Steps of the index, of time and of the workers                          *)

\* Searches and entries stay as they are, or are deleted, while articles
\* become visible or vanish.
LEMMA AgeStep ==
  ASSUME Inv, UNCHANGED searchVars, late' = late,
         \A a \in Articles : age'[a] \in {age[a], 0, None},
         \A k \in Keys : cache'[k] \in {cache[k], None}
  PROVE  (\A s \in Searches : SearchOK(s)') /\ EntriesOK'
<1>1. TypeOK /\ EntriesOK /\ \A s \in Searches : SearchOK(s)
  BY DEF Inv
<1>2. \A S, d : d \in Nat /\ Lag(S, d) => \A a \in Visible' \ S : age'[a] <= d
  BY <1>1, LagStays
<1>3. ASSUME NEW s \in Searches PROVE SearchOK(s)'
  <2>1. UNCHANGED <<pc[s], key[s], left[s], found[s]>>
    BY DEF searchVars
  <2>2. left[s] \in Nat
    BY <1>1 DEF TypeOK
  <2>3. CASE pc[s] = "reply"
    <3>1. left[s] <= ElasticsearchTimeout /\ Lag(found[s], ElasticsearchTimeout - left[s])
      BY <1>1, <2>3 DEF SearchOK
    <3>2. ElasticsearchTimeout - left[s] \in Nat
      BY <2>2, <3>1, Bounds
    <3> QED
      BY <1>1, <1>2, <2>1, <2>3, <3>1, <3>2 DEF SearchOK, Lag
  <2>4. CASE pc[s] = "set"
    <3>1. left[s] <= RedisTimeout /\ Lag(found[s], ElasticsearchTimeout + RedisTimeout - left[s])
      BY <1>1, <2>4 DEF SearchOK
    <3>2. ElasticsearchTimeout + RedisTimeout - left[s] \in Nat
      BY <2>2, <3>1, Bounds
    <3> QED
      BY <1>1, <1>2, <2>1, <2>4, <3>1, <3>2 DEF SearchOK, Lag
  <2>5. CASE pc[s] \notin {"reply", "set"}
    BY <1>1, <2>1, <2>5 DEF SearchOK
  <2> QED
    BY <2>3, <2>4, <2>5
<1>4. ASSUME NEW x \in late PROVE \A a \in Visible' \ x.ids : age'[a] <= Window - x.left
  <2>1. x.left \in 0..Linger /\ Lag(x.ids, Window - x.left)
    BY <1>1 DEF TypeOK, LateWrites, EntriesOK
  <2>2. Window - x.left \in Nat
    BY <2>1, Bounds
  <2> QED
    BY <1>2, <2>1, <2>2
<1>5. ASSUME NEW k \in Keys, cache'[k] # None
      PROVE  \A a \in Visible' \ cache'[k].ids : age'[a] <= Window + TTL - cache'[k].ttl
  <2>1. cache'[k] = cache[k] /\ k \in Cached
    BY <1>5 DEF Cached
  <2>2. cache[k].ttl \in 1..TTL /\ Lag(cache[k].ids, Window + TTL - cache[k].ttl)
    BY <1>1, <2>1 DEF TypeOK, Entries, EntriesOK, Cached
  <2>3. Window + TTL - cache[k].ttl \in Nat
    BY <2>2, Bounds
  <2> QED
    BY <1>2, <2>1, <2>2, <2>3
<1>6. EntriesOK'
  BY <1>4, <1>5 DEF EntriesOK, Lag, Cached, Window
<1> QED
  BY <1>3, <1>6

\* A refresh makes articles visible with age zero.
LEMMA RefreshInv ==
  ASSUME Inv, Refresh
  PROVE  Inv'
<1>1. TypeOK /\ ClearOK
  BY DEF Inv
<1>2. /\ indexed' = indexed /\ UNCHANGED redisVars /\ UNCHANGED searchVars
      /\ UNCHANGED workerVars /\ faults' = faults
      /\ age' = [a \in Articles |-> IF a \in indexed \ Visible THEN 0 ELSE age[a]]
  BY DEF Refresh
<1>3. (\A s \in Searches : SearchOK(s)') /\ EntriesOK'
  BY <1>2, AgeStep DEF redisVars
<1>4. TypeOK'
  BY <1>1, <1>2, Bounds DEF TypeOK, redisVars, searchVars, workerVars
<1>5. \A a \in Visible : a \in Visible' /\ age'[a] = age[a]
  BY <1>1, <1>2 DEF Visible
<1>6. ClearOK'
  BY <1>1, <1>2, <1>5 DEF ClearOK, Cached, redisVars, workerVars, Window
<1> QED
  BY <1>3, <1>4, <1>6 DEF Inv

\* Indexing without invalidation shows nothing yet.
LEMMA IndexOnlyInv ==
  ASSUME Inv, NEW a \in Articles, IndexOnly(a)
  PROVE  Inv'
<1>1. TypeOK /\ ClearOK
  BY DEF Inv
<1>2. (\A s \in Searches : SearchOK(s)') /\ EntriesOK'
  BY AgeStep DEF IndexOnly, redisVars
<1>3. TypeOK'
  BY <1>1 DEF TypeOK, IndexOnly, redisVars, searchVars, workerVars
<1>4. ClearOK'
  BY <1>1 DEF ClearOK, IndexOnly, Cached, Visible, redisVars, workerVars, Window
<1> QED
  BY <1>2, <1>3, <1>4 DEF Inv

\* Without an index nothing is visible, and nothing is settled.
LEMMA DropIndexInv ==
  ASSUME Inv, DropIndex
  PROVE  Inv'
<1>1. TypeOK /\ ClearOK
  BY DEF Inv
<1>2. (\A s \in Searches : SearchOK(s)') /\ EntriesOK'
  BY AgeStep DEF DropIndex, redisVars
<1>3. TypeOK'
  BY <1>1 DEF TypeOK, DropIndex, redisVars, searchVars
<1>4. ClearOK'
  BY <1>1 DEF ClearOK, DropIndex
<1> QED
  BY <1>2, <1>3, <1>4 DEF Inv

\* Indexing, for a worker that invalidates the cache afterwards.
LEMMA IndexInv ==
  ASSUME Inv, NEW w \in Workers, NEW a \in Articles, Index(w, a)
  PROVE  Inv'
<1>1. TypeOK /\ ClearOK
  BY DEF Inv
<1>2. /\ age' = age /\ UNCHANGED redisVars /\ UNCHANGED searchVars /\ batch' = batch
      /\ faults' = faults /\ indexed' = indexed \cup {a}
      /\ wpc[w] \in {"idle", "cleared"}
      /\ wpc' = [wpc EXCEPT ![w] = "scan"] /\ scan' = [scan EXCEPT ![w] = Keys]
      /\ settled' = [settled EXCEPT ![w] = {b \in Visible : age[b] > Window}]
  BY DEF Index
<1>3. (\A s \in Searches : SearchOK(s)') /\ EntriesOK'
  BY <1>2, AgeStep DEF redisVars
<1>4. {b \in Visible : age[b] > Window} \in SUBSET Articles
  BY DEF Visible
<1>5. TypeOK'
  BY <1>1, <1>2, <1>4 DEF TypeOK, redisVars, searchVars
<1>6. Visible' = Visible /\ Cached' = Cached /\ cache' = cache /\ Cached \in SUBSET Keys
  BY <1>2 DEF Visible, Cached, redisVars
<1>7. ClearOK'
  BY <1>1, <1>2, <1>6 DEF ClearOK, Window, TypeOK
<1> QED
  BY <1>3, <1>5, <1>7 DEF Inv

\* SCAN passes on what it has come to, if it exists.
LEMMA ScanInv ==
  ASSUME Inv, NEW w \in Workers, Scan(w)
  PROVE  Inv'
<1>1. TypeOK /\ ClearOK
  BY DEF Inv
<1>2. /\ UNCHANGED entryVars /\ UNCHANGED redisVars /\ UNCHANGED searchVars
      /\ settled' = settled /\ faults' = faults /\ wpc[w] = "scan"
  BY DEF Scan
<1>3. PICK B \in SUBSET scan[w] :
        /\ scan' = [scan EXCEPT ![w] = @ \ B]
        /\ batch' = [batch EXCEPT ![w] = B \cap Cached]
        /\ wpc' = [wpc EXCEPT ![w] = IF B \cap Cached # {} THEN "delete"
                                     ELSE IF B = scan[w] THEN "cleared" ELSE "scan"]
  BY DEF Scan
<1>4. (\A s \in Searches : SearchOK(s)') /\ EntriesOK'
  BY <1>2, AgeStep DEF redisVars, entryVars
<1>5. TypeOK'
  <2>1. scan[w] \in SUBSET Keys
    BY <1>1 DEF TypeOK
  <2>2. scan' \in [Workers -> SUBSET Keys]
    BY <1>1, <1>3, <2>1 DEF TypeOK
  <2>3. batch' \in [Workers -> SUBSET Keys]
    BY <1>1, <1>3, <2>1 DEF TypeOK
  <2>4. wpc' \in [Workers -> {"idle", "scan", "delete", "cleared"}]
    BY <1>1, <1>3 DEF TypeOK
  <2> QED
    BY <1>1, <1>2, <2>2, <2>3, <2>4 DEF TypeOK, entryVars, redisVars, searchVars
<1>6. Visible' = Visible /\ Cached' = Cached /\ cache' = cache /\ age' = age
  BY <1>2 DEF Visible, Cached, redisVars, entryVars
<1>7. ASSUME NEW v \in Workers
      PROVE  /\ wpc'[v] # "delete" => batch'[v] = {}
             /\ wpc'[v] \in {"idle", "cleared"} => scan'[v] = {}
             /\ wpc'[v] # "idle" => \A k \in Cached :
                  settled[v] \subseteq cache[k].ids \/ k \in scan'[v] \cup batch'[v]
  <2>1. CASE v = w
    <3>1. batch[w] = {} /\ \A k \in Cached : settled[w] \subseteq cache[k].ids \/ k \in scan[w]
      BY <1>1, <1>2 DEF ClearOK
    <3>2. scan'[w] = scan[w] \ B /\ batch'[w] = B \cap Cached
          /\ wpc'[w] = IF B \cap Cached # {} THEN "delete"
                       ELSE IF B = scan[w] THEN "cleared" ELSE "scan"
      BY <1>1, <1>3 DEF TypeOK
    <3> QED
      BY <2>1, <3>1, <3>2
  <2>2. CASE v # w
    BY <1>1, <1>3, <2>2 DEF ClearOK, TypeOK
  <2> QED
    BY <2>1, <2>2
<1>8. ClearOK'
  BY <1>1, <1>2, <1>6, <1>7 DEF ClearOK, Window
<1> QED
  BY <1>4, <1>5, <1>8 DEF Inv

\* What a DEL deletes.
LEMMA Deleted ==
  ASSUME TypeOK, NEW w \in Workers,
         cache' = [k \in Keys |-> IF k \in batch[w] THEN None ELSE cache[k]]
  PROVE  /\ cache' \in [Keys -> Entries \cup {None}]
         /\ \A k \in Keys : cache'[k] \in {cache[k], None}
         /\ \A k \in Cached' : k \in Cached /\ k \notin batch[w] /\ cache'[k] = cache[k]
BY DEF TypeOK, Cached

\* DEL deletes what is in the batch.
LEMMA DeleteInv ==
  ASSUME Inv, NEW w \in Workers, Delete(w)
  PROVE  Inv'
<1>1. TypeOK /\ ClearOK
  BY DEF Inv
<1>2. /\ late' = late /\ UNCHANGED entryVars /\ UNCHANGED searchVars /\ scan' = scan
      /\ settled' = settled /\ faults' = faults /\ wpc[w] = "delete"
      /\ cache' = [k \in Keys |-> IF k \in batch[w] THEN None ELSE cache[k]]
      /\ batch' = [batch EXCEPT ![w] = {}]
      /\ wpc' = [wpc EXCEPT ![w] = IF scan[w] = {} THEN "cleared" ELSE "scan"]
  BY DEF Delete
<1>3. (\A s \in Searches : SearchOK(s)') /\ EntriesOK'
  BY <1>1, <1>2, Deleted, AgeStep DEF entryVars
<1>4. TypeOK'
  BY <1>1, <1>2, Deleted DEF TypeOK, entryVars, searchVars
<1>5. Visible' = Visible /\ age' = age
  BY <1>2 DEF Visible, entryVars
<1>6. ASSUME NEW v \in Workers
      PROVE  /\ wpc'[v] # "delete" => batch'[v] = {}
             /\ wpc'[v] \in {"idle", "cleared"} => scan[v] = {}
             /\ wpc'[v] # "idle" => \A k \in Cached' :
                  settled[v] \subseteq cache'[k].ids \/ k \in scan[v] \cup batch'[v]
  <2>1. CASE v = w
    BY <1>1, <1>2, <2>1, Deleted DEF ClearOK, TypeOK
  <2>2. CASE v # w
    BY <1>1, <1>2, <2>2, Deleted DEF ClearOK, TypeOK
  <2> QED
    BY <2>1, <2>2
<1>7. ClearOK'
  BY <1>1, <1>2, <1>5, <1>6 DEF ClearOK, Window
<1> QED
  BY <1>3, <1>4, <1>7 DEF Inv

\* An invalidation given up promises nothing.
LEMMA ClearFailsInv ==
  ASSUME Inv, NEW w \in Workers, ClearFails(w)
  PROVE  Inv'
<1>1. TypeOK /\ ClearOK
  BY DEF Inv
<1>2. /\ late' = late /\ UNCHANGED entryVars /\ UNCHANGED searchVars
      /\ faults' \in 0..MaxFaults
      /\ wpc' = [wpc EXCEPT ![w] = "idle"] /\ scan' = [scan EXCEPT ![w] = {}]
      /\ batch' = [batch EXCEPT ![w] = {}] /\ settled' = [settled EXCEPT ![w] = {}]
  BY <1>1, FaultCounted DEF ClearFails
<1>3. /\ cache' \in [Keys -> Entries \cup {None}]
      /\ \A k \in Keys : cache'[k] \in {cache[k], None}
      /\ \A k \in Cached' : k \in Cached /\ cache'[k] = cache[k]
  <2>1. CASE cache' = cache
    BY <1>1, <2>1 DEF TypeOK, Cached
  <2>2. CASE cache' = [k \in Keys |-> IF k \in batch[w] THEN None ELSE cache[k]]
    BY <1>1, <2>2, Deleted
  <2> QED
    BY <2>1, <2>2 DEF ClearFails
<1>4. (\A s \in Searches : SearchOK(s)') /\ EntriesOK'
  BY <1>1, <1>2, <1>3, AgeStep DEF entryVars
<1>5. TypeOK'
  BY <1>1, <1>2, <1>3 DEF TypeOK, entryVars, searchVars
<1>6. Visible' = Visible /\ age' = age
  BY <1>2 DEF Visible, entryVars
<1>7. ASSUME NEW v \in Workers
      PROVE  /\ \A b \in settled'[v] : b \in Visible /\ age[b] > Window
             /\ wpc'[v] # "delete" => batch'[v] = {}
             /\ wpc'[v] \in {"idle", "cleared"} => scan'[v] = {}
             /\ wpc'[v] # "idle" => \A k \in Cached' :
                  settled'[v] \subseteq cache'[k].ids \/ k \in scan'[v] \cup batch'[v]
  <2>1. CASE v = w
    BY <1>1, <1>2, <2>1 DEF TypeOK
  <2>2. CASE v # w
    BY <1>1, <1>2, <1>3, <2>2 DEF ClearOK, TypeOK
  <2> QED
    BY <2>1, <2>2
<1>8. ClearOK'
  BY <1>6, <1>7 DEF ClearOK, Window
<1> QED
  BY <1>4, <1>5, <1>8 DEF Inv

\* A tick, for a search.
LEMMA TickSearch ==
  ASSUME Inv, Tick, NEW s \in Searches
  PROVE  left'[s] \in 0..Window /\ SearchOK(s)'
<1>1. TypeOK /\ SearchOK(s)
  BY DEF Inv
<1>2. /\ pc' = pc /\ key' = key /\ found' = found
      /\ pc[s] # "idle" => left[s] > 0
      /\ left'[s] = IF pc[s] = "idle" THEN 0 ELSE left[s] - 1
  BY DEF Tick
<1>3. left[s] \in 0..Window
  BY <1>1 DEF TypeOK
<1>4. left'[s] \in 0..Window /\ (pc[s] # "idle" => left'[s] = left[s] - 1)
  BY <1>2, <1>3, Bounds
<1>5. CASE pc[s] = "reply"
  <2> DEFINE d == ElasticsearchTimeout - left[s]
  <2>1. Lag(found[s], d) /\ left[s] <= ElasticsearchTimeout
    BY <1>1, <1>5 DEF SearchOK
  <2>2. d \in Int /\ d + 1 = ElasticsearchTimeout - left'[s]
    BY <1>3, <1>4, <1>5, Bounds
  <2>3. \A a \in Visible' \ found[s] : age'[a] <= d + 1
    BY <1>1, <2>1, <2>2, LagTick
  <2>4. \A a \in Visible' \ found[s] : age'[a] <= ElasticsearchTimeout - left'[s]
    BY <2>2, <2>3
  <2>5. left'[s] <= ElasticsearchTimeout
    BY <1>3, <1>4, <1>5, <2>1, Bounds
  <2> QED
    BY <1>1, <1>2, <1>4, <1>5, <2>4, <2>5 DEF SearchOK, Lag
<1>6. CASE pc[s] = "set"
  <2> DEFINE d == ElasticsearchTimeout + RedisTimeout - left[s]
  <2>1. Lag(found[s], d) /\ left[s] <= RedisTimeout
    BY <1>1, <1>6 DEF SearchOK
  <2>2. d \in Int /\ d + 1 = ElasticsearchTimeout + RedisTimeout - left'[s]
    BY <1>3, <1>4, <1>6, Bounds
  <2>3. \A a \in Visible' \ found[s] : age'[a] <= d + 1
    BY <1>1, <2>1, <2>2, LagTick
  <2>4. \A a \in Visible' \ found[s] : age'[a] <= ElasticsearchTimeout + RedisTimeout - left'[s]
    BY <2>2, <2>3
  <2>5. left'[s] <= RedisTimeout
    BY <1>3, <1>4, <1>6, <2>1, Bounds
  <2> QED
    BY <1>1, <1>2, <1>4, <1>6, <2>4, <2>5 DEF SearchOK, Lag
<1>7. CASE pc[s] \notin {"reply", "set"}
  BY <1>1, <1>2, <1>3, <1>4, <1>7, Bounds DEF SearchOK
<1> QED
  BY <1>4, <1>5, <1>6, <1>7

\* A tick, for a command that lingers.
LEMMA TickLate ==
  ASSUME Inv, Tick, NEW x \in late'
  PROVE  x \in LateWrites /\ \A a \in Visible' \ x.ids : age'[a] <= Window - x.left
<1>1. TypeOK /\ EntriesOK
  BY DEF Inv
<1>2. PICK y \in late : y.left > 0 /\ x = [y EXCEPT !.left = @ - 1]
  BY DEF Tick
<1>3. y \in LateWrites /\ y.left \in 0..Linger /\ Lag(y.ids, Window - y.left)
  BY <1>1 DEF TypeOK, EntriesOK, LateWrites
<1>4. x.key = y.key /\ x.ids = y.ids /\ x.left = y.left - 1 /\ x \in LateWrites
  BY <1>2, <1>3, Bounds DEF LateWrites
<1> DEFINE d == Window - y.left
<1>5. d \in Int /\ d + 1 = Window - x.left
  BY <1>3, <1>4, Bounds
<1>6. \A a \in Visible' \ y.ids : age'[a] <= d + 1
  BY <1>1, <1>3, <1>5, LagTick
<1> QED
  BY <1>4, <1>5, <1>6

\* A tick, for an entry.
LEMMA TickEntry ==
  ASSUME Inv, Tick, NEW k \in Keys, cache'[k] # None
  PROVE  /\ k \in Cached /\ cache'[k].ids = cache[k].ids /\ cache'[k] \in Entries
         /\ \A a \in Visible' \ cache'[k].ids : age'[a] <= Window + TTL - cache'[k].ttl
<1>1. TypeOK /\ EntriesOK
  BY DEF Inv
<1>2. k \in Cached /\ cache[k].ttl > 1 /\ cache'[k] = [cache[k] EXCEPT !.ttl = @ - 1]
  BY DEF Tick
<1>3. cache[k] \in Entries /\ cache[k].ttl \in 1..TTL
      /\ Lag(cache[k].ids, Window + TTL - cache[k].ttl)
  BY <1>1, <1>2 DEF TypeOK, EntriesOK, Cached, Entries
<1>4. cache'[k].ids = cache[k].ids /\ cache'[k].ttl = cache[k].ttl - 1 /\ cache'[k] \in Entries
  BY <1>2, <1>3, Bounds DEF Entries
<1> DEFINE d == Window + TTL - cache[k].ttl
<1>5. d \in Int /\ d + 1 = Window + TTL - cache'[k].ttl
  BY <1>3, <1>4, Bounds
<1>6. \A a \in Visible' \ cache[k].ids : age'[a] <= d + 1
  BY <1>1, <1>3, <1>5, LagTick
<1> QED
  BY <1>2, <1>4, <1>5, <1>6

\* Time passes for all of them alike.
LEMMA TickInv ==
  ASSUME Inv, Tick
  PROVE  Inv'
<1>1. TypeOK /\ ClearOK
  BY DEF Inv
<1>2. /\ indexed' = indexed /\ UNCHANGED <<pc, key, clients, found>> /\ UNCHANGED workerVars
      /\ faults' = faults
      /\ age' = [a \in Articles |-> IF a \notin Visible THEN None
                                    ELSE IF age[a] < AgeCap THEN age[a] + 1 ELSE AgeCap]
  BY DEF Tick
<1>3. left' \in [Searches -> 0..Window]
  <2>1. left' = [s \in Searches |-> IF pc[s] = "idle" THEN 0 ELSE left[s] - 1]
    BY DEF Tick
  <2>2. \A s \in Searches : left'[s] \in 0..Window
    BY TickSearch
  <2> QED
    BY <2>1, <2>2
<1>4. late' \in SUBSET LateWrites
  BY TickLate
<1>5. cache' \in [Keys -> Entries \cup {None}]
  <2>1. cache' = [k \in Keys |-> IF k \in Cached /\ cache[k].ttl > 1
                                 THEN [cache[k] EXCEPT !.ttl = @ - 1] ELSE None]
    BY DEF Tick
  <2>2. \A k \in Keys : cache'[k] \in Entries \cup {None}
    BY TickEntry
  <2> QED
    BY <2>1, <2>2
<1>6. ASSUME NEW a \in Visible
      PROVE  age'[a] \in 0..AgeCap /\ (age[a] > Window => a \in Visible' /\ age'[a] > Window)
  <2>1. a \in Articles /\ age[a] \in Nat /\ age[a] <= AgeCap
    BY <1>1, AgeIsNat
  <2>2. age'[a] = IF age[a] < AgeCap THEN age[a] + 1 ELSE AgeCap
    BY <1>2, <2>1
  <2>3. age'[a] \in 0..AgeCap /\ (age[a] > Window => age'[a] > Window)
    BY <2>1, <2>2, Bounds
  <2> QED
    BY <2>1, <2>3, NoneAssumption DEF Visible
<1>7. age' \in [Articles -> 0..AgeCap \cup {None}]
  <2>1. \A a \in Articles : age'[a] \in 0..AgeCap \cup {None}
    BY <1>2, <1>6
  <2> QED
    BY <1>2, <2>1
<1>8. TypeOK'
  BY <1>1, <1>2, <1>3, <1>4, <1>5, <1>7 DEF TypeOK, workerVars
<1>9. EntriesOK'
  BY TickLate, TickEntry DEF EntriesOK, Cached, Lag, Window
<1>10. ClearOK'
  <2>1. \A k \in Cached' : k \in Cached /\ cache'[k].ids = cache[k].ids
    BY TickEntry DEF Cached
  <2> QED
    BY <1>1, <1>2, <1>6, <2>1 DEF ClearOK, workerVars, Window
<1> QED
  BY <1>8, <1>9, <1>10, TickSearch DEF Inv

-----------------------------------------------------------------------------
(* Theorems                                                                *)

\* A step that changes nothing keeps the invariant.
LEMMA StutterInv ==
  ASSUME Inv, UNCHANGED vars
  PROVE  Inv'
BY DEF Inv, TypeOK, SearchOK, EntriesOK, ClearOK, Lag, Visible, Cached, AgeCap, Window,
       Entries, LateWrites, Clients, vars

\* Every step keeps it.
LEMMA NextInv ==
  ASSUME Inv, Next
  PROVE  Inv'
<1>1. CASE \E s \in Searches : Answer(s)
  BY <1>1, HitInv, MissInv, GetFailsInv, QueryInv, ReplyInv, QueryFailsInv, SetInv DEF Answer
<1>2. CASE \E s \in Searches, k \in Keys, C \in SUBSET Clients \ {{}} : Begin(s, k, C)
  BY <1>2, BeginInv
<1>3. CASE \E w \in Workers : \/ Scan(w) \/ Delete(w) \/ ClearFails(w)
                              \/ \E a \in Articles : Index(w, a)
  BY <1>3, ScanInv, DeleteInv, ClearFailsInv, IndexInv
<1>4. CASE Refresh \/ Tick \/ DropIndex
  BY <1>4, RefreshInv, TickInv, DropIndexInv
<1>5. CASE \E a \in Articles : IndexOnly(a)
  BY <1>5, IndexOnlyInv
<1>6. CASE \E x \in late : LateWrite(x)
  BY <1>6, LateWriteInv
<1> QED
  BY <1>1, <1>2, <1>3, <1>4, <1>5, <1>6 DEF Next

\* The invariant of searches, entries and invalidations.
THEOREM Invariance == Spec => []Inv
<1>1. Init => Inv
  BY InitInv
<1>2. Inv /\ [Next]_vars => Inv'
  BY NextInv, StutterInv
<1> QED
  BY <1>1, <1>2, PTL DEF Spec

\* All variables keep their types: no search stays longer than its timeouts,
\* no entry lives longer than the TTL.
THEOREM TypeCorrect == Spec => []TypeOK
<1>1. Inv => TypeOK
  BY DEF Inv
<1> QED
  BY <1>1, Invariance, PTL

\* The results in the cache lag behind the index by less than the TTL, the
\* timeouts of a search and the delay of a late write.
THEOREM StalenessIsBounded == Spec => []BoundedStaleness
<1>1. ASSUME Inv PROVE BoundedStaleness
  <2>1. SUFFICES ASSUME NEW k \in Cached, NEW a \in Visible, age[a] >= TTL + Window,
                        a \notin cache[k].ids
                 PROVE  FALSE
    BY DEF BoundedStaleness
  <2>2. age[a] \in Nat
    BY <1>1, AgeIsNat DEF Inv
  <2>3. cache[k].ttl \in 1..TTL
    BY <1>1 DEF Inv, TypeOK, Cached, Entries
  <2>4. age[a] <= Window + TTL - cache[k].ttl
    BY <1>1, <2>1 DEF Inv, EntriesOK, Lag
  <2> QED
    BY <2>1, <2>2, <2>3, <2>4, Bounds
<1> QED
  BY <1>1, Invariance, PTL

\* No entry, old or new, lacks an article that was settled when a completed
\* invalidation began.
THEOREM ClearIsFresh == Spec => []FreshAfterClear
<1>1. ASSUME Inv PROVE FreshAfterClear
  BY <1>1 DEF Inv, ClearOK, FreshAfterClear
<1> QED
  BY <1>1, Invariance, PTL

-----------------------------------------------------------------------------
(* The promise of the cache                                                *)

\* Visible articles, their ages and the worst delay are the same in both.
LEMMA SameView ==
  /\ Promise!Visible = Visible
  /\ Promise!AgeCap = AgeCap
BY DEF Promise!Visible, Visible, Promise!AgeCap, AgeCap

\* Steps that the promise does not see.
LEMMA Unseen ==
  ASSUME age' = age, cache' = cache, wpc' = wpc, settled' = settled
  PROVE  UNCHANGED Promise!vars
BY DEF Promise!vars, clearing

\* A search writes a result that lags by no more than its timeouts and the
\* delay of its command, now or later.
LEMMA WriteRefines ==
  ASSUME Inv, NEW k \in Keys, NEW S \in SUBSET Articles, Lag(S, Window),
         cache' = [cache EXCEPT ![k] = [ids |-> S, ttl |-> TTL]],
         UNCHANGED entryVars, UNCHANGED workerVars
  PROVE  Promise!Next
<1>1. age' = age /\ settled' = settled /\ clearing' = clearing
  BY DEF entryVars, workerVars, clearing
<1>2. \A a \in Promise!Visible \ S : age[a] <= Window
  BY SameView DEF Lag
<1>3. Promise!Fill(k, S)
  BY <1>1, <1>2 DEF Promise!Fill
<1> QED
  BY <1>3 DEF Promise!Next

\* Of a search, the promise sees what it writes.
LEMMA AnswerRefines ==
  ASSUME Inv, NEW s \in Searches, Answer(s)
  PROVE  [Promise!Next]_(Promise!vars)
<1>1. UNCHANGED entryVars /\ UNCHANGED workerVars
  BY DEF Answer, Hit, Miss, GetFails, Query, Reply, QueryFails, Set, SetFails
<1>2. cache' = cache \/ (pc[s] = "set" /\ Write(s))
  BY DEF Answer, Hit, Miss, GetFails, Query, Reply, QueryFails, Set, SetFails, redisVars
<1>3. CASE cache' = cache
  BY <1>1, <1>3, Unseen DEF entryVars, workerVars
<1>4. CASE pc[s] = "set" /\ Write(s)
  <2>1. key[s] \in Keys /\ found[s] \in SUBSET Articles /\ Lag(found[s], Window)
    BY <1>4, ToBeWritten
  <2>2. cache' = [cache EXCEPT ![key[s]] = [ids |-> found[s], ttl |-> TTL]]
    BY <1>4 DEF Write
  <2> QED
    BY <1>1, <2>1, <2>2, WriteRefines
<1> QED
  BY <1>2, <1>3, <1>4

\* A late command is a write like others.
LEMMA LateWriteRefines ==
  ASSUME Inv, NEW x \in late, LateWrite(x)
  PROVE  Promise!Next
<1>1. TypeOK /\ EntriesOK
  BY DEF Inv
<1>2. x.key \in Keys /\ x.ids \in SUBSET Articles /\ x.left \in 0..Linger
  BY <1>1 DEF TypeOK, LateWrites
<1>3. Lag(x.ids, Window)
  <2>1. Lag(x.ids, Window - x.left)
    BY <1>1 DEF EntriesOK
  <2>2. Window - x.left \in Int /\ Window \in Int /\ Window - x.left <= Window
    BY <1>2, Bounds
  <2> QED
    BY <1>1, <2>1, <2>2, LagWeaker
<1>4. /\ cache' = [cache EXCEPT ![x.key] = [ids |-> x.ids, ttl |-> TTL]]
      /\ UNCHANGED entryVars /\ UNCHANGED workerVars
  BY DEF LateWrite
<1> QED
  BY <1>2, <1>3, <1>4, WriteRefines

\* The index and time change nothing but what they are said to.
LEMMA TimeRefines ==
  ASSUME TypeOK, Refresh \/ Tick \/ DropIndex
  PROVE  Promise!Next
<1>1. CASE Refresh
  <2>1. /\ indexed \ Visible # {} /\ cache' = cache /\ settled' = settled /\ clearing' = clearing
        /\ age' = [a \in Articles |-> IF a \in indexed \ Visible THEN 0 ELSE age[a]]
    BY <1>1 DEF Refresh, redisVars, workerVars, clearing
  <2>2. Promise!Appear(indexed \ Visible)
    BY <2>1, SameView DEF Promise!Appear
  <2>3. indexed \ Visible \in SUBSET Articles
    BY DEF TypeOK
  <2> QED
    BY <2>2, <2>3 DEF Promise!Next
<1>2. CASE Tick
  <2>1. settled' = settled /\ clearing' = clearing
    BY <1>2 DEF Tick, workerVars, clearing
  <2>2. Promise!Tick
    BY <1>2, <2>1, SameView DEF Tick, Promise!Tick, Cached
  <2> QED
    BY <2>2 DEF Promise!Next
<1>3. CASE DropIndex
  BY <1>3 DEF DropIndex, redisVars, clearing, Promise!Vanish, Promise!Next
<1> QED
  BY <1>1, <1>2, <1>3

\* What a step of a worker is for the phases of all of them.
LEMMA PhaseStep ==
  ASSUME TypeOK, NEW w \in Workers, NEW where, wpc' = [wpc EXCEPT ![w] = where]
  PROVE  /\ where = "idle" => clearing' = [clearing EXCEPT ![w] = "idle"]
         /\ where = "cleared" => clearing' = [clearing EXCEPT ![w] = "done"]
         /\ where \in {"scan", "delete"} => clearing' = [clearing EXCEPT ![w] = "begun"]
         /\ wpc[w] \in {"scan", "delete"} => clearing[w] = "begun"
         /\ wpc[w] \in {"idle", "cleared"} => clearing[w] # "begun"
BY DEF TypeOK, clearing

\* Steps of clear_all: one that ends it is allowed to.
LEMMA ClearRefines ==
  ASSUME Inv, Inv', NEW w \in Workers, wpc[w] \in {"scan", "delete"},
         NEW K \in SUBSET Keys, cache' = [k \in Keys |-> IF k \in K THEN None ELSE cache[k]],
         NEW where \in {"scan", "delete", "cleared"}, wpc' = [wpc EXCEPT ![w] = where],
         age' = age, settled' = settled
  PROVE  Promise!Next
<1>1. TypeOK /\ ClearOK'
  BY DEF Inv
<1>2. clearing[w] = "begun" /\ Promise!Remove(K)
  BY <1>1, PhaseStep DEF Promise!Remove
<1>3. CASE where = "cleared"
  <2>1. clearing' = [clearing EXCEPT ![w] = "done"]
    BY <1>1, <1>3, PhaseStep
  <2>2. wpc'[w] = "cleared"
    BY <1>1, <1>3 DEF TypeOK
  <2>3. \A k \in Keys : cache'[k] # None => settled[w] \subseteq cache'[k].ids
    BY <1>1, <2>2 DEF ClearOK, Cached
  <2>4. \A k \in Keys \ K : cache'[k] = cache[k]
    OBVIOUS
  <2>5. Promise!EndClear(w, K)
    BY <1>2, <2>1, <2>3, <2>4 DEF Promise!EndClear
  <2> QED
    BY <2>5 DEF Promise!Next
<1>4. CASE where \in {"scan", "delete"}
  <2>1. clearing' = [clearing EXCEPT ![w] = "begun"]
    BY <1>1, <1>4, PhaseStep
  <2>2. clearing' = clearing
    BY <1>2, <2>1 DEF clearing
  <2>3. Promise!Clear(w, K)
    BY <1>2, <2>2 DEF Promise!Clear
  <2> QED
    BY <2>3 DEF Promise!Next
<1> QED
  BY <1>3, <1>4

\* A worker begins an invalidation, carries it on, ends it or gives it up.
LEMMA WorkerRefines ==
  ASSUME Inv, Inv', NEW w \in Workers,
         Scan(w) \/ Delete(w) \/ ClearFails(w) \/ \E a \in Articles : Index(w, a)
  PROVE  Promise!Next
<1>1. TypeOK /\ batch[w] \in SUBSET Keys
  BY DEF Inv, TypeOK
<1>2. [k \in Keys |-> IF k \in {} THEN None ELSE cache[k]] = cache
  BY <1>1 DEF TypeOK
<1>3. CASE Scan(w)
  <2>1. PICK where \in {"scan", "delete", "cleared"} : wpc' = [wpc EXCEPT ![w] = where]
    BY <1>3 DEF Scan
  <2>2. wpc[w] = "scan" /\ cache' = cache /\ age' = age /\ settled' = settled
    BY <1>3 DEF Scan, entryVars, redisVars
  <2>3. PICK K \in SUBSET Keys : K = {}
    OBVIOUS
  <2>4. cache' = [k \in Keys |-> IF k \in K THEN None ELSE cache[k]]
    BY <1>2, <2>2, <2>3
  <2> QED
    BY <2>1, <2>2, <2>4, ClearRefines
<1>4. CASE Delete(w)
  <2>1. PICK where \in {"scan", "delete", "cleared"} : wpc' = [wpc EXCEPT ![w] = where]
    BY <1>4 DEF Delete
  <2>2. /\ wpc[w] = "delete" /\ age' = age /\ settled' = settled
        /\ cache' = [k \in Keys |-> IF k \in batch[w] THEN None ELSE cache[k]]
    BY <1>4 DEF Delete, entryVars
  <2> QED
    BY <1>1, <2>1, <2>2, ClearRefines
<1>5. CASE ClearFails(w)
  <2>1. /\ wpc[w] \in {"scan", "delete"} /\ wpc' = [wpc EXCEPT ![w] = "idle"]
        /\ age' = age /\ settled' = [settled EXCEPT ![w] = {}]
        /\ \/ cache' = cache
           \/ cache' = [k \in Keys |-> IF k \in batch[w] THEN None ELSE cache[k]]
    BY <1>5 DEF ClearFails, entryVars
  <2>2. clearing[w] = "begun" /\ clearing' = [clearing EXCEPT ![w] = "idle"]
    BY <1>1, <2>1, PhaseStep
  <2>3. \E K \in SUBSET Keys : Promise!AbandonClear(w, K)
    <3>1. Promise!Remove({}) \/ Promise!Remove(batch[w])
      BY <1>2, <2>1 DEF Promise!Remove
    <3> QED
      BY <1>1, <2>1, <2>2, <3>1 DEF Promise!AbandonClear
  <2> QED
    BY <2>3 DEF Promise!Next
<1>6. ASSUME NEW a \in Articles, Index(w, a)
      PROVE  Promise!Next
  <2>1. /\ wpc[w] \in {"idle", "cleared"} /\ wpc' = [wpc EXCEPT ![w] = "scan"]
        /\ age' = age /\ cache' = cache
        /\ settled' = [settled EXCEPT ![w] = {b \in Visible : age[b] > Window}]
    BY <1>6 DEF Index, redisVars
  <2>2. clearing[w] # "begun" /\ clearing' = [clearing EXCEPT ![w] = "begun"]
    BY <1>1, <2>1, PhaseStep
  <2>3. Promise!BeginClear(w)
    BY <2>1, <2>2, SameView DEF Promise!BeginClear
  <2> QED
    BY <2>3 DEF Promise!Next
<1> QED
  BY <1>3, <1>4, <1>5, <1>6

\* The cache implements CachePromise: get, set and clear_all, their timeouts
\* and their failures come to nothing but writes of results that lag by at most
\* Window, removals, and invalidations that leave nothing behind when they end.
THEOREM PromiseIsKept == Spec => KeepsPromise
<1>1. Init => Promise!Init
  BY DEF Init, Promise!Init, clearing
<1>2. Inv /\ Inv' /\ [Next]_vars => [Promise!Next]_(Promise!vars)
  <2>1. SUFFICES ASSUME Inv, Inv', [Next]_vars
                 PROVE  [Promise!Next]_(Promise!vars)
    OBVIOUS
  <2>2. CASE \E s \in Searches : Answer(s)
    BY <2>1, <2>2, AnswerRefines
  <2>3. CASE \E x \in late : LateWrite(x)
    BY <2>1, <2>3, LateWriteRefines
  <2>4. CASE Refresh \/ Tick \/ DropIndex
    BY <2>1, <2>4, TimeRefines DEF Inv
  <2>5. CASE \E w \in Workers : \/ Scan(w) \/ Delete(w) \/ ClearFails(w)
                                \/ \E a \in Articles : Index(w, a)
    BY <2>1, <2>5, WorkerRefines
  <2>6. CASE \/ \E a \in Articles : IndexOnly(a)
             \/ \E s \in Searches, k \in Keys, C \in SUBSET Clients \ {{}} : Begin(s, k, C)
             \/ UNCHANGED vars
    <3>1. age' = age /\ cache' = cache /\ wpc' = wpc /\ settled' = settled
      BY <2>6 DEF IndexOnly, Begin, vars, entryVars, redisVars, workerVars
    <3> QED
      BY <3>1, Unseen
  <2> QED
    BY <2>1, <2>2, <2>3, <2>4, <2>5, <2>6 DEF Next
<1> QED
  BY <1>1, <1>2, Invariance, PTL DEF Spec, KeepsPromise, Promise!Spec
=============================================================================
