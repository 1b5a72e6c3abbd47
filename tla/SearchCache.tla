----------------------------- MODULE SearchCache -----------------------------
(***************************************************************************)
(* Searches through the Redis cache (SearchService.search_articles,        *)
(* SearchCacheRepository) while workers index articles and invalidate the  *)
(* cache (ArticleIndexProcessor.process, clear_all), and while a rebuild   *)
(* replaces the index (scripts/rebuild_search_index.py).                   *)
(*                                                                         *)
(* A search reads the cache, queries Elasticsearch on a miss, and writes   *)
(* the cache, each under a timeout of its own; an invalidation scans the   *)
(* keys of Redis batch by batch.  A process that could not reach Redis or  *)
(* Elasticsearch when it started does without it until it is restarted.    *)
(* Elasticsearch shows an indexed article to searches only after its next  *)
(* refresh.  Time passes in ticks; timeouts and expiry happen at the tick  *)
(* they are due.                                                           *)
(***************************************************************************)
EXTENDS Naturals

CONSTANTS
  Articles,              \* active articles; every query asks for all of them
  Keys,                  \* cache keys: normalized queries with a limit
  Searches,              \* requests to /api/v1/search in progress
  Workers,               \* index jobs in progress
  TTL,                   \* SEARCH_CACHE_TTL_SECONDS, in ticks
  ElasticsearchTimeout,  \* in ticks
  RedisTimeout,          \* in ticks
  Linger,                \* ticks for which a command may still reach Redis after
                         \* its caller has given it up
  MaxFaults,             \* bound: errors of Redis and Elasticsearch
  None                   \* no entry, no key, not visible, nothing found

ASSUME NumberAssumption ==
  /\ TTL \in Nat \ {0}
  /\ ElasticsearchTimeout \in Nat /\ RedisTimeout \in Nat /\ Linger \in Nat
  /\ MaxFaults \in Nat
ASSUME NoneAssumption == None \notin Nat

Clients == {"redis", "elasticsearch"}

VARIABLES
  indexed,   \* articles that Elasticsearch has accepted
  age,       \* age[a]: ticks since a is visible to searches, up to AgeCap
  cache,     \* cache[k]: the articles of the entry, and the ticks it has left
  late,      \* SETs that their search has given up, and the ticks they have left
  pc, key,   \* where a search is, and the key of its request
  clients,   \* the clients that its process could initialize when it started
  left,      \* ticks left of its current timeout
  found,     \* what Elasticsearch has found for it
  wpc,       \* where a worker is
  scan,      \* keys that the SCAN of a worker has not come to
  batch,     \* keys it is about to delete
  settled,   \* articles visible for longer than Window when its clear_all began
  faults     \* faults so far

entryVars  == <<indexed, age>>
redisVars  == <<cache, late>>
searchVars == <<pc, key, clients, left, found>>
workerVars == <<wpc, scan, batch, settled>>
vars == <<indexed, age, cache, late, pc, key, clients, left, found, wpc, scan, batch, settled, faults>>

\* The longest time from the moment Elasticsearch reads its index for a
\* search to the moment Redis stores what it has found.
Window == ElasticsearchTimeout + RedisTimeout + Linger
AgeCap == TTL + Window + 1   \* bound: greater ages make no difference

Entries == [ids : SUBSET Articles, ttl : 1..TTL]
LateWrites == [key : Keys, ids : SUBSET Articles, left : 0..Linger]

Init ==
  /\ indexed = {}
  /\ age = [a \in Articles |-> None]
  /\ cache = [k \in Keys |-> None]
  /\ late = {}
  /\ pc = [s \in Searches |-> "idle"]
  /\ key = [s \in Searches |-> None]
  /\ clients = [s \in Searches |-> {}]
  /\ left = [s \in Searches |-> 0]
  /\ found = [s \in Searches |-> None]
  /\ wpc = [w \in Workers |-> "idle"]
  /\ scan = [w \in Workers |-> {}]
  /\ batch = [w \in Workers |-> {}]
  /\ settled = [w \in Workers |-> {}]
  /\ faults = 0

Fault == faults < MaxFaults /\ faults' = faults + 1

Cached  == {k \in Keys : cache[k] # None}
Visible == {a \in Articles : age[a] # None}

-----------------------------------------------------------------------------
(* Elasticsearch and time                                                  *)

Refresh ==
  /\ indexed \ Visible # {}
  /\ age' = [a \in Articles |-> IF a \in indexed \ Visible THEN 0 ELSE age[a]]
  /\ UNCHANGED <<indexed, redisVars, searchVars, workerVars, faults>>

Tick ==
  /\ \A s \in Searches : pc[s] # "idle" => left[s] > 0
  /\ left' = [s \in Searches |-> IF pc[s] = "idle" THEN 0 ELSE left[s] - 1]
  /\ age' = [a \in Articles |-> IF a \notin Visible THEN None
                                ELSE IF age[a] < AgeCap THEN age[a] + 1 ELSE AgeCap]
  /\ cache' = [k \in Keys |-> IF k \in Cached /\ cache[k].ttl > 1
                              THEN [cache[k] EXCEPT !.ttl = @ - 1] ELSE None]
  /\ late' = {[x EXCEPT !.left = @ - 1] : x \in {y \in late : y.left > 0}}
  /\ UNCHANGED <<indexed, pc, key, clients, found, workerVars, faults>>

-----------------------------------------------------------------------------
(* search_articles                                                         *)

Enter(s, where, timeout) ==
  /\ pc' = [pc EXCEPT ![s] = where]
  /\ left' = [left EXCEPT ![s] = timeout]

\* The answer, or SearchUnavailableError.
End(s) ==
  /\ Enter(s, "idle", 0)
  /\ key' = [key EXCEPT ![s] = None]
  /\ clients' = [clients EXCEPT ![s] = {}]
  /\ found' = [found EXCEPT ![s] = None]

\* A request to a process with the clients C.  (Without any client it ends at
\* once.)  A request without a cache begins with the query.
Begin(s, k, C) ==
  /\ pc[s] = "idle"
  /\ key' = [key EXCEPT ![s] = k]
  /\ clients' = [clients EXCEPT ![s] = C]
  /\ IF "redis" \in C THEN Enter(s, "get", RedisTimeout)
                      ELSE Enter(s, "query", ElasticsearchTimeout)
  /\ UNCHANGED <<entryVars, redisVars, found, workerVars, faults>>

\* An error under a timeout, or the timeout itself.
Raises(s) == IF left[s] = 0 THEN UNCHANGED faults ELSE Fault

\* Mutation: a hit keeps the entry alive.
Hit_Renews(s) ==
  /\ pc[s] = "get" /\ key[s] \in Cached
  /\ End(s)
  /\ cache' = [cache EXCEPT ![key[s]].ttl = TTL]
  /\ UNCHANGED <<late, entryVars, workerVars, faults>>

\* An entry without articles is a hit, too.
Hit(s) ==
  /\ pc[s] = "get" /\ key[s] \in Cached
  /\ End(s)
  /\ UNCHANGED <<entryVars, redisVars, workerVars, faults>>

\* Nothing in the cache: Elasticsearch, if there is a client for it.
GoOn(s) ==
  IF "elasticsearch" \in clients[s]
  THEN Enter(s, "query", ElasticsearchTimeout) /\ UNCHANGED <<key, clients, found>>
  ELSE End(s)

Miss(s) ==
  /\ pc[s] = "get" /\ key[s] \notin Cached
  /\ GoOn(s)
  /\ UNCHANGED <<entryVars, redisVars, workerVars, faults>>

\* Mutation: no asyncio.timeout, so that only an error ends the wait.
GetFails_NoTimeout(s) ==
  /\ pc[s] = "get"
  /\ Fault
  /\ GoOn(s)
  /\ UNCHANGED <<entryVars, redisVars, workerVars>>

\* RedisError, TimeoutError or JSONDecodeError: like a miss.
GetFails(s) ==
  /\ pc[s] = "get"
  /\ Raises(s)
  /\ GoOn(s)
  /\ UNCHANGED <<entryVars, redisVars, workerVars>>

\* Elasticsearch reads its index ...
Query(s) ==
  /\ pc[s] = "query"
  /\ found' = [found EXCEPT ![s] = Visible]
  /\ pc' = [pc EXCEPT ![s] = "reply"]
  /\ UNCHANGED <<entryVars, redisVars, key, clients, left, workerVars, faults>>

\* ... and its answer arrives.
Reply(s) ==
  /\ pc[s] = "reply"
  /\ IF "redis" \in clients[s]
     THEN Enter(s, "set", RedisTimeout) /\ UNCHANGED <<key, clients, found>>
     ELSE End(s)
  /\ UNCHANGED <<entryVars, redisVars, workerVars, faults>>

\* Elasticsearch raises, for instance because a rebuild has deleted the index,
\* or the timeout does.
QueryFails(s) ==
  /\ pc[s] \in {"query", "reply"}
  /\ End(s)
  /\ UNCHANGED <<entryVars, redisVars, workerVars, faults>>

Write(s) == cache' = [cache EXCEPT ![key[s]] = [ids |-> found[s], ttl |-> TTL]]

\* Mutation: an entry lives too long.
Set_TooLong(s) ==
  /\ pc[s] = "set"
  /\ cache' = [cache EXCEPT ![key[s]] = [ids |-> found[s], ttl |-> TTL + 1]]
  /\ End(s)
  /\ UNCHANGED <<late, entryVars, workerVars, faults>>

Set(s) ==
  /\ pc[s] = "set"
  /\ Write(s)
  /\ End(s)
  /\ UNCHANGED <<late, entryVars, workerVars, faults>>

\* RedisError or TimeoutError: Redis has stored the entry, or never will, or
\* has yet to execute a command that waits on a connection given up.
SetFails(s) ==
  /\ pc[s] = "set"
  /\ Raises(s)
  /\ \/ Write(s) /\ UNCHANGED late
     \/ UNCHANGED redisVars
     \/ /\ late' = late \cup {[key |-> key[s], ids |-> found[s], left |-> Linger]}
        /\ UNCHANGED cache
  /\ End(s)
  /\ UNCHANGED <<entryVars, workerVars>>

LateWrite(x) ==
  /\ cache' = [cache EXCEPT ![x.key] = [ids |-> x.ids, ttl |-> TTL]]
  /\ late' = late \ {x}
  /\ UNCHANGED <<entryVars, searchVars, workerVars, faults>>

-----------------------------------------------------------------------------
(* ArticleIndexProcessor.process, from index_article on                    *)

Index(w, a) ==
  /\ wpc[w] \in {"idle", "cleared"}
  /\ indexed' = indexed \cup {a}
  /\ wpc' = [wpc EXCEPT ![w] = "scan"]
  /\ scan' = [scan EXCEPT ![w] = Keys]
  /\ settled' = [settled EXCEPT ![w] = {b \in Visible : age[b] > Window}]
  /\ UNCHANGED <<age, redisVars, searchVars, batch, faults>>

\* Mutation: clear_all takes a batch without keys for the end.
Scan_EndsEarly(w) ==
  /\ wpc[w] = "scan"
  /\ \E B \in SUBSET scan[w] :
       /\ B # {}
       /\ scan' = [scan EXCEPT ![w] = @ \ B]
       /\ batch' = [batch EXCEPT ![w] = B \cap Cached]
       /\ wpc' = [wpc EXCEPT ![w] = IF B \cap Cached # {} THEN "delete" ELSE "cleared"]
  /\ UNCHANGED <<entryVars, redisVars, searchVars, settled, faults>>

\* SCAN comes to some of the keys; those that exist are in its answer.
Scan(w) ==
  /\ wpc[w] = "scan"
  /\ \E B \in SUBSET scan[w] :
       /\ B # {}
       /\ scan' = [scan EXCEPT ![w] = @ \ B]
       /\ batch' = [batch EXCEPT ![w] = B \cap Cached]
       /\ wpc' = [wpc EXCEPT ![w] = IF B \cap Cached # {} THEN "delete"
                                    ELSE IF B = scan[w] THEN "cleared" ELSE "scan"]
  /\ UNCHANGED <<entryVars, redisVars, searchVars, settled, faults>>

Delete(w) ==
  /\ wpc[w] = "delete"
  /\ cache' = [k \in Keys |-> IF k \in batch[w] THEN None ELSE cache[k]]
  /\ batch' = [batch EXCEPT ![w] = {}]
  /\ wpc' = [wpc EXCEPT ![w] = IF scan[w] = {} THEN "cleared" ELSE "scan"]
  /\ UNCHANGED <<late, entryVars, searchVars, scan, settled, faults>>

\* RedisError ends clear_all and is logged, or the worker ends; a DEL whose
\* answer is lost may have been carried out.
ClearFails(w) ==
  /\ wpc[w] \in {"scan", "delete"}
  /\ Fault
  /\ \/ UNCHANGED cache
     \/ cache' = [k \in Keys |-> IF k \in batch[w] THEN None ELSE cache[k]]
  /\ wpc' = [wpc EXCEPT ![w] = "idle"]
  /\ scan' = [scan EXCEPT ![w] = {}]
  /\ batch' = [batch EXCEPT ![w] = {}]
  /\ settled' = [settled EXCEPT ![w] = {}]
  /\ UNCHANGED <<late, entryVars, searchVars>>

-----------------------------------------------------------------------------
(* Indexing without invalidation                                           *)

\* index_document of a rebuild, or process in a worker that was started
\* without Redis and has cache_repository = None.
IndexOnly(a) ==
  /\ indexed' = indexed \cup {a}
  /\ UNCHANGED <<age, redisVars, searchVars, workerVars, faults>>

\* A rebuild deletes the index and creates it empty.
DropIndex ==
  /\ indexed' = {}
  /\ age' = [a \in Articles |-> None]
  /\ settled' = [w \in Workers |-> {}]
  /\ UNCHANGED <<redisVars, searchVars, wpc, scan, batch, faults>>

-----------------------------------------------------------------------------
Answer(s) ==
  \/ Hit(s) \/ Miss(s) \/ GetFails(s)
  \/ Query(s) \/ Reply(s) \/ QueryFails(s)
  \/ Set(s) \/ SetFails(s)

Next ==
  \/ Refresh \/ Tick \/ DropIndex
  \/ \E a \in Articles : IndexOnly(a)
  \/ \E x \in late : LateWrite(x)
  \/ \E s \in Searches : Answer(s)
  \/ \E s \in Searches, k \in Keys, C \in SUBSET Clients \ {{}} : Begin(s, k, C)
  \/ \E w \in Workers : \/ Scan(w) \/ Delete(w) \/ ClearFails(w)
                        \/ \E a \in Articles : Index(w, a)

Spec == Init /\ [][Next]_vars

\* Time passes, and a timeout that is due is raised.  No answer is ever due:
\* Redis and Elasticsearch may stay silent for ever.
FairSpec ==
  /\ Spec
  /\ SF_vars(Tick)
  /\ \A s \in Searches : WF_vars(left[s] = 0 /\ (GetFails(s) \/ QueryFails(s) \/ SetFails(s)))

-----------------------------------------------------------------------------
(* Properties                                                              *)

TypeOK ==
  /\ indexed \in SUBSET Articles
  /\ age \in [Articles -> 0..AgeCap \cup {None}]
  /\ cache \in [Keys -> Entries \cup {None}]
  /\ late \in SUBSET LateWrites
  /\ pc \in [Searches -> {"idle", "get", "query", "reply", "set"}]
  /\ key \in [Searches -> Keys \cup {None}]
  /\ clients \in [Searches -> SUBSET Clients]
  /\ left \in [Searches -> 0..Window]
  /\ found \in [Searches -> (SUBSET Articles) \cup {None}]
  /\ wpc \in [Workers -> {"idle", "scan", "delete", "cleared"}]
  /\ scan \in [Workers -> SUBSET Keys]
  /\ batch \in [Workers -> SUBSET Keys]
  /\ settled \in [Workers -> SUBSET Articles]
  /\ faults \in 0..MaxFaults

\* The results in the cache lag behind the index by less than the TTL, the two
\* timeouts of a search and the delay of a late write, whatever becomes of
\* invalidations: they may fail, be left out, or be overtaken by a search that
\* has queried before and writes after them.
BoundedStaleness ==
  \A k \in Cached, a \in Visible : age[a] >= TTL + Window => a \in cache[k].ids

\* A completed invalidation is effective: from then on no entry lacks an
\* article that was visible for longer than Window when clear_all began,
\* neither one that was there before nor one that a search writes later.
\* (An article that is visible for a shorter time, as is the article whose
\* indexing causes the invalidation, may well be missing until the TTL.)
FreshAfterClear ==
  \A w \in Workers : wpc[w] = "cleared" =>
    \A k \in Cached : settled[w] \subseteq cache[k].ids

\* How far the clear_all of each worker is.
clearing == [w \in Workers |-> IF wpc[w] = "idle" THEN "idle"
                               ELSE IF wpc[w] = "cleared" THEN "done" ELSE "begun"]

Promise == INSTANCE CachePromise WITH clearing <- clearing

\* The cache keeps the promise of CachePromise, whatever its searches and
\* workers do: every write, a late one included, stores a result that lags by
\* at most Window, entries live for the TTL from their last write and no
\* longer, only invalidations remove them early, and one that ends well has
\* left nothing behind that it should have removed.
KeepsPromise == Promise!Spec

\* Every search ends, with Redis and Elasticsearch silent for ever: each of
\* its steps has a timeout of its own, and each timeout leads on to the next
\* step or to the end (asyncio.timeout in _get_cached_results, search_articles
\* and _cache_results).
EventuallyAnswered == \A s \in Searches : pc[s] # "idle" ~> pc[s] = "idle"

-----------------------------------------------------------------------------
(* The invariant that module SearchCacheProofs proves inductive            *)

\* S lacks only articles that are visible for at most d ticks.
Lag(S, d) == \A a \in Visible \ S : age[a] <= d

\* A search is within its timeout, and what it has found ages with it.
SearchOK(s) ==
  /\ pc[s] # "idle" => key[s] \in Keys
  /\ pc[s] \in {"get", "set"} => left[s] <= RedisTimeout
  /\ pc[s] \in {"query", "reply"} => left[s] <= ElasticsearchTimeout
  /\ pc[s] \in {"reply", "set"} => found[s] \in SUBSET Articles
  /\ pc[s] = "reply" => Lag(found[s], ElasticsearchTimeout - left[s])
  /\ pc[s] = "set" => Lag(found[s], ElasticsearchTimeout + RedisTimeout - left[s])

\* What Redis has been told ages on, while it lingers and while it is stored.
EntriesOK ==
  /\ \A x \in late : Lag(x.ids, Window - x.left)
  /\ \A k \in Cached : Lag(cache[k].ids, Window + TTL - cache[k].ttl)

\* Entries that lack a settled article are still to be deleted.
ClearOK ==
  \A w \in Workers :
    /\ \A b \in settled[w] : b \in Visible /\ age[b] > Window
    /\ wpc[w] # "delete" => batch[w] = {}
    /\ wpc[w] \in {"idle", "cleared"} => scan[w] = {}
    /\ wpc[w] # "idle" =>
         \A k \in Cached : settled[w] \subseteq cache[k].ids \/ k \in scan[w] \cup batch[w]

Inv == TypeOK /\ (\A s \in Searches : SearchOK(s)) /\ EntriesOK /\ ClearOK
=============================================================================
