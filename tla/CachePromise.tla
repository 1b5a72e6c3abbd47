----------------------------- MODULE CachePromise -----------------------------
(***************************************************************************)
(* What the search cache promises, with no searches, clients, timeouts,    *)
(* scans or failures: an entry is a result that lags behind the index by   *)
(* at most Window when it is stored and is gone after TTL; an invalidation *)
(* that ends well has left no entry that lacks what was visible for longer *)
(* than Window when it began.  Module SearchCache implements this          *)
(* specification.                                                          *)
(***************************************************************************)
EXTENDS Naturals

CONSTANTS
  Articles, Keys,   \* what may be found, and under which keys
  Workers,          \* those who invalidate the cache
  TTL,              \* ticks for which an entry is kept
  Window,           \* ticks by which a result may lag when it is stored
  None              \* no entry, not visible

VARIABLES
  age,       \* age[a]: ticks since a is visible to searches, up to AgeCap
  cache,     \* cache[k]: the articles of the entry, and the ticks it has left
  clearing,  \* whether the last invalidation of a worker has begun, or is done
  settled    \* articles visible for longer than Window when it began

vars == <<age, cache, clearing, settled>>

AgeCap == TTL + Window + 1   \* bound: greater ages make no difference

Visible == {a \in Articles : age[a] # None}

Init ==
  /\ age = [a \in Articles |-> None]
  /\ cache = [k \in Keys |-> None]
  /\ clearing = [w \in Workers |-> "idle"]
  /\ settled = [w \in Workers |-> {}]

\* Articles become visible together, and vanish together.
Appear(A) ==
  /\ A # {} /\ A \cap Visible = {}
  /\ age' = [a \in Articles |-> IF a \in A THEN 0 ELSE age[a]]
  /\ UNCHANGED <<cache, clearing, settled>>

Vanish ==
  /\ age' = [a \in Articles |-> None]
  /\ settled' = [w \in Workers |-> {}]
  /\ UNCHANGED <<cache, clearing>>

Tick ==
  /\ age' = [a \in Articles |-> IF a \notin Visible THEN None
                                ELSE IF age[a] < AgeCap THEN age[a] + 1 ELSE AgeCap]
  /\ cache' = [k \in Keys |-> IF cache[k] # None /\ cache[k].ttl > 1
                              THEN [cache[k] EXCEPT !.ttl = @ - 1] ELSE None]
  /\ UNCHANGED <<clearing, settled>>

\* A result is stored that lacks no article but recent ones.
Fill(k, S) ==
  /\ \A a \in Visible \ S : age[a] <= Window
  /\ cache' = [cache EXCEPT ![k] = [ids |-> S, ttl |-> TTL]]
  /\ UNCHANGED <<age, clearing, settled>>

BeginClear(w) ==
  /\ clearing[w] # "begun"
  /\ clearing' = [clearing EXCEPT ![w] = "begun"]
  /\ settled' = [settled EXCEPT ![w] = {a \in Visible : age[a] > Window}]
  /\ UNCHANGED <<age, cache>>

Remove(K) == cache' = [k \in Keys |-> IF k \in K THEN None ELSE cache[k]]

\* An invalidation removes some entries, and goes on ...
Clear(w, K) ==
  /\ clearing[w] = "begun"
  /\ Remove(K)
  /\ UNCHANGED <<age, clearing, settled>>

\* ... or is done, if no entry is left that lacks a settled article ...
EndClear(w, K) ==
  /\ clearing[w] = "begun"
  /\ Remove(K)
  /\ \A k \in Keys \ K : cache[k] # None => settled[w] \subseteq cache[k].ids
  /\ clearing' = [clearing EXCEPT ![w] = "done"]
  /\ UNCHANGED <<age, settled>>

\* ... or gives up.
AbandonClear(w, K) ==
  /\ clearing[w] = "begun"
  /\ Remove(K)
  /\ clearing' = [clearing EXCEPT ![w] = "idle"]
  /\ settled' = [settled EXCEPT ![w] = {}]
  /\ UNCHANGED age

Next ==
  \/ Tick \/ Vanish
  \/ \E A \in SUBSET Articles : Appear(A)
  \/ \E k \in Keys, S \in SUBSET Articles : Fill(k, S)
  \/ \E w \in Workers :
       \/ BeginClear(w)
       \/ \E K \in SUBSET Keys : Clear(w, K) \/ EndClear(w, K) \/ AbandonClear(w, K)

Spec == Init /\ [][Next]_vars
===============================================================================
