--------------------------- MODULE IndexingPromise ---------------------------
(***************************************************************************)
(* What the whole indexing path promises, with no outbox, brokers, queues  *)
(* or workers: an article that is stored becomes searchable or is given up *)
(* for good, in a dead letter that an operator can inspect; nothing else   *)
(* does, and neither outcome is ever taken back.  Module IndexingPath      *)
(* implements this specification.                                          *)
(***************************************************************************)
CONSTANT Articles     \* the articles that may be created

VARIABLES stored,     \* articles that the API has stored
          searchable, \* articles in the search index
          givenUp     \* articles with a dead letter

vars == <<stored, searchable, givenUp>>

Init == stored = {} /\ searchable = {} /\ givenUp = {}

Store(a) ==
  /\ a \notin stored
  /\ stored' = stored \cup {a}
  /\ UNCHANGED <<searchable, givenUp>>

\* Outcomes may come in any order, and both: a failed attempt may have indexed
\* the article, and a repeated publication may fare differently.
Index(a) ==
  /\ a \in stored \ searchable
  /\ searchable' = searchable \cup {a}
  /\ UNCHANGED <<stored, givenUp>>

GiveUp(a) ==
  /\ a \in stored \ givenUp
  /\ givenUp' = givenUp \cup {a}
  /\ UNCHANGED <<stored, searchable>>

Next == \E a \in Articles : Store(a) \/ Index(a) \/ GiveUp(a)

Spec == Init /\ [][Next]_vars

\* A stored article has an outcome in the end.
Settled(a) == a \in searchable \cup givenUp

FairSpec == Spec /\ \A a \in Articles : WF_vars(~ Settled(a) /\ (Index(a) \/ GiveUp(a)))
=============================================================================
