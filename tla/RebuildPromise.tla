---------------------------- MODULE RebuildPromise ----------------------------
(***************************************************************************)
(* What a rebuild of the search index promises, with no cursor, batches,   *)
(* tasks, semaphore or requests: nobody else removes an article from the   *)
(* index; from its creation on the index has our mappings and only grows;  *)
(* and success means that searches see every article of MongoDB but those  *)
(* that came later and that somebody still owes the index.  Module         *)
(* RebuildIndex implements this specification.                             *)
(***************************************************************************)
CONSTANT Articles

VARIABLES
  stored,   \* articles in MongoDB
  owed,     \* those whose jobs are not done, or were given up
  index,    \* the index: absent, created by us or by itself
  docs,     \* articles in the index
  visible,  \* those that searches see
  rebuild,  \* how far the rebuild is
  due       \* articles that it has to index

vars == <<stored, owed, index, docs, visible, rebuild, due>>

Init ==
  /\ stored = {} /\ owed = {}
  /\ index = "absent" /\ docs = {} /\ visible = {}
  /\ rebuild = "idle" /\ due = {}

-----------------------------------------------------------------------------
(* Clients, workers and the writes of the rebuild                          *)

Store(a) ==
  /\ a \notin stored
  /\ stored' = stored \cup {a} /\ owed' = owed \cup {a}
  /\ UNCHANGED <<index, docs, visible, rebuild, due>>

\* A document of MongoDB arrives, and creates the index if there is none.
Write(a) ==
  /\ a \in stored
  /\ docs' = docs \cup {a}
  /\ index' = IF index = "absent" THEN "dynamic" ELSE index
  /\ UNCHANGED <<stored, visible, rebuild, due>>

\* A job ends with the article in the index; one that is repeated after all
\* owes it again.
Pay(a) == Write(a) /\ a \in owed /\ owed' = owed \ {a}
Owe(a) ==
  /\ a \in stored
  /\ owed' = owed \cup {a}
  /\ UNCHANGED <<stored, index, docs, visible, rebuild, due>>

Show ==
  /\ visible' = docs
  /\ UNCHANGED <<stored, owed, index, docs, rebuild, due>>

-----------------------------------------------------------------------------
(* The rebuild                                                             *)

Running == rebuild \in {"clearing", "created", "filling"}

Begin ==
  /\ ~ Running
  /\ rebuild' = "clearing" /\ due' = {}
  /\ UNCHANGED <<stored, owed, index, docs, visible>>

Clear  == rebuild = "clearing" /\ index' = "absent" /\ docs' = {} /\ visible' = {}
Create == /\ rebuild = "clearing" /\ index = "absent"
          /\ index' = "mapped" /\ UNCHANGED <<docs, visible>>

Replace ==
  /\ \/ Clear /\ rebuild' = "clearing"
     \/ Create /\ rebuild' = "created"
  /\ UNCHANGED <<stored, owed, due>>

\* What is stored now is due, whatever the workers make of it.
Open ==
  /\ rebuild = "created"
  /\ rebuild' = "filling" /\ due' = stored
  /\ UNCHANGED <<stored, owed, index, docs, visible>>

Succeed ==
  /\ rebuild = "filling" /\ index = "mapped"
  /\ due \subseteq docs
  /\ stored \subseteq docs \cup owed
  /\ rebuild' = "done" /\ visible' = docs
  /\ UNCHANGED <<stored, owed, index, docs, due>>

\* It ends in the middle of a call, which may have taken effect.
Fail ==
  /\ Running
  /\ rebuild' = "failed"
  /\ Clear \/ Create \/ UNCHANGED <<index, docs, visible>>
  /\ UNCHANGED <<stored, owed, due>>

-----------------------------------------------------------------------------
Next ==
  \/ Show \/ Begin \/ Replace \/ Open \/ Succeed \/ Fail
  \/ \E a \in Articles : Store(a) \/ Pay(a) \/ Owe(a) \/ (Write(a) /\ UNCHANGED owed)

Spec == Init /\ [][Next]_vars
===============================================================================
