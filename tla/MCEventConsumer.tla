--------------------------- MODULE MCEventConsumer ---------------------------
(***************************************************************************)
(* Small instances of EventConsumer.                                       *)
(***************************************************************************)
EXTENDS EventConsumer, TLC

CONSTANTS a1, a2, e1, e2, p1, p2, audit, analytics, replay, c1, c2

OnePartition  == a1 :> p1
TwoPartitions == a1 :> p1 @@ a2 :> p2
SharedPartition == a1 :> p1 @@ a2 :> p1

\* A group of its own for a replay into the collection of the audit role.
AuditAndReplay == audit :> "article_creation_audit" @@ replay :> "article_creation_audit"
AuditOnly      == audit :> "article_creation_audit"
BothRoles      == audit :> "article_creation_audit"
                  @@ analytics :> "article_creation_analytics_events"

TwoInAudit  == c1 :> audit @@ c2 :> audit
OneInEach   == c1 :> audit @@ c2 :> replay
OnePerRole  == c1 :> audit @@ c2 :> analytics

\* Sound for TwoInAudit only.
Symmetry == Permutations(Consumers)

\* Sound for OneInEach and SharedPartition: articles, event_ids, and the two
\* groups with their consumers, may change places.
ReplaySymmetry ==
  Permutations(Articles) \cup Permutations(Events)
    \cup {audit :> replay @@ replay :> audit @@ c1 :> c2 @@ c2 :> c1}
=============================================================================
