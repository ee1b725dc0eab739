---------------------- MODULE DatasetServiceRefinement ----------------------
(***************************************************************************)
(* The service implements the lifecycle it promises: what its callers see  *)
(* is the durable record of a build and the tree in the store, whatever    *)
(* threads, crashes and recovery do in between.                            *)
(***************************************************************************)
EXTENDS DatasetService

\* The phase a durable state stands for.
Phase(state) ==
    CASE state = "ABSENT" -> "none"
      [] state \in Pending -> "pending"
      [] state \in Active -> "building"
      [] state = "REGISTERING" -> "registering"
      [] state = "READY" -> "ready"
      [] state = "DEPRECATED" -> "deprecated"
      [] state = "FAILED" -> "failed"
      [] state = "DELETING" -> "deleting"
      [] state = "DELETED" -> "deleted"

Lifecycle == INSTANCE BuildLifecycle
    WITH Builds <- Builds,
         life <- [b \in Builds |-> Phase(durable[b].state)],
         published <- {b \in Builds : durable[b].hash # NoBuild},
         available <- {b \in Builds : tree[b] = "complete"}

\* Every step of the service is a step of the lifecycle or changes nothing
\* that its callers can see, as long as no write fails.
ImplementsLifecycle == Lifecycle!Spec
=============================================================================
