-------------------------- MODULE DocumentedClaims --------------------------
(***************************************************************************)
(* Statements that the repository's documents and comments make of the     *)
(* service, and that a schedule, a crash or a failing write refutes.       *)
(***************************************************************************)
EXTENDS DatasetService

\* A purge does not fail its retry: a serving process never keeps a build
\* DELETING that no handler is purging, a state in which purge() refuses it.
PurgeIsRetryable ==
    Serving => \A b \in Builds : memory[b].state = "DELETING" =>
        \E h \in Handlers : handler[h].op = "purge" /\ handler[h].build = b

\* With a persistent volume the local store survives restarts: a process that
\* was started serves in the end.
StartupServes == boot.pc = "down" ~> Serving

\* What /healthz answers: it probes the storage and reports the queue.
Health(writable) == [status |-> IF writable THEN "ok" ELSE "degraded",
                     queue_depth |-> Len(queue), active_build_id |-> active]

\* Health reflects what the service is capable of: a serving process that will
\* never run what waits in its queue, because a failing write ended its worker,
\* does not answer "ok" once the storage can be written again.
HealthReflectsCapability ==
    Serving /\ worker = "dead" /\ queue # <<>> => Health(TRUE).status # "ok"
=============================================================================
