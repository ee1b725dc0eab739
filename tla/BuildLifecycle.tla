--------------------------- MODULE BuildLifecycle ---------------------------
(***************************************************************************)
(* What the Dataset Manager promises of one build to the Backend that      *)
(* ordered it and to the workers that read it: the lifecycle of section 3  *)
(* of the design, without threads, queue, memory, crashes or partial       *)
(* removals.                                                               *)
(***************************************************************************)
CONSTANT Builds

VARIABLES
    life,           \* the phase of each build
    published,      \* builds whose manifest hash has been announced
    available       \* builds whose whole artifact tree is in the store

lifeVars == <<life, published, available>>

Phases == {"none", "pending", "building", "registering", "ready", "deprecated",
           "failed", "deleting", "deleted"}
Readable == {"registering", "ready", "deprecated"}

Init ==
    /\ life = [b \in Builds |-> "none"]
    /\ published = {}
    /\ available = {}

Move(b, from, to) == life[b] \in from /\ life' = [life EXCEPT ![b] = to]

Submit(b) == Move(b, {"none"}, "pending") /\ UNCHANGED <<published, available>>
Start(b) == Move(b, {"pending"}, "building") /\ UNCHANGED <<published, available>>
Fail(b) == Move(b, {"pending", "building"}, "failed") /\ UNCHANGED <<published, available>>

\* The tree appears as a whole, and before anyone is told of it.
Materialize(b) ==
    /\ life[b] = "building" /\ b \notin available
    /\ available' = available \cup {b}
    /\ UNCHANGED <<life, published>>

Publish(b) ==
    /\ b \in available
    /\ Move(b, {"building"}, "registering")
    /\ published' = published \cup {b}
    /\ UNCHANGED available

Acknowledge(b) == Move(b, {"registering"}, "ready") /\ UNCHANGED <<published, available>>
Deprecate(b) == Move(b, {"ready"}, "deprecated") /\ UNCHANGED <<published, available>>
BeginPurge(b) ==
    Move(b, {"failed", "deprecated"}, "deleting") /\ UNCHANGED <<published, available>>

Remove(b) ==
    /\ life[b] = "deleting" /\ b \in published
    /\ available' = available \ {b}
    /\ UNCHANGED <<life, published>>

\* Only an announced tree is removed: a build that failed after its tree
\* appeared keeps it.
EndPurge(b) ==
    /\ b \in published => b \notin available
    /\ Move(b, {"deleting"}, "deleted")
    /\ UNCHANGED <<published, available>>

Next == \E b \in Builds :
    \/ Submit(b) \/ Start(b) \/ Fail(b) \/ Materialize(b) \/ Publish(b) \/ Acknowledge(b)
    \/ Deprecate(b) \/ BeginPurge(b) \/ Remove(b) \/ EndPurge(b)

Spec == Init /\ [][Next]_lifeVars

TypeOK ==
    /\ life \in [Builds -> Phases]
    /\ published \subseteq Builds
    /\ available \subseteq Builds

\* What may be read is there, was announced, and nothing announced that is
\* deleted remains.
ReadableIsAvailable ==
    \A b \in Builds :
        /\ life[b] \in Readable => b \in available /\ b \in published
        /\ life[b] = "deleted" /\ b \in published => b \notin available
=============================================================================
