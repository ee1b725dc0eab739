--------------------------- MODULE RecordContract ---------------------------
(***************************************************************************)
(* What the service relies on in persist_record and load_records: a record *)
(* goes from one version to a later one in a single step, and a version    *)
(* that the service was told is persisted is never lost.                   *)
(***************************************************************************)
EXTENDS Naturals

CONSTANTS Builds, MaxVersion

VARIABLES durable,   \* the version a start of the service would load
          promised   \* the last version whose persist returned

Init == /\ durable \in [Builds -> 0 .. MaxVersion]
        /\ promised = durable

\* A persist takes effect, whether or not it is going to return.
Take(b) ==
    /\ \E v \in durable[b] + 1 .. MaxVersion : durable' = [durable EXCEPT ![b] = v]
    /\ UNCHANGED promised

\* A persist returns.
Promise(b) ==
    /\ promised' = [promised EXCEPT ![b] = durable[b]]
    /\ UNCHANGED durable

Next == \E b \in Builds : Take(b) \/ Promise(b)
Spec == Init /\ [][Next]_<<durable, promised>>
=============================================================================
