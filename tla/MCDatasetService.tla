-------------------------- MODULE MCDatasetService --------------------------
(***************************************************************************)
(* Instances of the service for TLC: its safety, its liveness and its      *)
(* refinement, and the documented claims it refutes.                       *)
(***************************************************************************)
EXTENDS DatasetServiceRefinement, DocumentedClaims, TLC

\* Handlers, keys, requests and ids are interchangeable; builds are ordered
\* by their submission and are not.
Symmetry == Permutations(Handlers) \cup Permutations(Keys) \cup Permutations(Requests)
            \cup Permutations(RegIds) \cup Permutations(Commands)
=============================================================================
