-------------------------- MODULE Materialization --------------------------
(***************************************************************************)
(* storage.py: how one build id's tree is written, verified, published and *)
(* found again.  LocalArtifactStore.materialize writes a temporary tree    *)
(* shard by shard, verifies it and renames it, or verifies the tree that   *)
(* is already there; HuggingFaceArtifactStore.materialize then uploads it  *)
(* and verifies the upload; the pipeline verifies the result once more.    *)
(*                                                                         *)
(* A digest is what it is the digest of.  A batch file is its sample ids   *)
(* and whether its arrays are intact, a shard manifest the sequence of its *)
(* batches' digests, the root manifest a configuration and the digests of  *)
(* the shard manifests.                                                    *)
(***************************************************************************)
EXTENDS BatchLayout, SequencesExt

CONSTANTS
    SampleCounts, ShardCounts, BatchSizes, Seeds, Profiles,  \* of a configuration
    Remote,     \* the backend is huggingface
    MaxCalls,   \* bound: calls of materialize
    MaxFaults   \* bound: crashes, failing steps and damaged files

ASSUME LayoutAssumption ==
    SampleCounts \cup ShardCounts \cup BatchSizes \cup Seeds \subseteq Nat \ {0}
ASSUME CallsAssumption == Remote \in BOOLEAN /\ MaxCalls \in Nat /\ MaxFaults \in Nat

VARIABLES
    pc,      \* where the worker is in a call
    config,  \* the configuration of the call
    work,    \* the temporary tree of the call
    orphans, \* temporary trees that no call owns
    final,   \* the published tree
    remote,  \* the uploaded tree
    answer,  \* how the last call ended
    calls,
    faults,
    damaged  \* a file of this machine was damaged

vars == <<pc, config, work, orphans, final, remote, answer, calls, faults, damaged>>

Configs == [samples : SampleCounts, shards : ShardCounts, size : BatchSizes,
            seed : Seeds, profile : Profiles]

\* The permutation a seed gives; which one it is plays no part.
Order(c) == [p \in 1 .. c.samples |-> (p + c.seed) % c.samples]

Batch(ids) == [ids |-> ids, intact |-> TRUE]
Content(c) ==
    LET layout == Layout(Order(c), c.shards, c.size)
    IN  [i \in DOMAIN layout |-> [j \in DOMAIN layout[i] |-> Batch(layout[i][j])]]
RootOf(c) == <<c, Content(c)>>
Whole(c) == [root |-> RootOf(c), shards |-> Content(c), batches |-> Content(c)]
NoTree == [root |-> <<>>, shards |-> <<>>, batches |-> <<>>]

Init ==
    /\ pc = "idle" /\ config \in Configs
    /\ work = NoTree /\ final = NoTree /\ remote = NoTree
    /\ orphans = 0 /\ calls = 0 /\ faults = 0
    /\ answer = "none" /\ damaged = FALSE

-----------------------------------------------------------------------------
(* Verification of a tree against the digest of its root manifest.         *)

Covers(batches, n) ==
    LET ids == FlattenSeq([i \in DOMAIN batches |->
                   FlattenSeq([j \in DOMAIN batches[i] |-> batches[i][j].ids])])
    IN  Len(ids) = n /\ ToSet(ids) = 0 .. n - 1

\* A variant of ChainMatches: the batch files are trusted.
ChainMatchesManifests(tree, root) == tree.root = root /\ tree.shards = root[2]

ChainMatches(tree, root) ==
    tree.root = root /\ tree.shards = root[2] /\ tree.batches = tree.shards

Verified(tree, root) ==
    /\ ChainMatches(tree, root)
    /\ EqualCounts(tree.shards)
    /\ Covers(tree.batches, root[1].samples)

-----------------------------------------------------------------------------
(* LocalArtifactStore.materialize.                                         *)

\* The checks that need no file: a shard would be empty, or the profile's rule.
LayoutRefused(c) ==
    HasEmptyShard(c.samples, c.shards) \/ ~ProfileAccepts(c.profile, Content(c))

\* The temporary tree of a call is removed as well as it can be: what
\* rmtree(ignore_errors=True) leaves of it is never looked at again.
Discard ==
    /\ work' = NoTree
    /\ \E left \in BOOLEAN : orphans' = IF left THEN orphans + 1 ELSE orphans

\* The temporary directory is made before the layout is checked.
Call(c) ==
    /\ pc = "idle" /\ calls < MaxCalls
    /\ calls' = calls + 1
    /\ config' = c
    /\ IF LayoutRefused(c)
       THEN answer' = "layout" /\ pc' = "idle" /\ Discard
       ELSE answer' = "none" /\ pc' = "write" /\ UNCHANGED <<work, orphans>>
    /\ UNCHANGED <<final, remote, faults, damaged>>

\* The batches of the next shard, each digest taken from the written file, and
\* then the shard's manifest.
WriteShard ==
    /\ pc = "write"
    /\ Len(work.shards) < config.shards
    /\ LET shard == Content(config)[Len(work.shards) + 1]
       IN  work' = [work EXCEPT !.batches = Append(@, shard), !.shards = Append(@, shard)]
    /\ UNCHANGED <<pc, config, orphans, final, remote, answer, calls, faults, damaged>>

\* The root manifest is built by ManifestBuilder.root, which asks every shard
\* for the batch count of the first.
WriteRoot ==
    /\ pc = "write"
    /\ Len(work.shards) = config.shards
    /\ IF EqualCounts(Content(config))
       THEN pc' = "verify" /\ work' = [work EXCEPT !.root = RootOf(config)]
                           /\ UNCHANGED <<answer, orphans>>
       ELSE pc' = "idle" /\ answer' = "root" /\ Discard
    /\ UNCHANGED <<config, final, remote, calls, faults, damaged>>

VerifyWork ==
    /\ pc = "verify"
    /\ IF Verified(work, RootOf(config))
       THEN pc' = "publish" /\ UNCHANGED <<work, orphans, answer>>
       ELSE pc' = "idle" /\ answer' = "verify" /\ Discard
    /\ UNCHANGED <<config, final, remote, calls, faults, damaged>>

Written == IF Remote THEN "upload" ELSE "check"

Exists == final # NoTree

Rename ==
    /\ pc = "publish"
    /\ ~Exists
    /\ final' = work /\ work' = NoTree
    /\ pc' = Written
    /\ UNCHANGED <<config, orphans, remote, answer, calls, faults, damaged>>

\* The published tree is used if its root is the one this call wrote and its
\* files are what the root says.
Reuse ==
    /\ pc = "publish"
    /\ Exists
    /\ Discard
    /\ IF Verified(final, RootOf(config))
       THEN pc' = Written /\ UNCHANGED answer
       ELSE pc' = "idle" /\ answer' = "conflict"
    /\ UNCHANGED <<config, final, remote, calls, faults, damaged>>

-----------------------------------------------------------------------------
(* HuggingFaceArtifactStore.materialize and the pipeline's verification.   *)

\* One commit that replaces the files it uploads; they may arrive altered.
Alter(tree) ==
    {[tree EXCEPT !.batches[i][j].intact = FALSE] : i \in {1}, j \in {1}}
    \cup {[tree EXCEPT !.shards[1] = <<>>], [tree EXCEPT !.root = <<>>]}

Upload ==
    /\ pc = "upload"
    /\ pc' = "remote"
    /\ \/ remote' = final /\ UNCHANGED faults
       \/ faults < MaxFaults /\ remote' \in Alter(final) /\ faults' = faults + 1
    /\ UNCHANGED <<config, work, orphans, final, answer, calls, damaged>>

\* A variant of UploadMatches: only the uploaded root manifest is read back.
UploadMatchesRoot(tree, root) == tree.root = root

\* _verify_remote_build reads back every file that the root pins.
UploadMatches(tree, root) == ChainMatches(tree, root)

VerifyRemote ==
    /\ pc = "remote"
    /\ IF UploadMatches(remote, RootOf(config))
       THEN pc' = "check" /\ UNCHANGED answer
       ELSE pc' = "idle" /\ answer' = "remote"
    /\ UNCHANGED <<config, work, orphans, final, remote, calls, faults, damaged>>

\* storage.verify: the pipeline's VERIFYING stage, after materialize returned.
VerifyPublished ==
    /\ pc = "check"
    /\ pc' = "idle"
    /\ answer' = IF Verified(final, RootOf(config)) THEN "ok" ELSE "verify"
    /\ UNCHANGED <<config, work, orphans, final, remote, calls, faults, damaged>>

-----------------------------------------------------------------------------
(* What goes wrong.                                                        *)

\* A write, a rename or a request raises.
Fails ==
    /\ pc \in {"write", "verify", "publish", "upload", "remote"} /\ faults < MaxFaults
    /\ pc' = "idle" /\ answer' = "fault" /\ faults' = faults + 1
    /\ IF pc \in {"upload", "remote"} THEN UNCHANGED <<work, orphans>> ELSE Discard
    /\ UNCHANGED <<config, final, remote, calls, damaged>>

\* Temporary trees of a process that died are never looked for again.
Crash ==
    /\ pc # "idle" /\ faults < MaxFaults
    /\ pc' = "idle" /\ answer' = "none" /\ faults' = faults + 1
    /\ orphans' = IF pc \in {"write", "verify", "publish"} THEN orphans + 1 ELSE orphans
    /\ work' = NoTree
    /\ UNCHANGED <<config, final, remote, calls, damaged>>

\* A file on disk changes under the program.
Damage ==
    /\ faults < MaxFaults
    /\ faults' = faults + 1
    /\ damaged' = TRUE
    /\ \/ final # NoTree /\ final.shards # <<>> /\ final' \in Alter(final) /\ UNCHANGED work
       \/ work.shards # <<>> /\ work' \in Alter(work) /\ UNCHANGED final
    /\ UNCHANGED <<pc, config, orphans, remote, answer, calls>>

Next == \/ \E c \in Configs : Call(c)
        \/ WriteShard \/ WriteRoot \/ VerifyWork \/ Rename \/ Reuse
        \/ Upload \/ VerifyRemote \/ VerifyPublished
        \/ Fails \/ Crash \/ Damage

Spec == Init /\ [][Next]_vars

-----------------------------------------------------------------------------
\* When the pipeline goes on with a tree, this machine holds all of it, intact,
\* with each sample once, and so does the remote repository: whatever was
\* damaged, was there before, or was interrupted on the way.
AnswersAreWhole ==
    [][pc = "check" /\ pc' = "idle" /\ answer' = "ok"
         => final' = Whole(config) /\ (Remote => remote' = Whole(config))]_vars

\* Every configuration deals each sample to one shard and puts it into one batch,
\* all batches of a shard but the last being full.
LayoutIsExact ==
    /\ DealsRoundRobin(config.samples, config.shards)
    /\ \A i \in 0 .. config.shards - 1 :
         CutsIntoBatches(ShardSize(config.samples, config.shards, i), config.size)

\* The checks that come before the first file refuse a configuration only if some
\* shard would be empty or, by the rule of the V1 profile, shards would have
\* different numbers of batches.  The root manifest refuses such shards of every
\* other profile, although no profile rule does; a tree is refused only if a file
\* was damaged, a transfer failed, or another configuration came first.
Samples(i) == Cardinality({n \in 0 .. config.samples - 1 : n % config.shards = i})
Batches(i) == Cardinality({n \in 0 .. Samples(i) - 1 : n % config.size = 0})
Uneven == \E i, j \in 0 .. config.shards - 1 : Batches(i) # Batches(j)
RefusalHasCause ==
    /\ answer = "layout" => \/ \E i \in 0 .. config.shards - 1 : Samples(i) = 0
                            \/ config.profile = V1 /\ Uneven
    /\ answer = "root" => config.profile # V1 /\ Uneven
    /\ answer = "verify" => damaged
    /\ answer = "remote" => faults > 0
    /\ answer = "conflict" => damaged \/ final.root # RootOf(config)
=============================================================================
