# Dataset Manager: a TLA+ verification project

The repository's service (`src/src/dataset_manager/`) builds versioned datasets.
A management Backend submits build requests over HTTP. A bounded FIFO feeds one
worker thread, which downloads and prepares a source, publishes an immutable
artifact tree and waits for the Backend to acknowledge the registration. The
Backend may later deprecate and purge the build. Every change of a build is a
durable metadata record, in a local store or in a Hugging Face dataset
repository, and a restarted process continues from those records.

This directory models that service, checks it with TLC and proves its safety with TLAPS:
every invariant and action property of the runs that are expected to pass, and both
refinements, under the hypotheses that section 5 names. Paths below are relative to the
repository root, which is the directory `src/`: the package is `src/src/dataset_manager/`.

## 1. Inventory

| Component | State | Operations | What makes it correct |
|---|---|---|---|
| Dataset service, `service.py:417-899` | `_records`, `_idempotency`, `_queue`, `_active`, `_closed` under one Condition; a worker thread | `submit`, `rebuild`, `acknowledge_registration`, `deprecate`, `purge`, `artifact`, `status`, `health`, `_run`, `_update`, `_load`, `close` | answers are durable; one build per key; FIFO and its bound; no build forgotten; nothing readable is removed |
| Build pipeline, `service.py:196-265` | the workspace `temp_dir/<build>` | stages in order, with a callback before each | stages in order; the tree is published before the record says so |
| Local artifact store, `storage.py:78-427` | trees, records as files, a temporary tree | `materialize` (rename), `load`, `verify`, `purge` (rmtree), `persist_record` (replace), `load_records` | publication is atomic, a purge removes only what it names |
| Hugging Face store, `storage.py:430-816` | remote folders and records, a local read-through cache with a lock | the same, one commit each; cached reads | a call that raised may have happened; the cache must not outlive the remote tree |
| Source download, `service.py:267-415` | part files of one archive | parallel byte ranges, checks of size, ETag and MD5 | the ranges cover the archive once |
| Partitioner, batch builder, profile | none | round-robin shards, full batches and a tail, equal counts | no sample lost or doubled, no empty shard |
| Manifest and hashing | none | canonical JSON, SHA-256 chain | the root hash pins every file |
| Importer, preprocessing | counts and offsets of five files | samples by global index, normalization | every position of a selection is filled by the record it asks for |
| HTTP application, `app.py` | a thread pool | routes to the service; `FileResponse` opens a path after `artifact` returned it | a late opening finds the file it was admitted to, or none |
| Configuration, entry point | none | validated settings | - |
| Backend (external) | its catalog | polls, acknowledges, deprecates, purges | tolerates repeated and reordered calls |

How they interact:

* HTTP handlers run on a pool of threads and call the service; each call takes
  the Condition for one or two regions. `acknowledge_registration` and `purge`
  leave the lock to touch the file system and, in the case of `purge`, take it
  again afterwards.
* The worker takes the Condition to pop a build, in each stage callback, to
  publish and to record a failure; the stages themselves run without it.
* Every region writes the record through the store *while holding the lock and
  after changing memory*: when the write raises, memory is ahead of the disk.
* The constructor reads every record, fails interrupted builds, queues pending
  ones by `created_at`, and completes interrupted purges, before anyone else runs.

The hard behaviours are therefore: a handler between two regions while the
worker or another handler runs; a write that fails after memory changed; a remote
write that raised but took effect; a crash between any two effects; recovery of a
half-removed tree; readers in a cache that a purge empties without its lock; range
requests of one archive that fail one by one; repeated and late requests of the Backend.
`PROJECT.json` lists them under `hazards`, each at its line.

## 2. Modules

| Module | What it is |
|---|---|
| `DatasetService` | the service, worker, pipeline control, both stores as the service sees them, crashes, restarts, failing calls; its properties |
| `BuildLifecycle` | the abstract promise: the phase of a build, what was announced, what is available |
| `DatasetServiceRefinement` | the mapping from the service's durable state to the lifecycle |
| `DocumentedClaims` | three statements of documents and comments that the service does not keep |
| `MCDatasetService` | instances of the service for TLC |
| `RangeArithmetic`, `RangeDownload` | the byte ranges, and `_download` with its pool of range tasks, cached copies and a server whose archive may change |
| `SampleReads` | the importer's source and the preprocessor's view of it: which record fills which position of a selection |
| `BatchLayout`, `Materialization` | the deal into shards and the cut into batches; writing, verifying, publishing, uploading and finding again the tree of one build id, on both stores |
| `ArtifactReads` | `artifact` and the late opening of its file, both stores' `load`, `resolve_artifact` and `purge`, the cache and its lock |
| `RecordStore`, `RecordContract` | `persist_record`, `load_records` and the legacy rewrite of `_load`, with torn files, crashes and power failures; the contract they keep |
| `Registration` | the Backend beside `BuildLifecycle`, over a network that loses, delays and repeats |
| `DatasetServiceProofs`, `RangeDownloadProofs`, `MaterializationProofs`, `SampleReadsProofs`, `ArtifactReadsProofs`, `RecordStoreProofs`, `RegistrationProofs` | theorems and proofs about the module each is named after; the first also about `DatasetServiceRefinement`, the last also about `BuildLifecycle` |
| `DataLemmas` | facts about quotients, natural numbers and concatenated sequences that these proofs share |

How the modules compose. `DatasetService` is the whole process and sees each stage, store
call and record write by its outcomes. The other modules open these boxes one at a time:

* `RecordStore` refines `RecordContract`, whose two steps, *a persist takes effect* and *a
  persist returns*, are what `Saved` and `NotSaved` of `DatasetService` assume.
* `Materialization` shows what a stage that reached VERIFYING has put into the stores, which
  `DatasetService` calls a `complete` tree. `BatchLayout` is its pure part, and
  `SampleReads` is the `take` that fills a batch.
* `ArtifactReads` takes the states of one build and the gate of `artifact` and adds the file
  accesses that happen outside the service's lock.
* `DatasetService` implements `BuildLifecycle`, and `Registration` runs the Backend against
  `BuildLifecycle`: what it shows holds of the service as long as that refinement does, that
  is without failing writes (section 6).

### State of `DatasetService`

| Variable | Code |
|---|---|
| `memory`, `idempotency`, `queue`, `active`, `closed` | `_records`, `_idempotency`, `_queue`, `_active`, `_closed` |
| `worker` | the program counter of `_run` and the pipeline: `loop` and `wait` (the condition loop), `mkdir`, `update` (a stage callback), `work` (the stage), `publish`, `except`, `finally`; `dying` and `dead` after an exception that nothing catches; `stopped` after `close()` |
| `handler` | for each pool thread, the part of `acknowledge_registration` or `purge` after its first region: `store`, `remove` (`storage.purge`), `clean`, `rmtree`, `clear` (`_cleanup_raw`), `finish` (the second region of `purge`) |
| `boot` | the constructor's `_load`: `down`, `loading`, the four steps of a recovered purge, `serving` |
| `durable` | what `load_records` would return |
| `tree`, `workspace` | the published tree and the raw workspace of a build |
| `submitted`, `answered`, `crashes`, `faults` | history and bounds, not in the code |

One action is one region under the Condition, or one effect outside it. Calls
that are one region long (`submit`, `deprecate` and all repeated calls) occupy no
handler thread. A refused call (409, 404, 429) changes nothing and is the absence
of a step. `Saved` and `NotSaved` are the two outcomes of `_persist`; with them
an action is the whole region, whose early assignments stay when the write raises.

A build is numbered by its submission. The number stands for the uuid and for
`created_at`, and the hash of the manifest that pins build *b* is written *b*.
`rebuild` is a submission whose request is derived from another record.

### Abstractions, and what they assume

* `created_at` increases with every submission (a clock that does not go back).
* SHA-256 is injective; a manifest pins its build id, so hashes of two builds differ.
* A crash is the end of the process, not of the machine: what a returned system
  call wrote stays. `temp_dir` may or may not survive it.
* What a stage computes is left out: before publication a stage may raise at any
  time, after it only when a storage call fails.
* The local `rmtree` is seen at four points (`complete`, `damaged`, `headless`,
  `absent`) because recovery can tell these apart: whether the root manifest is
  still there and whether the tree verifies.
* A remote call that deletes or uploads is one commit; it may raise before or
  after it. The local store's replacement of a record is atomic.
* Records of an older schema, and record files that cannot be read, are the subject of
  `RecordStore`, not of this module; `health`, `status` and `artifact` change no state here.

### Correspondence of actions

| Action | Code |
|---|---|
| `SubmitNew`, `SubmitReplay`, `Rebuild` | `service.py:497-565` |
| `Acknowledge`, `AcknowledgeReplay` | `service.py:578-612` |
| `Deprecate`, `DeprecateReplay` | `service.py:614-626` |
| `PurgeStart`, `PurgeReplay`, `PurgeFinish` | `service.py:628-655` |
| `PurgeStore`, `PurgeRemove` | `storage.py:251-263` (local), `storage.py:646-696` (remote) |
| `CleanCheck`, `RemoveWorkspace`, `ClearRaw` | `service.py:840-852` |
| `WorkerIdle`, `WorkerPop`, `WorkerPublish`, `WorkerExcept`, `WorkerFinally` | `service.py:705-767` |
| `WorkerMkdir`, `WorkerUpdate`, `WorkerStage`, `WorkerStageRaises` | `service.py:203-265`, `service.py:769-780`, `storage.py:132-199`, `storage.py:483-504` |
| `Restart`, `FailInterrupted`, `EnqueueNext`, `RecoverDeleting`, `RecoverRemove`, `RecoverClean`, `RecoverClear`, `RecoverFinish`, `StartFails` | `service.py:782-833` and the stores |
| `Serve`, `Close`, `Exit`, `Crash` | `service.py:453-471` and the end of the process |

### The other modules

`RangeDownload`. `pc` is the calling thread in `_download`, `part` the tasks of the pool with
their part files, `dest` the destination, `pinned` the ETag of the HEAD answer, `server` what
the server offers. An archive is a sequence of cells `<<version, offset>>`, so that order,
gaps, doubles and a mixture of two archives are all visible. `RangeAnswered` ends where the
headers were checked, `RangeBody` is the loop that writes, and `Join` is the end of the
pool's `with`, which waits for every task before the `finally` removes the part files.

`SampleReads`. `bytes` are the sizes of the files, `counts` and `Offsets` those of the code,
`samples` the arrays of `np.empty`: a position holds `Garbage` until a file fills it.

`BatchLayout`, `Materialization`. A digest is the value it is the digest of, so a tree matches
its root exactly when every file is what the chain of manifests names. `work` is the
temporary tree, `final` the published one, `remote` the upload. A second call for the same
build id meets what the first left. `Fails` and `Crash` are the `except` clause and the end
of the process; `Damage` is a disk that changes a file. `Discard` may leave the temporary tree,
as `rmtree` with `ignore_errors` does; `orphans` counts what is left, and nothing reads it.

`ArtifactReads`. `cache` is the build's local directory, at once the cache of the Hugging Face
store and the only tree of the local one. A reader is a request: `Begin` is the gate under the
service's lock, `Acquire` to `Write` are `load` and `resolve_artifact` under `_cache_lock`,
`Parse` is `json.loads` on a path that was already returned, `Open` is `FileResponse`. For a
batch the shard manifest is resolved again inside the lock, as the recursive
`_resolve_artifact_locked` does. `PurgeFile` removes file by file, without the lock, and on the
Hugging Face store may leave one without saying so (`kept`). `BeginPurge` is the command,
which is accepted once; a purge that stopped half-way is taken up again by `Restart` only.

`RecordStore`. `disk` is what the process reads, `stable` what survives a power failure,
`remote` the branch. A record is its version and its schema. `Open` and `Replace` are the two
halves of `persist_record`; `Start` to `Serve` are `load_records` and `_load`. A start may find
records it cannot use: a `torn` one, which a local start skips and a start on a branch ends at
(`LoadUnreadable`), and a `foreign` one, of a later schema version or without a key, which
`deserialize_durable_record` raises for on both stores (`Refuse`), when legacy ones that
come before it have been rewritten already.

`Registration`. Requests and answers are sets of messages under way: `Receive` may leave a
request there, to be delivered again. `catalog` and `told` are the Backend's; they stand for
the client of the documents (external), which repeats a request until it was answered.
`SendStray` is any other client of the interface, whose ACKs carry another id or another hash;
`ReceiveAck` compares both as the code does, and an answer names the request it belongs to.

## 3. Properties

| Property | What it says | What could break it |
|---|---|---|
| `VisibleIsComplete` | a build that readers are admitted to has its whole tree and that tree's hash | a purge racing a build or a recovery, a record published early |
| `AnswersAreDurable` | while no write failed, the durable record carries what any caller was told, for ever | answering before persisting, recovery that forgets |
| `OneBuildPerKey`, `OneRegistration` | idempotency across restarts | tables rebuilt wrongly, replays matched loosely |
| `QueueIsFIFO`, `QueueIsBounded` | order and bound across restarts; only after one is the capacity exceeded, by the build that was in the worker's hands, and never by two, also when a third build is submitted then | requeueing order, a check after the append |
| `NothingStranded` | a serving process holds every pending or running build in its queue or worker | recovery that skips a build, a failed submission |
| `WorkspaceIsOwned`, `DeletedIsGone` | a local workspace is always named by a durable record; a deletion removes the tree that the record names, and touches no other | directories created before they are recorded, purges reported early |
| `DurableFollowsLifecycle`, `IdentityIsFrozen` | the durable state moves along one edge of the lifecycle at a time; key, request, hash, registration and purge command never change | stages out of order, a handler overwriting another's result |
| `BuildsSettle`, `RecoveryCompletesPurges` | liveness, until a write or storage call fails: every pending build ends up published or failed; an interrupted purge is completed by a restart | a lost wake-up, a recovery that skips |
| `ImplementsLifecycle` | refinement of `BuildLifecycle` | any of the above that a caller could observe |
| `PartsTileTheArchive`, `DownloadIsWhole` | each byte in exactly one range; a download that returned is the archive, in order | a span rounded down, a short body that counts as success |
| `DownloadIsOneArchive` | with ETags, never parts of two archives | an ETag that is sent and not compared |
| `NoPartLeftBehind`, `DownloadEnds` | nothing left behind by success or failure; it ends | leaving the pool at the first failure, waiting for successes only |
| `ReadsExist`, `IdentityIsIndex` | no read outside a file; each identity stands beside its record | a boundary index taken by two files or none |
| `LayoutIsExact` | each sample in one batch of one shard | a lost tail |
| `AnswersAreWhole` | what is answered for is complete on every store, whatever an earlier call published | trusting manifests or an upload unread |
| `RefusalHasCause` (`Materialization`) | no configuration or tree is refused without a reason; unequal batch counts are one for the profile's check under V1 only, and for the root manifest under every other profile | a profile rule applied to all profiles, a verification stricter than the writer |
| `NothingFetchedTwice`, `ServedIsPinned`, `RefusalHasCause`, `LeftoverHasCause`, `RequestsEnd` (`ArtifactReads`) | one download per missing file; only pinned bytes; a refusal only for a failure, a damaged file or an overlapping purge; what a purge without an overlapping request leaves is what its last attempt could not remove; every request ends | checks outside the lock, unverified hits, a lock kept after an error |
| `KeepsContract`, `ServesMigrated`, `ServesReadable`, `MirrorIsFresh`, `ServesAgain` | refinement of `RecordContract`, so that what was answered is loaded by the next start; no legacy record while serving; no start without a build whose record it could not use; local copies follow the branch; where every record is usable a start succeeds once calls do | answering before the upload, serving after the first migration, skipping a damaged record of the branch, refusing older records, stale local copies |
| `AnsweredIsRegistered`, `ToldIsTrue`, `RegistrationCompletes` | an ACK is answered for the accepted id and the announced hash only, so what the Backend had answered is what is registered; the Backend believes only what has happened; a committed build becomes READY and the Backend learns it, unless another client registered it first | a repeated ACK matched without its id, answering a purge that has only begun, refusing a repeated ACK |

`DeletedIsGone` says what a deletion does, not that nothing remains. A tree whose hash is in
the record is removed: completely on the Hugging Face store, and locally at least so far that
it cannot be loaded, since a removal that lost the root manifest first counts as done. A tree
whose hash never reached the record is not touched and, if it was published, is still whole;
so is a Hugging Face deployment's raw workspace, which the property does not speak of: the
remote record never carries the path, so a workspace that survives a restart there is
removed by nobody. `WorkspaceIsOwned` is stated for the local backend for the same reason.

## 4. Runs

| Run | Configuration | Shows |
|---|---|---|
| `local_crash` | local, 2 builds, capacity 1, 2 handlers, 2 keys, requests and registration ids, 2 crashes | types, durable answers, keys, registrations, workspaces, deletions, lifecycle, refinement |
| `local_faults` | local, 3 builds and keys, capacity 1, 1 handler, 2 failing calls, 1 crash, no registration | order and bound of the queue, deletions under failure |
| `remote_faults` | Hugging Face, 2 builds, 1 handler, 2 purge commands, 1 failing call, 1 crash, fairness | readable trees, identities and the queue where a failed call may have happened; builds settle, purges complete |
| `range_download` | archives of 1, 3 and 5 cells, 1, 2 and 4 connections, one replacement of the archive, fairness | section 3 |
| `sample_reads` | up to 3 files of up to 5 bytes, records of 2 bytes, selections of 2 | section 3 |
| `materialization` | 2, 5 or 6 samples, 2 or 3 shards, batches of 1 or 2, two seeds, V1 and a profile without a rule, two calls, two faults, Hugging Face with the local store inside it, whose upload may arrive altered | section 3 |
| `artifact_reads` | Hugging Face, an empty cache, 2 readers, 2 requests, one failing call, one damaged file, one restart, fairness | section 3 |
| `records` | Hugging Face, 2 builds whose files are absent, legacy, torn or foreign, 2 versions, one failing call, one crash, one power failure, fairness | section 3 |
| `registration` | one build, two registration ids, two hashes, another client, four lost messages, fairness | the Backend's side |
| `purge_stuck`, `startup_fails`, `worker_lost` | the smallest instance of each | section 6 |

The runs of the stores use the Hugging Face backend, whose `materialize`, records and reads
contain those of the local one: the local store is the same module with `Remote = FALSE`. The theorems
of section 5 hold of both, except where one says otherwise.

Why the bounds are enough to meet the interesting cases. Two builds with capacity one are the
fewest for a running build beside a full queue. For the bound of the queue they are not
enough: after a restart both builds may be queued, and no third one is left that a faulty test
of the capacity could admit. `local_faults` therefore has three builds, so that the queue
could come to hold capacity + 2. Two handlers
are needed for the removals of one workspace to overlap. Two crashes allow one during the
recovery from another; one failing call can be placed at every write and storage call of a
behaviour. Two keys and two requests tell reuse from conflict. The bounds are the constants
`MaxBuilds`, `MaxCrashes` and `MaxFaults`, tested in the guards of `SubmitNew`, of
`Close` and `Crash`, and of `Fault`. Symmetry is used for handlers, keys, requests
and ids, which the model only compares, and never with liveness; builds are ordered
and are not symmetric. Deadlock is not checked, because a service that has used
up its bounds, or whose purge ended in a 5xx, legitimately waits for callers. It is checked
for `range_download`, where only a download that returned may stop.

In the other modules the bounds are chosen so that rounding shows: five cells over four
connections leave one connection without a range, three over two give ranges of different
length; five samples over three shards give two shard sizes and, by two, unequal batch counts
or a tail; two calls with two configurations meet a compatible and an incompatible published
tree. Two readers and two requests are the fewest for a reader that waits for a lock while
another fetches; the cache is empty when they begin, as after a new
deployment, and the first request fills it (`Caches` admits other beginnings). Three files of up to two records and two positions put a selection on each side of
every boundary. One crash or power failure meets a start between two legacy records. One build
is enough for `Registration` because no message or guard concerns two.

Fairness. In `RangeDownload` the caller and each task are fair, since every request has a
timeout; in `ArtifactReads` each reader is (requests are bounded, so a waiting
reader is not overtaken for ever), and a purge may stop anywhere; in `RecordStore` the process runs and is restarted; in
`Registration` the Backend repeats its ACK and the answers that arrive are read, while
deprecating and purging is nobody's duty. `FairSpec` of the service assumes that the worker thread, the handler threads and the
constructor are scheduled, that a closed process exits and that a stopped one is
started again. Callers need never call, a crash need never happen, and nothing
is assumed of which outcome a step takes. The operating system and the deployment's
restart policy justify this. `BuildsSettle` and `RecoveryCompletesPurges` promise nothing
once a write or a storage call has failed: after a failing write the worker thread may be gone
for good (`worker_lost`), and after a failing storage call the constructor may raise each time.

## 5. Proofs

`DatasetServiceProofs` proves, for all values of the constants that satisfy
`BoundsAssumption`, `ConfigAssumption` and `NoneAssumption` (natural-number bounds, a
positive capacity, one of two backends, and a null value that is no id):

* `TypeCorrect`: `Spec => []TypeOK`
* `VisibleBuildsAreComplete`: `Spec => []VisibleIsComplete`
* `BuildsRunInOrder`: `Spec => []QueueIsFIFO`
* `NothingIsStranded`: `Spec => []NothingStranded`
* `QueueAlwaysBounded`: `Spec => []QueueIsBounded`

None of the five is inductive. `Invariance` proves `IndInv`, which adds: what the
worker's program counter says of its build (`WorkerInv`), what a handler may rely on
between its regions (`HandlerInv`), that only submitted builds have records
(`PresenceInv`), that nobody else runs while the process starts and that what ended
in the loaded records has durably ended (`BootInv`), and that builds still to be
queued again are younger than the queued ones (`QueueInv`).

The core of the argument is why a removal never hits a tree that is being built or
read. A purge starts from FAILED or DEPRECATED; the states FAILED, DELETING and DELETED
are never left within one process, even when the worker overwrites one of them
with FAILED after a failed publishing write; and the purge reaches the store only
after its DELETING was durable. The worker's build is in progress until it is published,
and it is older than every queued build, so neither is the purged one. During
recovery there is no worker and no handler. `WritePreserves` states once
what every locked region keeps; `HandlerWritePreserves`, `WorkerWritePreserves` and
`RecoveryWritePreserves` specialise it to the three places that write, and each action
has a lemma of its own. The conjuncts of `IndInv` were first checked by TLC on the
small instances of both backends, with failing calls and a crash.

Two more invariants rest on `IndInv`. `HeldInv` adds to `NothingStranded` that the worker
lets go of a build only when it is settled, holds none while it waits, and that what is
pending while the process starts is QUEUED, which is what the constructor queues.
`BoundInv` explains the one build too many: at most one build is durably pending without
being queued, the one the worker took and whose next write did not arrive, and none once
the worker has settled it. So at most capacity + 1 records are durably pending, which is
what a start queues, and submissions are refused until the queue is below its capacity.

The second half of `DatasetServiceProofs` is about what is durable:

* `IdentitiesAreFrozen`, `WorkspacesAreOwned`, `DeletionRemovesTheNamedTree`, with failing writes
* `AnswersStayDurable`, `KeysNameOneBuild`, `BuildsAreRegisteredOnce`: the answers, which
  these properties promise until the first failing write
* `DurableRecordsFollow`, `ServiceImplementsLifecycle`: the lifecycle and the refinement, for
  `MaxFaults = 0`

Its inductive invariant is `DurableInv`, which joins `IndInv` and `HeldInv` to six parts.
`RecordInv`: memory carries the identity that the durable record has, and nothing in progress
in memory has durably ended. `KeyInv`: the key map and the keys of the records are inverse to
each other. `SyncInv`: until a write fails, memory is what is durable, but for the pending
builds that a start has loaded and not yet queued. `ActorsInv`: until a write fails, worker and
handlers rewrite a build only in the state in which they took it in hand, and one handler at a
time purges it. `GoneInv`: a purge reaches the raw workspace only when the tree can no longer
be opened. `OwnedInv`: a local workspace is named in memory and on disk. A seventh invariant rests
on these: `HalfRemovedIsNamed` shows that every removal, of a handler or of recovery, is of a tree
whose hash is durable, so the trees without a hash are absent or whole.

The proof goes by what a step does to the records, and not by who takes it. `Region` says what
all locked regions that write a record have in common: the record written carries the one
in memory, moves along the lifecycle while no write has failed, announces a tree only when it
publishes it, and is DELETED only when the files are gone. One lemma per region shows that it is
a `Region`, every other step leaves the records alone, queues a loaded build or ends or starts the
process (`StepKind`), and each part of the invariant is then shown of these few kinds. A failed write is inside
`Region`, because `Saved` and `NotSaved` are.

The refinement follows: a change of a durable record is one edge of the lifecycle (`Moves`), a
change of a tree is the publication before the announcement or the removal after it
(`TreeMoves`), and no step does both. `MaxFaults = 0` cannot be dropped, since the code breaks
both properties otherwise: memory runs ahead of the disk when a write fails (section 6).

`RangeDownloadProofs`: `PartsAlwaysTile`, for every size and parallelism, from the bounds of a
rounded-up quotient (`Ceiling` of `DataLemmas`) and the fact that multiples of one span do
not interleave (`MultiplesApart`); `NoPartIsLeftBehind` and `DownloadTypeOK` from an
invariant that ties `pc` to the tasks: after `Join` no task runs, so nothing appears after
`Unlink`. `DownloadIsAlwaysWhole` and `DownloadIsAlwaysOneArchive` add that a part of a task that
succeeded holds exactly its range (`PartsHoldTheirRanges`), of the pinned version where the
server sends ETags; `JoinedParts` shows that parts which tile the archive, put one after the
other, are the archive.

`MaterializationProofs`: `LayoutIsAlwaysExact` by the same arithmetic; `AnswersAreAlwaysWhole`
from `ChainPinsTheTree`: a tree that matches the digest of a configuration's root is the tree of
that configuration, whoever wrote or damaged it. `RefusalAlwaysHasCause` rests on `CauseInv`: as
long as nothing was damaged, the temporary tree is a prefix of the tree that its configuration asks
for, and what was published is sound for some configuration. With `SplitJoined` and
`ContentCovers` that tree is shown to be accepted by the code's own verification, so a refusal
leaves only the causes the property names, each of them for its profile.

`SampleReadsProofs`: `ReadsAlwaysExist` and `IdentityIsAlwaysIndex`, for every number and size of
files and every selection. Offsets are the sums of the counts before them (`OffsetsAre`), the
records before a file are as many as its offset (`BeforeCounts`), and the positions whose
index lies below the offset reached so far are filled with the record of that index (`ReadInv`).

`ArtifactReadsProofs`: an invariant of the lock (who looks at the cache in order to fetch
holds it, on the Hugging Face store) gives `NothingIsFetchedTwice`; `ServedIsAlwaysPinned`,
assuming `Remote`, adds that a file about to be opened is what the manifest pins unless its
request is tainted; `LeftoverAlwaysHasCause` adds what a purge has still to visit, and that who
fills the cache was admitted before the purge began. `RefusalAlwaysHasCause` follows
each request from its gate and holds for `Remote \/ MaxDamage = 0`: the local store does not compare a
file with its digest before it serves or parses it, so damage reaches a request unexcused.

`RecordStoreProofs`: `AnsweredAlwaysSurvives` and the refinement `StoresKeepContract`, assuming
`Remote \/ MaxPowerLosses = 0`, because the local store does not survive a power failure
(section 6). The invariant says that what the service knows of a build is never behind what
a start would load, that the record being written is what it knows, and that a persist
which is about to return has taken effect. `AlwaysServesMigrated` and `MirrorIsAlwaysFresh` need no
hypothesis, for the local store and for power failures too: a second invariant (`StartInv`) says that
every legacy or foreign record a start has read is still on its list, that what it has visited of
the branch could be parsed, and that it has copied the branch as far as it got. From it follows
`AlwaysServesReadable`, too.

`RegistrationProofs`: `ReadableBuildsAreAvailable` of the abstract lifecycle;
`AnsweredIsAlwaysRegistered` and `ToldIsAlwaysTrue`, for any number of lost messages and whatever
another client sends. The invariant speaks of the messages: a purge under way is for a build that
failed or whose deprecation the Backend has learnt of; an answered ACK is of a build that was
registered, and its id never changes after that; an answer under way is still true as long as
it can teach the Backend something.

`DataLemmas` holds what the provers do not know by themselves of the data: bounds of rounded-up
quotients, remainders, and `FlattenAt`, what the concatenation of a sequence of sequences holds
at each position. The library's induction theorems take an operator as a parameter, which no
installed prover can instantiate. Induction is therefore done over a *set* of naturals
(`NatSetInduction`, derived from the well-foundedness of `<`), which needs no such parameter;
`JoinsExist` uses it to relate the fold that defines the concatenation to a function of its
prefixes, and the sums of `SampleReadsProofs` are handled in the same way.

Only model-checked: liveness (`BuildsSettle`, `RecoveryCompletesPurges`, `DownloadEnds`,
`RequestsEnd`, `ServesAgain`, `RegistrationCompletes`), which rests on fairness and `ENABLED` and
is out of the prover's reach. The hypotheses `MaxFaults = 0`, `Remote`, `Remote \/ MaxDamage = 0`
and `Remote \/ MaxPowerLosses = 0` of some theorems are not conveniences of the proof: without
them TLC finds behaviours of the code that break the statement.

## 6. Where the code and its documents disagree

Each of these has a run that TLC finds violated, listed under `findings`.

* `purge_stuck`: no failing call is needed. The ACK's cleanup and the purge's cleanup
  remove one workspace, one of them raises, and a purge that raised leaves DELETING, which
  its own retry is refused in until a restart.
* `startup_fails`: a crash in the middle of a local removal may leave a tree that still
  loads and does not verify; the recovery catches only `ValueError`, so every later start
  raises.
* `worker_lost`: the write of the worker's first region, or of its failure region, is caught by
  nobody: the thread ends, later submissions are answered 202, and `health` stays `ok`.

Behaviours that the models contain and no property states, because nothing better holds:

* After a failed publishing write the lock is free before the `except` region
  (`service.py:752-755`); an ACK accepted there is overwritten with FAILED, an edge that the
  design's lifecycle does not have. `DurableFollowsLifecycle` and the refinement are therefore
  stated without failing writes.
* An ACK whose write failed leaves READY in memory (`service.py:589,609`); its repetition is
  answered from memory, and a crash takes the build back to REGISTERING. A submission whose
  write failed stays in the queue without a wake-up, and its repetition is answered although
  a crash would forget it. Hence the `faults = 0` of `AnswersAreDurable`.
* A request that fetched its file before a Hugging Face purge emptied the cache writes it back
  afterwards (`storage.py:694`), and the removal ignores errors (`storage.py:696`): a deleted build
  may keep cached files. `LeftoverHasCause` states these two causes and no other.
* A damaged record on the branch, or a record of a later version in either store, ends every start
  (`storage.py:752`, `service.py:148`), as the tests demand; `ServesAgain` is promised only without
  one. A local record that does not parse is skipped with a warning (`storage.py:286`), and its
  build is then unknown.
* The first ACK with the right manifest hash registers the build, whoever sends it
  (`service.py:600-606`): a Backend that comes second is refused for good.
* `persist_record` does not fsync the directory after `os.replace` (`storage.py:276`), as the
  publication of a tree does: after a power failure a local record may be the old one.
* `ManifestBuilder.root` (`manifest.py:115`) refuses unequal batch counts of every profile, where
  `docs/DATASET_MANAGER_IMPLEMENTATION_PLAN.md:26` says "The V1 profile, not core batching, owns
  three-shard and equal-count constraints." `RefusalHasCause` names this refusal as what it is: one
  that no profile rule asks for (`answer = "root"`). Latent: V1 is the only profile of the
  repository, and the other one of the run stands for those to come.
* A build that is interrupted after its tree was published is purged without its tree, because
  its record has no hash; a crash after the workspace was created and before the first callback
  makes the requeued build fail; the temporary trees of a crashed process are never removed,
  nor is one that a best-effort removal left (`storage.py:423`); without an ETag the parts of two archives of one size
  are accepted, since a fresh download is never compared with the known MD5; the local store
  serves a shard or batch file without comparing it with its digest.

## 7. Not modelled, and the plan

Left out for good:

* the extraction of the archive (`service.py:401-414`): a library call behind checks of names
  and sizes, a stage that succeeds or raises in `DatasetService`;
* the float arithmetic of `Preprocessor.transform`, which works position by position;
* canonical JSON, field names and SHA-256 beyond being injective; the syntax rules of
  artifact paths;
* request validation, error bodies and headers of the HTTP application; the parsing of
  arguments and environment, and the consistency rules of `DatasetManagerConfig` other than the
  ranges that appear as assumptions on constants;
* the smoke scripts, which drive the HTTP interface and hold no logic of the system.

Next. With the safety properties proved, what could still be gained is in the models: the
order and the verification of the local tree at the level of single files in `DatasetService`'s
recovery, the extraction's checks of names and sizes, and the configuration's consistency rules
as assumptions that are derived rather than stated.
