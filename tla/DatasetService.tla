--------------------------- MODULE DatasetService ---------------------------
(***************************************************************************)
(* The build service of dataset_manager/service.py: a bounded FIFO of      *)
(* dataset builds, one worker thread that runs them, the HTTP handlers     *)
(* that submit, acknowledge, deprecate and purge them, the metadata record *)
(* each of these persists, and the reload of the records when the process  *)
(* starts again.                                                           *)
(*                                                                         *)
(* One action is one region of code that runs under the service's          *)
(* Condition, or one effect on the file system between two such regions.   *)
(* A build is numbered by its submission, so its number stands for the     *)
(* uuid and for the order of created_at; the hash of the manifest that     *)
(* pins build b is written b.                                              *)
(***************************************************************************)
EXTENDS Naturals, Sequences

CONSTANTS
    MaxBuilds,      \* bound: submissions in one behaviour
    Keys,           \* values of the Idempotency-Key header
    Requests,       \* build requests, compared by fingerprint
    RegIds,         \* registration ids the Backend may send
    Commands,       \* purge command ids
    Handlers,       \* threads of the HTTP server's pool
    Backend,        \* config.storage_backend
    QueueCapacity,  \* config.queue_capacity
    MaxCrashes,     \* bound: crashes and shutdowns of the process
    MaxFaults,      \* bound: failing writes and storage calls
    None            \* an optional field that is not set

ASSUME BoundsAssumption == /\ MaxBuilds \in Nat \ {0}
                           /\ MaxCrashes \in Nat
                           /\ MaxFaults \in Nat
ASSUME ConfigAssumption == /\ QueueCapacity \in Nat \ {0}
                           /\ Backend \in {"local", "huggingface"}
ASSUME NoneAssumption == None \notin Keys \cup Requests \cup RegIds \cup Commands

Builds == 1 .. MaxBuilds
NoBuild == 0
Remote == Backend = "huggingface"

Pending == {"CREATED", "QUEUED"}
Active == {"IMPORTING", "VALIDATING", "PREPROCESSING", "MATERIALIZING", "VERIFYING"}
Visible == {"REGISTERING", "READY", "DEPRECATED"}
Ended == {"FAILED", "DELETING", "DELETED"}
States == Pending \cup Active \cup Visible \cup Ended

\* Variants of NextStage that the properties must tell from it: a pipeline that
\* does not materialize, and one that sets a state the enumeration lacks.
NextStageSkipping ==
    [CREATED |-> "IMPORTING", QUEUED |-> "IMPORTING", IMPORTING |-> "VALIDATING",
     VALIDATING |-> "PREPROCESSING", PREPROCESSING |-> "VERIFYING"]
NextStageMisnamed ==
    [CREATED |-> "IMPORTING", QUEUED |-> "IMPORTING", IMPORTING |-> "VALIDATING",
     VALIDATING |-> "PREPROCESSING", PREPROCESSING |-> "MATERIALIZED"]

\* The state each call of the pipeline's update callback moves a build to.
NextStage ==
    [CREATED |-> "IMPORTING", QUEUED |-> "IMPORTING", IMPORTING |-> "VALIDATING",
     VALIDATING |-> "PREPROCESSING", PREPROCESSING |-> "MATERIALIZING",
     MATERIALIZING |-> "VERIFYING"]

Record == [state : States \cup {"ABSENT"}, key : Keys \cup {None},
           request : Requests \cup {None}, hash : Builds \cup {NoBuild},
           raw : BOOLEAN, reg : RegIds \cup {None}, cmd : Commands \cup {None}]
NoRecord == [state |-> "ABSENT", key |-> None, request |-> None, hash |-> NoBuild,
             raw |-> FALSE, reg |-> None, cmd |-> None]

\* Successful answers of the calls that promise something to their caller.
Answers ==
    [op : {"submit"}, build : Builds, key : Keys, request : Requests]
    \cup [op : {"ack"}, build : Builds, hash : Builds, reg : RegIds]
    \cup [op : {"deprecate"}, build : Builds]
    \cup [op : {"purge"}, build : Builds, cmd : Commands]

WorkerPcs == {"none", "loop", "wait", "mkdir", "update", "work", "publish",
              "except", "finally", "dying", "dead", "stopped"}
BootPcs == {"down", "loading", "removing", "cleaning", "clearing", "finishing", "serving"}
HandlerPcs == {"idle", "store", "remove", "clean", "rmtree", "clear", "finish"}
HandlerStates == [pc : HandlerPcs, op : {"none", "ack", "purge"}, build : Builds \cup {NoBuild}]
Idle == [pc |-> "idle", op |-> "none", build |-> NoBuild]

\* A published tree: "damaged" still has its root manifest but lost other
\* files, "headless" lost the root manifest first.
Trees == {"absent", "complete", "damaged", "headless"}

VARIABLES
    memory,         \* _records: the record of each build
    idempotency,    \* _idempotency: key to build
    queue,          \* _queue
    active,         \* _active
    closed,         \* _closed
    worker,         \* where the worker thread is
    handler,        \* what each handler thread is executing
    boot,           \* progress of the constructor's _load
    durable,        \* the records the store would return from load_records
    tree,           \* the published artifact tree of each build
    workspace,      \* whether temp_dir/<build> exists
    submitted,      \* number of builds submitted so far
    answered,       \* history: successful answers sent to callers
    crashes,        \* crashes and shutdowns so far
    faults          \* failed writes and storage calls so far

process == <<memory, idempotency, queue, active, closed, worker, handler, boot>>
disk == <<durable, tree, workspace>>
vars == <<memory, idempotency, queue, active, closed, worker, handler, boot,
          durable, tree, workspace, submitted, answered, crashes, faults>>

Serving == boot.pc = "serving"
Queued == {queue[i] : i \in 1 .. Len(queue)}

Init ==
    /\ memory = [b \in Builds |-> NoRecord]
    /\ idempotency = [k \in Keys |-> NoBuild]
    /\ queue = <<>>
    /\ active = NoBuild
    /\ closed = FALSE
    /\ worker = "none"
    /\ handler = [h \in Handlers |-> Idle]
    /\ boot = [pc |-> "down", build |-> NoBuild]
    /\ durable = [b \in Builds |-> NoRecord]
    /\ tree = [b \in Builds |-> "absent"]
    /\ workspace = [b \in Builds |-> FALSE]
    /\ submitted = 0
    /\ answered = {}
    /\ crashes = 0
    /\ faults = 0

-----------------------------------------------------------------------------
(* Variants of the helpers below: plausible slips that the properties must *)
(* tell from the code. No action uses them.                                *)

SerializeWithoutHash(rec) == [rec EXCEPT !.hash = NoBuild]
SerializeWithoutReg(rec) == [rec EXCEPT !.reg = None]
NotNotified == worker
QueueFullExactly == Len(queue) = QueueCapacity
MatchesHashOnly(rec, hash, reg) == rec.hash = hash
MayPurgeAgain(rec, cmd) == rec.state \in {"DEPRECATED", "FAILED"}
FirstPurgeStepCleans(rec) == "clean"
PoppedUntracked(rec) == rec
NoLoadedKeys == [k \in Keys |-> NoBuild]
UnqueuedIfQueued == {b \in Builds : durable[b].state = "QUEUED" /\ b \notin Queued}
YoungestFirst(S, b) == \A c \in S : c <= b
DeletingWithTree == {b \in Builds : memory[b].state = "DELETING" /\ memory[b].hash # NoBuild}

-----------------------------------------------------------------------------
(* Persisting a record                                                     *)

\* The remote store is never sent the path of the raw workspace.
Serialize(rec) == [rec EXCEPT !.raw = rec.raw /\ ~Remote]

Fault == faults < MaxFaults /\ faults' = faults + 1

\* _persist returns: the store holds the record.
Saved(b, rec) ==
    /\ durable' = [durable EXCEPT ![b] = Serialize(rec)]
    /\ UNCHANGED faults

\* _persist raises. The local store replaces the file last, so nothing was
\* written; an upload may have been committed although its call failed.
NotSaved(b, rec) ==
    /\ Fault
    /\ \/ UNCHANGED durable
       \/ Remote /\ durable' = [durable EXCEPT ![b] = Serialize(rec)]

Remember(b, rec) == memory' = [memory EXCEPT ![b] = rec]
Answer(a) == answered' = answered \cup {a}

\* The condition's notify: only the worker ever waits on it.
Notified == IF worker = "wait" THEN "loop" ELSE worker

-----------------------------------------------------------------------------
(* HTTP handlers                                                           *)

QueueFull == Len(queue) >= QueueCapacity

SubmitAnswer(b, k, r) == [op |-> "submit", build |-> b, key |-> k, request |-> r]
AckAnswer(b, hash, reg) == [op |-> "ack", build |-> b, hash |-> hash, reg |-> reg]

\* submit() of a key not seen before: the build, its key and its place in
\* the queue are recorded before the write that may fail; the worker is
\* notified only after it.
SubmitNew(k, r) ==
    LET b == submitted + 1
        waiting == active # NoBuild \/ queue # <<>>
        rec == [NoRecord EXCEPT !.state = IF waiting THEN "QUEUED" ELSE "CREATED",
                                !.key = k, !.request = r]
    IN  /\ Serving
        /\ idempotency[k] = NoBuild
        /\ ~QueueFull
        /\ submitted < MaxBuilds
        /\ submitted' = b
        /\ Remember(b, rec)
        /\ idempotency' = [idempotency EXCEPT ![k] = b]
        /\ queue' = Append(queue, b)
        /\ \/ Saved(b, rec) /\ worker' = Notified /\ Answer(SubmitAnswer(b, k, r))
           \/ NotSaved(b, rec) /\ UNCHANGED <<worker, answered>>
        /\ UNCHANGED <<active, closed, handler, boot, tree, workspace, crashes>>

\* submit() of a key seen before: answered from memory when the request has
\* the same fingerprint, refused otherwise.
SubmitReplay(k, r) ==
    LET b == idempotency[k]
    IN  /\ Serving
        /\ b # NoBuild
        /\ memory[b].request = r
        /\ Answer(SubmitAnswer(b, k, r))
        /\ UNCHANGED <<process, disk, submitted, crashes, faults>>

Submit(k, r) == SubmitNew(k, r) \/ SubmitReplay(k, r)

\* rebuild() of an existing build is a submission of its own, whose request
\* is the source's with overrides.
Rebuild(source, k, r) == memory[source].state # "ABSENT" /\ Submit(k, r)

\* acknowledge_registration() under the lock, for a REGISTERING build.
Acknowledge(h, b, hash, reg) ==
    LET rec == [memory[b] EXCEPT !.state = "READY", !.reg = reg]
    IN  /\ Serving
        /\ handler[h] = Idle
        /\ memory[b].state = "REGISTERING"
        /\ memory[b].hash = hash
        /\ Remember(b, rec)
        /\ \/ /\ Saved(b, rec)
              /\ handler' = [handler EXCEPT ![h] = [pc |-> "clean", op |-> "ack", build |-> b]]
           \/ NotSaved(b, rec) /\ UNCHANGED handler
        /\ UNCHANGED <<idempotency, queue, active, closed, worker, boot, tree, workspace,
                       submitted, answered, crashes>>

\* acknowledge_registration() of a READY build: a matching ACK is answered
\* from memory, any other is refused.
Matches(rec, hash, reg) == rec.hash = hash /\ rec.reg = reg

AcknowledgeReplay(b, hash, reg) ==
    /\ Serving
    /\ memory[b].state = "READY"
    /\ Matches(memory[b], hash, reg)
    /\ Answer(AckAnswer(b, hash, reg))
    /\ UNCHANGED <<process, disk, submitted, crashes, faults>>

\* deprecate(), first call and repeated call.
Deprecate(b) ==
    LET rec == [memory[b] EXCEPT !.state = "DEPRECATED"]
    IN  /\ Serving
        /\ memory[b].state = "READY"
        /\ Remember(b, rec)
        /\ \/ Saved(b, rec) /\ Answer([op |-> "deprecate", build |-> b])
           \/ NotSaved(b, rec) /\ UNCHANGED answered
        /\ UNCHANGED <<idempotency, queue, active, closed, worker, handler, boot, tree,
                       workspace, submitted, crashes>>

DeprecateReplay(b) ==
    /\ Serving
    /\ memory[b].state = "DEPRECATED"
    /\ Answer([op |-> "deprecate", build |-> b])
    /\ UNCHANGED <<process, disk, submitted, crashes, faults>>

\* purge() up to the release of the lock: DELETING and the command are
\* persisted; the artifacts are removed only when a manifest hash is known.
MayPurge(rec, cmd) == rec.cmd \in {None, cmd} /\ rec.state \in {"DEPRECATED", "FAILED"}
FirstPurgeStep(rec) == IF rec.hash = NoBuild THEN "clean" ELSE "store"

PurgeStart(h, b, cmd) ==
    LET rec == [memory[b] EXCEPT !.state = "DELETING", !.cmd = cmd]
        next == FirstPurgeStep(memory[b])
    IN  /\ Serving
        /\ handler[h] = Idle
        /\ MayPurge(memory[b], cmd)
        /\ Remember(b, rec)
        /\ \/ /\ Saved(b, rec)
              /\ handler' = [handler EXCEPT ![h] = [pc |-> next, op |-> "purge", build |-> b]]
           \/ NotSaved(b, rec) /\ UNCHANGED handler
        /\ UNCHANGED <<idempotency, queue, active, closed, worker, boot, tree, workspace,
                       submitted, answered, crashes>>

PurgeReplay(b, cmd) ==
    /\ Serving
    /\ memory[b].state = "DELETED"
    /\ memory[b].cmd = cmd
    /\ Answer([op |-> "purge", build |-> b, cmd |-> cmd])
    /\ UNCHANGED <<process, disk, submitted, crashes, faults>>

-----------------------------------------------------------------------------
(* The steps of a handler outside the lock, and the regions after them     *)

At(h, pc) == Serving /\ handler[h].pc = pc
MoveTo(h, pc) == handler' = [handler EXCEPT ![h].pc = pc]
Return(h) == handler' = [handler EXCEPT ![h] = Idle]    \* with an answer or a 5xx
Untouched == UNCHANGED <<idempotency, queue, active, closed, worker, boot, submitted, crashes>>

\* rmtree removes files in an order of its own: the root manifest may go
\* before or after the last of the others.
Removing(t) ==
    CASE t = "complete" -> {"damaged", "headless", "absent"}
      [] t = "damaged" -> {"headless", "absent"}
      [] OTHER -> {"absent"}

\* storage.purge() on behalf of purge(). The local store verifies the whole
\* tree, then removes it file by file; the remote one deletes its folder in
\* one commit. An error leaves the build DELETING.
PurgeStore(h) ==
    LET b == handler[h].build
    IN  /\ At(h, "store")
        /\ \/ /\ Remote
              /\ tree' = [tree EXCEPT ![b] = "absent"]
              /\ MoveTo(h, "clean")
              /\ UNCHANGED faults
           \/ ~Remote /\ tree[b] = "complete" /\ MoveTo(h, "remove") /\ UNCHANGED <<tree, faults>>
           \/ ~Remote /\ tree[b] # "complete" /\ Return(h) /\ UNCHANGED <<tree, faults>>
           \/ Fault /\ Return(h) /\ UNCHANGED tree
           \/ Remote /\ Fault /\ Return(h) /\ tree' = [tree EXCEPT ![b] = "absent"]
        /\ Untouched
        /\ UNCHANGED <<memory, durable, workspace, answered>>

\* A directory that is already gone makes rmtree raise, as any failing call does.
PurgeRemove(h) ==
    LET b == handler[h].build
    IN  /\ At(h, "remove")
        /\ \/ /\ tree[b] # "absent"
              /\ \E t \in Removing(tree[b]) :
                    /\ tree' = [tree EXCEPT ![b] = t]
                    /\ IF t = "absent" THEN MoveTo(h, "clean") ELSE UNCHANGED handler
              /\ UNCHANGED faults
           \/ Return(h) /\ UNCHANGED tree /\ (Fault \/ (tree[b] = "absent" /\ UNCHANGED faults))
        /\ Untouched
        /\ UNCHANGED <<memory, durable, workspace, answered>>

\* _cleanup_raw() is done: an ACK answers, a purge goes on.
Cleaned(h) ==
    LET b == handler[h].build
    IN  \/ handler[h].op = "ack" /\ Return(h) /\ Answer(AckAnswer(b, memory[b].hash, memory[b].reg))
        \/ handler[h].op = "purge" /\ MoveTo(h, "finish") /\ UNCHANGED answered

\* _cleanup_raw() reads the record and tests the path without the lock.
CleanCheck(h) ==
    LET b == handler[h].build
    IN  /\ At(h, "clean")
        /\ \/ ~memory[b].raw /\ Cleaned(h)
           \/ memory[b].raw /\ workspace[b] /\ MoveTo(h, "rmtree") /\ UNCHANGED answered
           \/ memory[b].raw /\ ~workspace[b] /\ MoveTo(h, "clear") /\ UNCHANGED answered
        /\ Untouched
        /\ UNCHANGED <<memory, disk, faults>>

\* rmtree of a workspace that another handler removed meanwhile raises.
RemoveWorkspace(h) ==
    LET b == handler[h].build
    IN  /\ At(h, "rmtree")
        /\ \/ workspace[b] /\ workspace' = [workspace EXCEPT ![b] = FALSE]
                           /\ MoveTo(h, "clear") /\ UNCHANGED faults
           \/ ~workspace[b] /\ Return(h) /\ UNCHANGED <<workspace, faults>>
           \/ Fault /\ Return(h) /\ UNCHANGED workspace
        /\ Untouched
        /\ UNCHANGED <<memory, durable, tree, answered>>

\* The locked end of _cleanup_raw().
ClearRaw(h) ==
    LET b == handler[h].build
        rec == [memory[b] EXCEPT !.raw = FALSE]
    IN  /\ At(h, "clear")
        /\ \/ ~memory[b].raw /\ Cleaned(h) /\ UNCHANGED <<memory, durable, faults>>
           \/ memory[b].raw /\ Remember(b, rec) /\ Saved(b, rec) /\ Cleaned(h)
           \/ memory[b].raw /\ Remember(b, rec) /\ NotSaved(b, rec) /\ Return(h) /\ UNCHANGED answered
        /\ Untouched
        /\ UNCHANGED <<tree, workspace>>

\* The second locked region of purge().
PurgeFinish(h) ==
    LET b == handler[h].build
        rec == [memory[b] EXCEPT !.state = "DELETED"]
    IN  /\ At(h, "finish")
        /\ Remember(b, rec)
        /\ Return(h)
        /\ \/ Saved(b, rec) /\ Answer([op |-> "purge", build |-> b, cmd |-> memory[b].cmd])
           \/ NotSaved(b, rec) /\ UNCHANGED answered
        /\ Untouched
        /\ UNCHANGED <<tree, workspace>>

-----------------------------------------------------------------------------
(* The worker thread, _run(), and the pipeline it calls                    *)

Elsewhere == UNCHANGED <<idempotency, closed, handler, boot, submitted, answered, crashes>>

\* The wait loop and the test of _closed.
WorkerIdle ==
    /\ worker = "loop"
    /\ \/ closed /\ worker' = "stopped"
       \/ ~closed /\ queue = <<>> /\ worker' = "wait"
    /\ Elsewhere
    /\ UNCHANGED <<memory, queue, active, disk, faults>>

\* The rest of the first locked region: the record names the workspace before
\* the pipeline creates it. Nothing catches its write failing:
\* the thread ends with _active set and the build out of the queue.
Popped(rec) == [rec EXCEPT !.raw = TRUE]

WorkerPop ==
    LET b == Head(queue)
        rec == Popped(memory[b])
    IN  /\ worker = "loop" /\ ~closed /\ queue # <<>>
        /\ queue' = Tail(queue)
        /\ active' = b
        /\ Remember(b, rec)
        /\ \/ Saved(b, rec) /\ worker' = "mkdir"
           \/ NotSaved(b, rec) /\ worker' = "dead"
        /\ Elsewhere
        /\ UNCHANGED <<tree, workspace>>

\* The pipeline refuses a workspace that exists and creates it otherwise.
WorkerMkdir ==
    /\ worker = "mkdir"
    /\ \/ workspace[active] /\ worker' = "except" /\ UNCHANGED <<workspace, faults>>
       \/ /\ ~workspace[active]
          /\ workspace' = [workspace EXCEPT ![active] = TRUE]
          /\ worker' = "update"
          /\ UNCHANGED faults
       \/ Fault /\ worker' = "except" /\ UNCHANGED workspace
    /\ Elsewhere
    /\ UNCHANGED <<memory, queue, active, durable, tree>>

\* _update(), called back at the start of each stage.
WorkerUpdate ==
    LET rec == [memory[active] EXCEPT !.state = NextStage[memory[active].state]]
    IN  /\ worker = "update"
        /\ Remember(active, rec)
        /\ \/ Saved(active, rec) /\ worker' = "work"
           \/ NotSaved(active, rec) /\ worker' = "except"
        /\ Elsewhere
        /\ UNCHANGED <<queue, active, tree, workspace>>

\* The work of a stage. MATERIALIZING publishes the whole tree at once: a
\* rename locally, one commit remotely.
WorkerStage ==
    LET stage == memory[active].state
    IN  /\ worker = "work"
        /\ tree' = IF stage = "MATERIALIZING" THEN [tree EXCEPT ![active] = "complete"] ELSE tree
        /\ worker' = IF stage = "VERIFYING" THEN "publish" ELSE "update"
        /\ Elsewhere
        /\ UNCHANGED <<memory, queue, active, durable, workspace, faults>>

\* A stage raises. Before the tree is published that is an ordinary outcome
\* (a download, an archive or a configuration that is refused); once it is
\* published only a failing storage call raises.
WorkerStageRaises ==
    LET stage == memory[active].state
    IN  /\ worker = "work"
        /\ worker' = "except"
        /\ \/ stage # "VERIFYING" /\ UNCHANGED <<tree, faults>>
           \/ stage = "VERIFYING" /\ Fault /\ UNCHANGED tree
           \/ stage = "MATERIALIZING" /\ Fault /\ tree' = [tree EXCEPT ![active] = "complete"]
        /\ Elsewhere
        /\ UNCHANGED <<memory, queue, active, durable, workspace>>

\* The second locked region: the hash and REGISTERING are set in memory
\* before the write that may fail.
WorkerPublish ==
    LET rec == [memory[active] EXCEPT !.state = "REGISTERING", !.hash = active]
    IN  /\ worker = "publish"
        /\ Remember(active, rec)
        /\ \/ Saved(active, rec) /\ worker' = "finally"
           \/ NotSaved(active, rec) /\ worker' = "except"
        /\ Elsewhere
        /\ UNCHANGED <<queue, active, tree, workspace>>

\* The except block. If its write raises too, the finally block still runs
\* and the thread ends after it.
WorkerExcept ==
    LET rec == [memory[active] EXCEPT !.state = "FAILED"]
    IN  /\ worker = "except"
        /\ Remember(active, rec)
        /\ \/ Saved(active, rec) /\ worker' = "finally"
           \/ NotSaved(active, rec) /\ worker' = "dying"
        /\ Elsewhere
        /\ UNCHANGED <<queue, active, tree, workspace>>

WorkerFinally ==
    /\ worker \in {"finally", "dying"}
    /\ active' = NoBuild
    /\ worker' = IF worker = "finally" THEN "loop" ELSE "dead"
    /\ Elsewhere
    /\ UNCHANGED <<memory, queue, disk, faults>>

-----------------------------------------------------------------------------
(* Shutdown, crash and start                                               *)

LoseProcess ==
    /\ memory' = [b \in Builds |-> NoRecord]
    /\ idempotency' = [k \in Keys |-> NoBuild]
    /\ queue' = <<>>
    /\ active' = NoBuild
    /\ closed' = FALSE
    /\ worker' = "none"
    /\ handler' = [h \in Handlers |-> Idle]
    /\ boot' = [pc |-> "down", build |-> NoBuild]
    /\ UNCHANGED <<durable, tree, submitted, answered>>

\* close(): the worker stops before its next build.
Close ==
    /\ Serving
    /\ ~closed
    /\ crashes < MaxCrashes
    /\ crashes' = crashes + 1
    /\ closed' = TRUE
    /\ worker' = Notified
    /\ UNCHANGED <<memory, idempotency, queue, active, handler, boot, disk, submitted,
                   answered, faults>>

\* After close() the process exits whatever the daemon worker is doing.
Exit == closed /\ LoseProcess /\ UNCHANGED <<workspace, crashes, faults>>

\* The process dies; temp_dir may or may not survive with it.
Crash ==
    /\ boot.pc # "down"
    /\ crashes < MaxCrashes
    /\ crashes' = crashes + 1
    /\ LoseProcess
    /\ \/ UNCHANGED workspace
       \/ workspace' = [b \in Builds |-> FALSE]
    /\ UNCHANGED faults

Booting == UNCHANGED <<active, closed, worker, handler, submitted, answered, crashes, faults>>

LoadedKeys ==
    [k \in Keys |-> IF \E b \in Builds : durable[b].key = k
                    THEN CHOOSE b \in Builds : durable[b].key = k ELSE NoBuild]

\* _load() reads every record; a pending one is QUEUED again.
Restart ==
    /\ boot.pc = "down"
    /\ boot' = [pc |-> "loading", build |-> NoBuild]
    /\ memory' = [b \in Builds |->
                    IF durable[b].state \in Pending
                    THEN [durable[b] EXCEPT !.state = "QUEUED"] ELSE durable[b]]
    /\ idempotency' = LoadedKeys
    /\ Booting
    /\ UNCHANGED <<queue, disk>>

\* A build that was in progress fails with BUILD_INTERRUPTED.
FailInterrupted(b) ==
    LET rec == [memory[b] EXCEPT !.state = "FAILED"]
    IN  /\ boot.pc = "loading"
        /\ memory[b].state \in Active
        /\ Remember(b, rec)
        /\ Saved(b, rec)
        /\ UNCHANGED <<idempotency, queue, active, closed, worker, handler, boot, tree,
                       workspace, submitted, answered, crashes>>

Scanned == \A b \in Builds : memory[b].state \notin Active
Unqueued == {b \in Builds : memory[b].state = "QUEUED" /\ b \notin Queued}
Deleting == {b \in Builds : memory[b].state = "DELETING"}
OldestFirst(S, b) == \A c \in S : b <= c

\* Pending builds are queued and persisted in the order of created_at.
EnqueueNext(b) ==
    /\ boot.pc = "loading" /\ Scanned
    /\ b \in Unqueued
    /\ OldestFirst(Unqueued, b)
    /\ queue' = Append(queue, b)
    /\ Saved(b, memory[b])
    /\ UNCHANGED <<memory, idempotency, active, closed, worker, handler, boot, tree,
                   workspace, submitted, answered, crashes>>

BootAt(pc, b) == boot' = [pc |-> pc, build |-> b]

\* The recovery of a DELETING build calls storage.purge() again. Locally it
\* goes on without a tree it can load; a tree that loads and does not verify
\* is an OSError, which ends the constructor.
RecoverDeleting(b) ==
    /\ boot.pc = "loading" /\ Scanned /\ Unqueued = {}
    /\ b \in Deleting
    /\ \/ memory[b].hash = NoBuild /\ BootAt("cleaning", b) /\ UNCHANGED tree
       \/ /\ memory[b].hash # NoBuild /\ Remote
          /\ tree' = [tree EXCEPT ![b] = "absent"]
          /\ BootAt("cleaning", b)
       \/ /\ memory[b].hash # NoBuild /\ ~Remote
          /\ \/ tree[b] = "complete" /\ BootAt("removing", b)
             \/ tree[b] \in {"absent", "headless"} /\ BootAt("cleaning", b)
          /\ UNCHANGED tree
    /\ Booting
    /\ UNCHANGED <<memory, idempotency, queue, durable, workspace>>

RecoverRemove ==
    LET b == boot.build
    IN  /\ boot.pc = "removing"
        /\ \E t \in Removing(tree[b]) :
             /\ tree' = [tree EXCEPT ![b] = t]
             /\ IF t = "absent" THEN BootAt("cleaning", b) ELSE UNCHANGED boot
        /\ Booting
        /\ UNCHANGED <<memory, idempotency, queue, durable, workspace>>

RecoverClean ==
    LET b == boot.build
    IN  /\ boot.pc = "cleaning"
        /\ workspace' = [workspace EXCEPT ![b] = workspace[b] /\ ~memory[b].raw]
        /\ BootAt(IF memory[b].raw THEN "clearing" ELSE "finishing", b)
        /\ Booting
        /\ UNCHANGED <<memory, idempotency, queue, durable, tree>>

RecoverClear ==
    LET b == boot.build
        rec == [memory[b] EXCEPT !.raw = FALSE]
    IN  /\ boot.pc = "clearing"
        /\ Remember(b, rec)
        /\ Saved(b, rec)
        /\ BootAt("finishing", b)
        /\ UNCHANGED <<idempotency, queue, active, closed, worker, handler, tree, workspace,
                       submitted, answered, crashes>>

RecoverFinish ==
    LET b == boot.build
        rec == [memory[b] EXCEPT !.state = "DELETED"]
    IN  /\ boot.pc = "finishing"
        /\ Remember(b, rec)
        /\ Saved(b, rec)
        /\ BootAt("loading", NoBuild)
        /\ UNCHANGED <<idempotency, queue, active, closed, worker, handler, tree, workspace,
                       submitted, answered, crashes>>

\* The constructor raises: a damaged tree makes it, and so may any write or
\* storage call of it. A call that raised after its effect is the call
\* followed by this step.
StartFails ==
    /\ boot.pc \notin {"down", "serving"}
    /\ \/ Fault
       \/ /\ boot.pc = "loading" /\ Scanned /\ Unqueued = {} /\ ~Remote
          /\ \E b \in Deleting : memory[b].hash # NoBuild /\ tree[b] = "damaged"
          /\ UNCHANGED faults
    /\ LoseProcess
    /\ UNCHANGED <<workspace, crashes>>

\* _load() returned: start() creates the worker and requests are served.
Serve ==
    /\ boot.pc = "loading" /\ Scanned /\ Unqueued = {}
    /\ Deleting = {}
    /\ BootAt("serving", NoBuild)
    /\ worker' = "loop"
    /\ UNCHANGED <<memory, idempotency, queue, active, closed, handler, disk, submitted,
                   answered, crashes, faults>>

-----------------------------------------------------------------------------
(* The specification                                                       *)

HandlerStep(h) ==
    \/ PurgeStore(h) \/ PurgeRemove(h) \/ CleanCheck(h) \/ RemoveWorkspace(h)
    \/ ClearRaw(h) \/ PurgeFinish(h)

Call ==
    \/ \E k \in Keys, r \in Requests : Submit(k, r) \/ \E b \in Builds : Rebuild(b, k, r)
    \/ \E h \in Handlers, b \in Builds, hash \in Builds, reg \in RegIds :
          Acknowledge(h, b, hash, reg)
    \/ \E b \in Builds, hash \in Builds, reg \in RegIds : AcknowledgeReplay(b, hash, reg)
    \/ \E b \in Builds : Deprecate(b) \/ DeprecateReplay(b)
    \/ \E h \in Handlers, b \in Builds, cmd \in Commands : PurgeStart(h, b, cmd)
    \/ \E b \in Builds, cmd \in Commands : PurgeReplay(b, cmd)

Worker ==
    \/ WorkerIdle \/ WorkerPop \/ WorkerMkdir \/ WorkerUpdate \/ WorkerStage
    \/ WorkerStageRaises \/ WorkerPublish \/ WorkerExcept \/ WorkerFinally

Boot ==
    \/ Restart
    \/ \E b \in Builds : FailInterrupted(b) \/ EnqueueNext(b) \/ RecoverDeleting(b)
    \/ RecoverRemove \/ RecoverClean \/ RecoverClear \/ RecoverFinish
    \/ StartFails \/ Serve

Next ==
    \/ Call
    \/ \E h \in Handlers : HandlerStep(h)
    \/ Worker
    \/ Boot
    \/ Close \/ Exit \/ Crash

Spec == Init /\ [][Next]_vars

\* Threads run, a started process goes on starting, a closed one exits and
\* is started again. Callers need never call and nothing need ever fail.
Fairness ==
    /\ WF_vars(Worker)
    /\ WF_vars(Boot)
    /\ WF_vars(Exit)
    /\ \A h \in Handlers : WF_vars(HandlerStep(h))

FairSpec == Spec /\ Fairness

-----------------------------------------------------------------------------
(* Properties                                                              *)

\* Every variable holds a value of its type.
TypeOK ==
    /\ memory \in [Builds -> Record]
    /\ durable \in [Builds -> Record]
    /\ idempotency \in [Keys -> Builds \cup {NoBuild}]
    /\ queue \in Seq(Builds)
    /\ active \in Builds \cup {NoBuild}
    /\ closed \in BOOLEAN
    /\ worker \in WorkerPcs
    /\ handler \in [Handlers -> HandlerStates]
    /\ boot \in [pc : BootPcs, build : Builds \cup {NoBuild}]
    /\ tree \in [Builds -> Trees]
    /\ workspace \in [Builds -> BOOLEAN]
    /\ submitted \in 0 .. MaxBuilds
    /\ answered \subseteq Answers
    /\ crashes \in 0 .. MaxCrashes
    /\ faults \in 0 .. MaxFaults

\* A build that callers may read, now or after the next restart, has its
\* whole verified tree in the store and the hash of that very tree: artifact()
\* opens what the states of its gates promise.
VisibleIsComplete ==
    \A b \in Builds : \A rec \in {memory[b], durable[b]} :
        rec.state \in Visible => tree[b] = "complete" /\ rec.hash = b

\* While no write failed, an answer the service gave survives every later
\* step and crash: the durable record still carries what the caller was told.
AnswersAreDurable ==
    faults = 0 => \A a \in answered :
        LET rec == durable[a.build]
        IN  CASE a.op = "submit" -> rec.key = a.key /\ rec.request = a.request
              [] a.op = "ack" -> /\ rec.reg = a.reg /\ rec.hash = a.hash
                                 /\ rec.state \in {"READY", "DEPRECATED", "DELETING", "DELETED"}
              [] a.op = "deprecate" -> rec.state \in {"DEPRECATED", "DELETING", "DELETED"}
              [] a.op = "purge" -> rec.state = "DELETED" /\ rec.cmd = a.cmd

\* Two submissions answered under one Idempotency-Key are the same build of
\* the same request, before and after restarts.
OneBuildPerKey ==
    faults = 0 => \A x, y \in answered :
        x.op = "submit" /\ y.op = "submit" /\ x.key = y.key => x = y

\* An acknowledged build has one registration, of the tree it published.
OneRegistration ==
    faults = 0 => \A x, y \in answered :
        x.op = "ack" /\ y.op = "ack" /\ x.build = y.build => x = y /\ x.hash = x.build

\* Builds are run in the order they were submitted, across restarts: the
\* queue is sorted, every entry is pending, and the running build is older
\* than the waiting ones.
QueueIsFIFO ==
    /\ \A i, j \in 1 .. Len(queue) : i < j => queue[i] < queue[j]
    /\ \A i \in 1 .. Len(queue) : memory[queue[i]].state \in Pending
    /\ active # NoBuild => \A b \in Queued : active < b

\* The queue never holds more than its capacity; after a restart one build
\* more, the one that was out of the queue and not yet in progress when the
\* process stopped, and however often it stops never a second one.
QueueIsBounded == Len(queue) <= QueueCapacity + (IF crashes = 0 THEN 0 ELSE 1)

\* No pending or running build is forgotten: a serving process has it in the
\* queue or in the worker's hands, after restarts and failed writes too.
NothingStranded ==
    Serving => \A b \in Builds :
        /\ memory[b].state \in Pending => b \in Queued \/ b = active
        /\ memory[b].state \in Active => b = active

\* A raw workspace on a local store's disk is named by the record of its
\* build, so that a purge or a restart can still remove it.
WorkspaceIsOwned ==
    ~Remote => \A b \in Builds : workspace[b] => durable[b].raw

\* What DELETED says of the files. A tree whose hash the record holds was removed:
\* all of it remotely; on a local store so far that it cannot be loaded, though other
\* files may be left of it. A tree whose hash the record never got was not touched,
\* and is whole if it was published. The raw workspace of a local deployment is gone.
DeletedIsGone ==
    \A b \in Builds : durable[b].state = "DELETED" =>
        /\ tree[b] \in IF durable[b].hash = NoBuild THEN {"absent", "complete"}
                       ELSE IF Remote THEN {"absent"} ELSE {"absent", "headless"}
        /\ ~Remote => ~workspace[b]

\* The lifecycle, as the durable record may move along it in one write.
Successors ==
    [ABSENT |-> Pending,
     CREATED |-> {"QUEUED", "IMPORTING", "FAILED"}, QUEUED |-> {"IMPORTING", "FAILED"},
     IMPORTING |-> {"VALIDATING", "FAILED"}, VALIDATING |-> {"PREPROCESSING", "FAILED"},
     PREPROCESSING |-> {"MATERIALIZING", "FAILED"},
     MATERIALIZING |-> {"VERIFYING", "FAILED"}, VERIFYING |-> {"REGISTERING", "FAILED"},
     REGISTERING |-> {"READY"}, READY |-> {"DEPRECATED"}, DEPRECATED |-> {"DELETING"},
     FAILED |-> {"DELETING"}, DELETING |-> {"DELETED"}, DELETED |-> {}]

\* Whatever handlers, worker, crashes and recovery do, the durable state of
\* a build only follows the lifecycle, one edge at a time.
DurableFollowsLifecycle ==
    [][\A b \in Builds : durable'[b].state # durable[b].state
                            => durable'[b].state \in Successors[durable[b].state]]_durable

\* A build's key and request, its manifest hash, its registration and its
\* purge command, once durable, are never replaced or lost.
IdentityIsFrozen ==
    [][\A b \in Builds :
          /\ durable[b].state # "ABSENT" => /\ durable'[b].key = durable[b].key
                                            /\ durable'[b].request = durable[b].request
          /\ durable[b].hash # NoBuild => durable'[b].hash = durable[b].hash
          /\ durable[b].reg # None => durable'[b].reg = durable[b].reg
          /\ durable[b].cmd # None => durable'[b].cmd = durable[b].cmd]_durable

\* Every build that is durably pending or in progress leaves that state: it is
\* published or it fails, whatever crashes and shutdowns come between, unless
\* a write or a storage call fails (a failing write may end the worker).
BuildsSettle ==
    \A b \in Builds :
        durable[b].state \in Pending \cup Active
            ~> durable[b].state \in Visible \cup Ended \/ faults > 0

\* A purge that a crash interrupted is completed by the next start, unless a
\* write or a storage call fails.
RecoveryCompletesPurges ==
    \A b \in Builds :
        boot.pc = "down" /\ durable[b].state = "DELETING"
            ~> durable[b].state = "DELETED" \/ faults > 0
=============================================================================
