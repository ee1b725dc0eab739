--------------------------- MODULE ArtifactReads ---------------------------
(***************************************************************************)
(* Reading the files of one build while it is deprecated and purged:       *)
(* DatasetService.artifact, the FileResponse that opens the path it        *)
(* returned, and the stores' load, resolve_artifact and purge.  Only the   *)
(* gate of artifact() runs under the service's lock.  The Hugging Face     *)
(* store fetches what its cache lacks under a lock of its own, which its   *)
(* purge does not take; the local store reads its tree without a lock.     *)
(***************************************************************************)
EXTENDS Naturals, Sequences

CONSTANTS
    Readers,      \* threads of the HTTP server that read artifacts
    Remote,       \* the backend is huggingface
    Caches,       \* what the directory holds of each file at first
    MaxRequests,  \* bound: requests for an artifact
    MaxFaults,    \* bound: failing downloads, cache writes and deletions
    MaxDamage,    \* bound: cached files that change on disk
    MaxRestarts,  \* bound: restarts of the process
    Nobody        \* holds the lock when no reader does

ASSUME ReadersAssumption == Nobody \notin Readers /\ Remote \in BOOLEAN
ASSUME CachesAssumption == Caches \subseteq (IF Remote THEN {"absent", "good"} ELSE {"good"})
ASSUME BoundsAssumption == {MaxRequests, MaxFaults, MaxDamage, MaxRestarts} \subseteq Nat

VARIABLES
    state,     \* the build's state
    uploaded,  \* the remote folder exists
    cache,     \* the local directory: file -> absent, good or bad
    lock,      \* who holds _cache_lock
    reader,    \* the request each reader is in
    purger,    \* control of the purge
    listed,    \* files rmtree has still to visit
    kept,      \* files that the last removal left without saying so
    overlapped,  \* a request was running when the last purge began
    requests, faults, damage, restarts

build == <<state, uploaded, purger, listed, kept, overlapped>>
store == <<build, cache, lock>>
counters == <<requests, faults, damage, restarts>>
vars == <<store, reader, counters>>

Files == {"root", "shard", "batch"}

\* The files a request resolves in turn; for a batch the shard's manifest is
\* resolved again, under the same lock as the batch.
Chain(want) ==
    CASE want = "root" -> <<"root">>
      [] want = "shard" -> <<"root", "shard">>
      [] want = "batch" -> IF Remote THEN <<"root", "shard", "shard", "batch">>
                                     ELSE <<"root", "shard", "batch">>

\* "excused": a refusal has a cause; "tainted": a file changed on disk meanwhile.
Request(pc, want) == [pc |-> pc, want |-> want, at |-> 1, result |-> "none",
                      excused |-> FALSE, tainted |-> FALSE]
NoRequest == Request("idle", "root")
Active(r) == reader[r].pc \notin {"idle", "done"}
File(r) == Chain(reader[r].want)[reader[r].at]

Init ==
    /\ state = "REGISTERING"
    /\ uploaded = Remote
    /\ \E c \in Caches : cache = [f \in Files |-> c]
    /\ lock = Nobody
    /\ reader = [r \in Readers |-> NoRequest]
    /\ purger = "idle" /\ listed = {} /\ kept = {} /\ overlapped = FALSE
    /\ requests = 0 /\ faults = 0 /\ damage = 0 /\ restarts = 0

-----------------------------------------------------------------------------
(* One request.                                                            *)

Goto(r, pc) == reader' = [reader EXCEPT ![r].pc = pc]
Ends(r, result) == reader' = [reader EXCEPT ![r].pc = "done", ![r].result = result]

\* A variant of UnlockOnError: the lock is released only after a success.
UnlockOnErrorForgotten(r) == UNCHANGED lock

UnlockOnError(r) == lock' = IF lock = r THEN Nobody ELSE lock

Refuse(r) == Ends(r, "refused") /\ UnlockOnError(r)

Gate(want) == IF want = "root" THEN {"REGISTERING", "READY", "DEPRECATED"}
                               ELSE {"READY", "DEPRECATED"}

Begin(r) ==
    /\ ~Active(r) /\ requests < MaxRequests
    /\ requests' = requests + 1
    /\ \E want \in Files :
         reader' = [reader EXCEPT ![r] =
             IF state \notin Gate(want)
             THEN [Request("done", want) EXCEPT !.result = "refused", !.excused = TRUE]
             ELSE Request(IF Remote THEN "lock" ELSE "check", want)]
    /\ UNCHANGED <<store, faults, damage, restarts>>

\* Inside the lock the root manifest is read again, except by load itself.
NeedsRoot(r) == reader[r].pc = "lock" /\ reader[r].at > 1
Needed(r) == IF NeedsRoot(r) THEN "root" ELSE File(r)

\* A variant of LockFree: nobody waits for the lock.
LockIgnored(r) == TRUE

LockFree(r) == lock = Nobody

Acquire(r) ==
    /\ reader[r].pc = "lock" /\ LockFree(r)
    /\ NeedsRoot(r) => cache["root"] # "absent"
    /\ lock' = r /\ Goto(r, "check")
    /\ UNCHANGED <<build, cache, counters>>

\* A manifest is read to find the next file: by artifact(), and by the Hugging
\* Face store in its lock when it looks for a batch.
Parse(r) ==
    /\ reader[r].pc = "parse"
    /\ cache[File(r)] # "absent"
    /\ reader' = [reader EXCEPT ![r].at = @ + 1,
                                ![r].pc = IF Remote /\ lock # r THEN "lock" ELSE "check"]
    /\ UNCHANGED <<store, counters>>

\* A manifest that must be read is gone, or is no longer what it was.
ReadFails(r) ==
    /\ reader[r].pc = "parse" \/ (NeedsRoot(r) /\ lock = Nobody)
    /\ cache[Needed(r)] # "good"
    /\ Refuse(r)
    /\ UNCHANGED <<build, cache, counters>>

IsLast(r) == reader[r].at = Len(Chain(reader[r].want))
InsideLock(r) == Remote /\ reader[r].want = "batch" /\ reader[r].at = 3

\* The path is known: artifact() returns it, or reads it for the next one.
Resolved(r) ==
    /\ Goto(r, IF IsLast(r) THEN "open" ELSE "parse")
    /\ lock' = IF lock = r /\ ~InsideLock(r) THEN Nobody ELSE lock

\* Variants of Hit: a cached file is used unverified, or never.
HitUnverified(r) == cache[File(r)] # "absent"
HitNever(r) == FALSE

\* The Hugging Face store compares the cached file with its digest; the local one
\* only the root manifest.
Hit(r) ==
    IF Remote \/ File(r) = "root" THEN cache[File(r)] = "good" ELSE cache[File(r)] # "absent"

UseCache(r) ==
    /\ reader[r].pc = "check" /\ Hit(r)
    /\ Resolved(r)
    /\ UNCHANGED <<build, cache, counters>>

\* A cached file that does not match is removed before it is fetched again; the
\* root manifest is overwritten.
Miss(r) ==
    /\ reader[r].pc = "check" /\ ~Hit(r)
    /\ IF Remote
       THEN /\ Goto(r, "fetch")
            /\ cache' = IF File(r) = "root" THEN cache ELSE [cache EXCEPT ![File(r)] = "absent"]
            /\ UNCHANGED lock
       ELSE Refuse(r) /\ UNCHANGED cache
    /\ UNCHANGED <<build, counters>>

Fetch(r) ==
    /\ reader[r].pc = "fetch"
    /\ IF uploaded THEN Goto(r, "write") /\ UNCHANGED lock ELSE Refuse(r)
    /\ UNCHANGED <<build, cache, counters>>

\* The download raises, its bytes do not have the pinned digest, or they cannot
\* be written into the cache.
FetchFails(r) ==
    /\ reader[r].pc \in {"fetch", "write"} /\ faults < MaxFaults
    /\ reader' = [reader EXCEPT ![r].pc = "done", ![r].result = "refused", ![r].excused = TRUE]
    /\ UnlockOnError(r)
    /\ faults' = faults + 1
    /\ UNCHANGED <<build, cache, requests, damage, restarts>>

\* The purge may take the directory away between its creation and the write.
WriteRaces(r) ==
    /\ reader[r].pc = "write" /\ purger = "local"
    /\ Refuse(r)
    /\ UNCHANGED <<build, cache, counters>>

Write(r) ==
    /\ reader[r].pc = "write"
    /\ cache' = [cache EXCEPT ![File(r)] = "good"]
    /\ Resolved(r)
    /\ UNCHANGED <<build, counters>>

\* FileResponse opens the path after artifact() returned it.
Open(r) ==
    /\ reader[r].pc = "open"
    /\ Ends(r, IF cache[File(r)] = "absent" THEN "refused" ELSE cache[File(r)])
    /\ UNCHANGED <<store, counters>>

Step(r) == Acquire(r) \/ Parse(r) \/ ReadFails(r) \/ UseCache(r) \/ Miss(r)
           \/ Fetch(r) \/ FetchFails(r) \/ WriteRaces(r) \/ Write(r) \/ Open(r)

-----------------------------------------------------------------------------
(* The build's lifecycle and its purge.                                    *)

Acknowledge ==
    /\ state = "REGISTERING" /\ state' = "READY"
    /\ UNCHANGED <<uploaded, cache, lock, purger, listed, kept, overlapped, reader, counters>>

Deprecate ==
    /\ state = "READY" /\ state' = "DEPRECATED"
    /\ UNCHANGED <<uploaded, cache, lock, purger, listed, kept, overlapped, reader, counters>>

\* The command, which is accepted once: a build left DELETING waits for a restart.
BeginPurge ==
    /\ state = "DEPRECATED"
    /\ state' = "DELETING" /\ purger' = "command"
    /\ overlapped' = \E r \in Readers : Active(r)
    /\ reader' = [r \in Readers |-> [reader[r] EXCEPT !.excused = @ \/ Active(r)]]
    /\ UNCHANGED <<uploaded, cache, lock, listed, kept, counters>>

\* A variant of CleansCache: nothing more to do when the remote folder was absent.
CleansCacheOnce == uploaded

CleansCache == TRUE

\* The remote folder goes in one commit; one that is absent already is no error.
\* The local store first verifies the whole tree: one that fails is not removed,
\* and a recovery that finds no root manifest of the build takes it for gone.
PurgeTree ==
    /\ purger \in {"command", "recover"}
    /\ uploaded' = FALSE
    /\ IF Remote \/ \A f \in Files : cache[f] = "good"
       THEN /\ purger' = "local" /\ kept' = {}
            /\ listed' = IF CleansCache \/ ~Remote THEN Files ELSE {}
       ELSE /\ IF purger = "recover" /\ cache["root"] # "good"
               THEN purger' = "local" /\ kept' = Files
               ELSE purger' = "idle" /\ UNCHANGED kept
            /\ UNCHANGED listed
    /\ UNCHANGED <<state, cache, lock, overlapped, reader, counters>>

\* A request raises, which may have taken effect, or a local removal does.
PurgeFails ==
    /\ purger \in (IF Remote THEN {} ELSE {"local"}) \cup {"command", "recover"}
    /\ faults < MaxFaults
    /\ faults' = faults + 1 /\ purger' = "idle" /\ listed' = {}
    /\ uploaded' \in {uploaded, FALSE}
    /\ UNCHANGED <<state, cache, lock, kept, overlapped, reader, requests, damage, restarts>>

\* rmtree(ignore_errors=True) goes on when it cannot remove a cached file.
PurgeFile(f) ==
    /\ purger = "local" /\ f \in listed
    /\ listed' = listed \ {f}
    /\ \/ cache' = [cache EXCEPT ![f] = "absent"] /\ UNCHANGED kept
       \/ Remote /\ cache[f] # "absent" /\ kept' = kept \cup {f} /\ UNCHANGED cache
    /\ UNCHANGED <<state, uploaded, lock, purger, overlapped, reader, counters>>

\* With ignore_errors a file that appeared meanwhile does not stop the purge.
EndPurge ==
    /\ purger = "local" /\ listed = {}
    /\ state' = "DELETED" /\ purger' = "idle"
    /\ UNCHANGED <<uploaded, cache, lock, listed, kept, overlapped, reader, counters>>

Purge == PurgeTree \/ EndPurge \/ \E f \in Files : PurgeFile(f)

\* Requests are lost; an unfinished purge is run again by _load; the disk of a
\* Hugging Face deployment may be a new one.
Restart ==
    /\ restarts < MaxRestarts /\ restarts' = restarts + 1
    /\ reader' = [r \in Readers |-> NoRequest]
    /\ lock' = Nobody
    /\ purger' = IF state = "DELETING" THEN "recover" ELSE "idle"
    /\ listed' = {} /\ overlapped' = (overlapped /\ state = "DELETED")
    /\ cache' \in {cache, [f \in Files |-> IF Remote THEN "absent" ELSE cache[f]]}
    /\ UNCHANGED <<state, uploaded, kept, requests, faults, damage>>

Damage(f) ==
    /\ damage < MaxDamage /\ damage' = damage + 1
    /\ cache[f] = "good" /\ cache' = [cache EXCEPT ![f] = "bad"]
    /\ reader' = [r \in Readers |-> [reader[r] EXCEPT !.excused = @ \/ Active(r),
                                                      !.tainted = @ \/ Active(r)]]
    /\ UNCHANGED <<build, lock, requests, faults, restarts>>

Next == \/ \E r \in Readers : Begin(r) \/ Step(r)
        \/ Acknowledge \/ Deprecate \/ BeginPurge \/ Purge \/ PurgeFails
        \/ Restart \/ \E f \in Files : Damage(f)

\* The threads of requests run; nobody has to send one, or a command.
Fairness == \A r \in Readers : WF_vars(Step(r))
Spec == Init /\ [][Next]_vars /\ Fairness

-----------------------------------------------------------------------------
\* Of several readers that lack a file one downloads it: nobody fetches what the
\* cache has, although it was checked some steps before.
NothingFetchedTwice ==
    \A r \in Readers : reader[r].pc \in {"fetch", "write"} => cache[File(r)] # "good"

\* What the Hugging Face store serves is what the manifest pins, although files of
\* its cache were damaged before the request, other readers refetch them, and a
\* purge runs.
ServedIsPinned ==
    \A r \in Readers : reader[r].result = "bad" => reader[r].tainted

\* A request for a visible build is refused only for a failing download or cache
\* write, a file that changed under it, or a purge that began after the gate.
RefusalHasCause ==
    \A r \in Readers : reader[r].result = "refused" => reader[r].excused

\* What a purge leaves in the directory of a build are files that the removal, in the
\* attempt that completed it, could not remove without saying so, or that a local
\* recovery left because the root manifest was gone; unless a request that passed the
\* gate before was still running. The first attempt may have failed, or have been
\* interrupted after the remote folder was gone.
LeftoverHasCause ==
    state = "DELETED" /\ ~overlapped => \A f \in Files : cache[f] = "absent" \/ f \in kept

\* Every request is answered, although it waits for a lock held during downloads.
RequestsEnd == \A r \in Readers : Active(r) ~> ~Active(r)
=============================================================================
