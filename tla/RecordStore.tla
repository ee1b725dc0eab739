---------------------------- MODULE RecordStore ----------------------------
(***************************************************************************)
(* The metadata records of both stores: persist_record (temporary file,    *)
(* fsync, replace, and for Hugging Face the upload), load_records and the  *)
(* rewriting of legacy records by DatasetService._load.  The writer holds  *)
(* the service's lock, so one record is written at a time.  The process    *)
(* may die at any step; with a power failure a replaced directory entry    *)
(* may be the old one again, since persist_record does not fsync the       *)
(* directory as the publication of a tree does.                            *)
(***************************************************************************)
EXTENDS Naturals

CONSTANTS
    Builds,          \* dataset build ids
    Remote,          \* the backend is huggingface
    MaxVersion,      \* bound: versions of a record
    MaxFaults,       \* bound: calls that raise
    MaxCrashes,      \* bound: deaths of the process
    MaxPowerLosses   \* bound: deaths that lose directory entries

ASSUME RecordAssumption ==
    /\ Remote \in BOOLEAN /\ MaxVersion \in Nat \ {0}
    /\ {MaxFaults, MaxCrashes, MaxPowerLosses} \subseteq Nat

VARIABLES
    disk,      \* <build>.json in .service/builds, as the process sees it
    stable,    \* the same after a power failure
    remote,    \* the file on the branch
    memory,    \* the version the service knows of a build
    answered,  \* the last version whose persist_record returned
    draft,     \* the record being written
    pc,        \* control of the process
    todo,      \* builds whose record load_records or _load has still to visit
    faults, crashes, powerlosses

files == <<disk, stable, remote>>
bounds == <<faults, crashes, powerlosses>>
vars == <<files, memory, answered, draft, pc, todo, bounds>>

\* A record file: its content counts versions from 1.  A torn file does not parse;
\* a foreign record parses, but has a later schema version or lacks a key.
Record(v, s) == [version |-> v, schema |-> s]
Absent == Record(0, "absent")
Torn == Record(0, "torn")

\* What load_records returns for a build: a local file that does not parse is skipped.
Authority(b) == IF Remote THEN remote[b] ELSE disk[b]
Recoverable == [b \in Builds |-> Authority(b).version]

NoDraft == [build |-> CHOOSE b \in Builds : TRUE, record |-> Absent, legacy |-> FALSE]

\* What a start may find: no record, one of an earlier or a later version of the
\* program, or a damaged file.
Found == {Absent, Record(1, "legacy"), Record(1, "foreign"), Torn}

Init ==
    /\ remote \in [Builds -> IF Remote THEN Found ELSE {Absent}]
    /\ disk \in [Builds -> Found]
    /\ stable = disk
    /\ answered = Recoverable
    /\ memory = [b \in Builds |-> 0]
    /\ draft = NoDraft /\ pc = "down" /\ todo = {}
    /\ faults = 0 /\ crashes = 0 /\ powerlosses = 0

-----------------------------------------------------------------------------
(* persist_record.                                                         *)

\* A variant of Returned: the service starts after the first legacy record.
ReturnedServing == pc' = "serving"

\* The caller continues: _load with the next record, or the service.
Returned == pc' = IF draft.legacy THEN "migrating" ELSE "serving"

\* The service changes a record in memory and writes it, under its lock.  The id
\* of a new build is fresh.
Persist(b) ==
    /\ pc = "serving" /\ memory[b] < MaxVersion /\ Authority(b) # Torn
    /\ memory' = [memory EXCEPT ![b] = @ + 1]
    /\ draft' = [build |-> b, record |-> Record(memory[b] + 1, "current"),
                 legacy |-> FALSE]
    /\ pc' = "open"
    /\ UNCHANGED <<files, answered, todo, bounds>>

\* While the temporary file is written, <build>.json is untouched.
AfterOpen(b) == disk[b]

Open ==
    /\ pc = "open" /\ pc' = "replace"
    /\ disk' = [disk EXCEPT ![draft.build] = AfterOpen(draft.build)]
    /\ UNCHANGED <<stable, remote, memory, answered, draft, todo, bounds>>

\* A variant of AfterReplace: the answer does not wait for the upload.
AfterReplaceAnswered == "return"

AfterReplace == IF Remote THEN "upload" ELSE "return"

\* The content of the temporary file was fsynced, the directory's entry is not.
Replace ==
    /\ pc = "replace" /\ pc' = AfterReplace
    /\ disk' = [disk EXCEPT ![draft.build] = draft.record]
    /\ UNCHANGED <<stable, remote, memory, answered, draft, todo, bounds>>

Upload ==
    /\ pc = "upload" /\ pc' = "return"
    /\ remote' = [remote EXCEPT ![draft.build] = draft.record]
    /\ UNCHANGED <<disk, stable, memory, answered, draft, todo, bounds>>

Return ==
    /\ pc = "return" /\ Returned
    /\ answered' = [answered EXCEPT ![draft.build] = draft.record.version]
    /\ draft' = NoDraft
    /\ UNCHANGED <<files, memory, todo, bounds>>

\* A write or the upload raises; an upload may have been committed.  In _load
\* the exception ends the constructor and the process.
Raises ==
    /\ pc \in {"open", "replace", "upload"}
    /\ faults < MaxFaults /\ faults' = faults + 1
    /\ pc' = IF draft.legacy THEN "down" ELSE "serving"
    /\ remote' \in {remote} \cup
           IF pc = "upload" THEN {[remote EXCEPT ![draft.build] = draft.record]} ELSE {}
    /\ draft' = NoDraft
    /\ UNCHANGED <<disk, stable, memory, answered, todo, crashes, powerlosses>>

-----------------------------------------------------------------------------
(* load_records and _load.                                                 *)

\* A variant of Mirrored: local records that the branch does not have stay.
MirroredUnpruned(b) == disk[b]

\* The local files whose name is not on the branch are removed.
Mirrored(b) == IF Remote /\ remote[b] = Absent THEN Absent ELSE disk[b]

Start ==
    /\ pc = "down" /\ pc' = "loading"
    /\ todo' = {b \in Builds : Authority(b) # Absent}
    /\ memory' = [b \in Builds |-> 0]
    /\ disk' = [b \in Builds |-> Mirrored(b)]
    /\ UNCHANGED <<stable, remote, answered, draft, bounds>>

\* A variant of Unreadable: the branch is read as the local directory is.
UnreadableSkipped(b) == FALSE

\* A file that does not parse is skipped in the local directory, not on the branch.
Unreadable(b) == Remote /\ remote[b].schema = "torn"

\* One record is read, and for Hugging Face downloaded over the local file.
Download(b) == disk' = IF Remote THEN [disk EXCEPT ![b] = remote[b]] ELSE disk

LoadOne(b) ==
    /\ pc = "loading" /\ b \in todo /\ ~Unreadable(b) /\ Download(b)
    /\ todo' = todo \ {b}
    /\ memory' = [memory EXCEPT ![b] = Authority(b).version]
    /\ UNCHANGED <<stable, remote, answered, draft, pc, bounds>>

\* The exception ends the constructor and the process, at every start again.
LoadUnreadable(b) ==
    /\ pc = "loading" /\ b \in todo /\ Unreadable(b) /\ Download(b)
    /\ pc' = "down" /\ todo' = {}
    /\ UNCHANGED <<stable, remote, memory, answered, draft, bounds>>

Legacy(b) == Authority(b).schema = "legacy"

\* A variant of Foreign: any other schema version than the present one is refused.
ForeignOrLegacy(b) == Authority(b).schema \in {"legacy", "foreign"}

\* What deserialize_durable_record raises for.
Foreign(b) == Authority(b).schema = "foreign"

Loaded ==
    /\ pc = "loading" /\ todo = {}
    /\ pc' = "migrating" /\ todo' = {b \in Builds : Legacy(b) \/ Foreign(b)}
    /\ UNCHANGED <<files, memory, answered, draft, bounds>>

\* A legacy record is persisted again before anything is served.
Migrate(b) ==
    /\ pc = "migrating" /\ b \in todo /\ ~Foreign(b) /\ todo' = todo \ {b}
    /\ draft' = [build |-> b, record |-> Record(memory[b], "current"), legacy |-> TRUE]
    /\ pc' = "open"
    /\ UNCHANGED <<files, memory, answered, bounds>>

\* The start ends at a record it cannot use; legacy ones that came before it in the
\* list are rewritten by then.
Refuse(b) ==
    /\ pc = "migrating" /\ b \in todo /\ Foreign(b)
    /\ pc' = "down" /\ todo' = {}
    /\ UNCHANGED <<files, memory, answered, draft, bounds>>

Serve ==
    /\ pc = "migrating" /\ todo = {} /\ pc' = "serving"
    /\ UNCHANGED <<files, memory, answered, draft, todo, bounds>>

\* The branch cannot be listed or a record cannot be downloaded: no start.
LoadRaises ==
    /\ pc = "loading" /\ Remote /\ faults < MaxFaults /\ faults' = faults + 1
    /\ pc' = "down" /\ todo' = {}
    /\ UNCHANGED <<files, memory, answered, draft, crashes, powerlosses>>

-----------------------------------------------------------------------------
(* Deaths of the process.                                                  *)

Died == pc' = "down" /\ draft' = NoDraft /\ todo' = {}

\* A download of load_records overwrites the local file in place.
Crash ==
    /\ pc # "down" /\ crashes < MaxCrashes /\ crashes' = crashes + 1
    /\ Died
    /\ disk' \in {disk} \cup IF pc = "loading" /\ Remote
                             THEN {[disk EXCEPT ![b] = Torn] : b \in todo} ELSE {}
    /\ UNCHANGED <<stable, remote, memory, answered, faults, powerlosses>>

\* The operating system writes a directory entry back when it likes.
WriteBack(b) ==
    /\ powerlosses < MaxPowerLosses
    /\ stable[b] # disk[b] /\ stable' = [stable EXCEPT ![b] = disk[b]]
    /\ UNCHANGED <<disk, remote, memory, answered, draft, pc, todo, bounds>>

PowerLoss ==
    /\ powerlosses < MaxPowerLosses /\ powerlosses' = powerlosses + 1
    /\ Died /\ disk' = stable
    /\ UNCHANGED <<stable, remote, memory, answered, faults, crashes>>

Run == \/ Open \/ Replace \/ Upload \/ Return
       \/ Start \/ Loaded \/ Serve
       \/ \E b \in Builds : LoadOne(b) \/ LoadUnreadable(b) \/ Migrate(b) \/ Refuse(b)

Next == Run \/ Raises \/ LoadRaises \/ Crash \/ PowerLoss
        \/ \E b \in Builds : Persist(b) \/ WriteBack(b)

\* The process runs and is started again.
Spec == Init /\ [][Next]_vars /\ WF_vars(Run)

-----------------------------------------------------------------------------
\* Whenever the process dies, the next start loads at least the version of a
\* record that persist_record returned for.
AnsweredSurvives == \A b \in Builds : Recoverable[b] >= answered[b]

\* While requests are served no legacy record is left to load, although the
\* rewriting may have failed or been interrupted in earlier starts.
ServesMigrated ==
    pc = "serving" => \A b \in Builds : Authority(b).schema # "legacy"

\* After a start on a Hugging Face store, the local records are those of the branch.
MirrorIsFresh ==
    [][Serve /\ Remote => \A b \in Builds : disk[b] = remote[b] /\ memory[b] = remote[b].version]_vars

Contract == INSTANCE RecordContract WITH durable <- Recoverable, promised <- answered

\* Both stores keep the contract the service is built on.
KeepsContract == Contract!Spec

\* A record that a start of the present program can use, or may leave out.
Usable(b) == Authority(b).schema # "foreign" /\ (Remote => Authority(b).schema # "torn")

\* A start that finds a damaged record on the branch, or one that it does not
\* understand, ends instead of serving without that build, although it may have
\* rewritten other records by then (load_records, deserialize_durable_record).
ServesReadable == pc = "serving" => \A b \in Builds : Usable(b)

\* A dead process serves again once calls stop raising, unless the authority has a
\* record that ends every start; torn or stale local copies of the branch do not.
ServesAgain == pc = "down" /\ (\A b \in Builds : Usable(b)) ~> pc = "serving"
=============================================================================
