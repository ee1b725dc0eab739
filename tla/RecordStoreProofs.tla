------------------------- MODULE RecordStoreProofs -------------------------
(***************************************************************************)
(* For any builds and bounds, a Hugging Face store, and a local one without*)
(* power failures, implement RecordContract and lose no answered version;  *)
(* both serve only migrated records that the program understands, and a    *)
(* fresh local mirror of a branch.                                         *)
(***************************************************************************)
EXTENDS RecordStore, TLAPS

Writing == {"open", "replace", "upload", "return"}
Schemas == {"absent", "torn", "legacy", "foreign", "current"}
Records == [version : 0 .. MaxVersion, schema : Schemas]
Drafts == [build : Builds, record : Records, legacy : BOOLEAN]

Shape ==
    /\ disk \in [Builds -> Records] /\ stable \in [Builds -> Records]
    /\ remote \in [Builds -> Records]
    /\ memory \in [Builds -> 0 .. MaxVersion] /\ answered \in [Builds -> 0 .. MaxVersion]
    /\ pc \in Writing => draft \in Drafts
    /\ powerlosses \in Nat

\* What is known is not behind what is durable, and the record being written is
\* the one that is known.
Ahead ==
    /\ pc \in Writing \cup {"migrating", "serving"} =>
         \A b \in Builds : memory[b] >= Recoverable[b]
    /\ pc = "loading" => \A b \in Builds \ todo : memory[b] >= Recoverable[b]
    /\ pc \in Writing => draft.record.version = memory[draft.build]

\* A persist returns when its record is the one that a start would load.
Effective ==
    /\ pc = "upload" => Remote
    /\ pc = "return" => Authority(draft.build) = draft.record

Inv == Shape /\ Ahead /\ Effective /\ AnsweredSurvives

ContractStep == [Contract!Next]_<<Recoverable, answered>>

LEMMA RecordsAre ==
    ASSUME NEW v \in 0 .. MaxVersion, NEW s \in Schemas
    PROVE  Record(v, s) \in Records /\ Record(v, s).version = v
  BY DEF Record, Records, Schemas

LEMMA RecoverableType ==
    ASSUME Shape
    PROVE  /\ Recoverable \in [Builds -> 0 .. MaxVersion]
           /\ \A b \in Builds : Recoverable[b] = Authority(b).version
  BY DEF Shape, Recoverable, Authority, Records

\* A step of the contract: one record advances, one answer is given, or nothing.
LEMMA Stutters ==
    ASSUME Recoverable' = Recoverable, answered' = answered
    PROVE  ContractStep
  BY DEF ContractStep, Contract!Next

\* The version that is written is new to the store, or it is there already.
LEMMA DraftAdvances ==
    ASSUME Inv, pc \in Writing
    PROVE  /\ draft.build \in Builds /\ draft.record \in Records
           /\ draft.record.version \in 0 .. MaxVersion
           /\ draft.record.version >= Recoverable[draft.build]
  BY RecordsAre DEF Inv, Shape, Ahead, Drafts, Records

LEMMA Advance ==
    ASSUME Inv, pc \in Writing, answered' = answered,
           Recoverable' = [Recoverable EXCEPT ![draft.build] = draft.record.version]
    PROVE  ContractStep /\ AnsweredSurvives'
<1>1. CASE draft.record.version = Recoverable[draft.build]
  <2>1. Recoverable' = Recoverable
    BY <1>1, DraftAdvances, RecoverableType DEF Inv
  <2> QED  BY <2>1, Stutters DEF Inv, AnsweredSurvives
<1>2. CASE draft.record.version > Recoverable[draft.build]
  <2>1. draft.record.version \in Recoverable[draft.build] + 1 .. MaxVersion
    BY <1>2, DraftAdvances, RecoverableType DEF Inv
  <2>2. ContractStep
    BY <2>1, DraftAdvances DEF ContractStep, Contract!Next, Contract!Take
  <2>3. AnsweredSurvives'
    BY <1>2, DraftAdvances, RecoverableType DEF Inv, AnsweredSurvives, Shape
  <2> QED  BY <2>2, <2>3
<1> QED  BY <1>1, <1>2, DraftAdvances, RecoverableType DEF Inv

\* Steps that leave the authority and the answers alone.
LEMMA Quiet ==
    ASSUME Inv, answered' = answered, \A b \in Builds : Authority(b)' = Authority(b)
    PROVE  Recoverable' = Recoverable /\ AnsweredSurvives' /\ ContractStep
<1>1. Recoverable' = Recoverable  BY DEF Recoverable
<1> QED  BY <1>1, Stutters DEF Inv, AnsweredSurvives

LEMMA PersistStep == ASSUME Inv, NEW b \in Builds, Persist(b) PROVE Inv' /\ ContractStep
<1>1. \A x \in Builds : Authority(x)' = Authority(x)
  BY DEF Persist, Authority, files
<1>2. /\ memory[b] + 1 \in 0 .. MaxVersion /\ memory' = [memory EXCEPT ![b] = @ + 1]
      /\ memory[b] \in 0 .. MaxVersion
  BY RecordAssumption DEF Persist, Inv, Shape
<1>3. draft' = [build |-> b, record |-> Record(memory[b] + 1, "current"), legacy |-> FALSE]
      /\ pc' = "open"
  BY DEF Persist
<1>4. draft' \in Drafts /\ draft'.record.version = memory[b] + 1 /\ draft'.build = b
  BY <1>2, <1>3, RecordsAre DEF Drafts, Schemas
<1>5. Shape'  BY <1>2, <1>4 DEF Inv, Shape, Persist, files, bounds
<1>6. Ahead'
  BY <1>1, <1>2, <1>3, <1>4, Quiet, RecoverableType DEF Inv, Ahead, Shape, Persist, Writing
<1>7. Effective'  BY <1>3 DEF Effective
<1> QED  BY <1>1, <1>5, <1>6, <1>7, Quiet DEF Inv, Persist

LEMMA MigrateStep == ASSUME Inv, NEW b \in Builds, Migrate(b) PROVE Inv' /\ ContractStep
<1>1. \A x \in Builds : Authority(x)' = Authority(x)
  BY DEF Migrate, Authority, files
<1>2. memory' = memory /\ memory[b] \in 0 .. MaxVersion
  BY DEF Migrate, Inv, Shape
<1>3. draft' = [build |-> b, record |-> Record(memory[b], "current"), legacy |-> TRUE]
      /\ pc' = "open"
  BY DEF Migrate
<1>4. draft' \in Drafts /\ draft'.record.version = memory[b] /\ draft'.build = b
  BY <1>2, <1>3, RecordsAre DEF Drafts, Schemas
<1>5. Shape'  BY <1>2, <1>4 DEF Inv, Shape, Migrate, files, bounds
<1>6. Ahead'
  BY <1>1, <1>2, <1>3, <1>4, Quiet DEF Inv, Ahead, Migrate, Writing
<1>7. Effective'  BY <1>3 DEF Effective
<1> QED  BY <1>1, <1>5, <1>6, <1>7, Quiet DEF Inv, Migrate

LEMMA OpenStep == ASSUME Inv, Open PROVE Inv' /\ ContractStep
<1>1. disk' = disk  BY DEF Open, AfterOpen, Inv, Shape
<1>2. \A x \in Builds : Authority(x)' = Authority(x)  BY <1>1 DEF Open, Authority
<1>3. Shape' /\ Ahead' /\ Effective'
  BY <1>1, <1>2, Quiet DEF Inv, Shape, Ahead, Effective, Open, Writing, bounds
<1> QED  BY <1>2, <1>3, Quiet DEF Inv, Open

LEMMA ReplaceStep == ASSUME Inv, Replace PROVE Inv' /\ ContractStep
<1>1. /\ draft' = draft /\ memory' = memory /\ remote' = remote /\ answered' = answered
      /\ pc' = AfterReplace /\ pc = "replace" /\ disk' = [disk EXCEPT ![draft.build] = draft.record]
  BY DEF Replace
<1>2. Shape'
  BY <1>1, DraftAdvances DEF Inv, Shape, Replace, Writing, bounds, AfterReplace
<1>3. CASE Remote
  <2>1. \A x \in Builds : Authority(x)' = Authority(x)  BY <1>1, <1>3 DEF Authority
  <2> QED  BY <1>1, <1>2, <1>3, <2>1, Quiet DEF Inv, Ahead, Effective, Writing, AfterReplace
<1>4. CASE ~Remote
  <2>1. Recoverable' = [Recoverable EXCEPT ![draft.build] = draft.record.version]
    BY <1>1, <1>4, DraftAdvances DEF Recoverable, Authority, Writing, Inv, Shape
  <2>2. Ahead'
    BY <1>1, <1>4, <2>1, DraftAdvances, RecoverableType
       DEF Inv, Ahead, Writing, AfterReplace, Shape
  <2>3. Effective'
    BY <1>1, <1>4, DraftAdvances DEF Effective, Authority, AfterReplace, Writing, Inv, Shape
  <2> QED  BY <1>1, <1>2, <2>1, <2>2, <2>3, Advance DEF Inv, Writing
<1> QED  BY <1>3, <1>4

LEMMA UploadStep == ASSUME Inv, Upload PROVE Inv' /\ ContractStep
<1>1. /\ draft' = draft /\ memory' = memory /\ disk' = disk /\ answered' = answered
      /\ pc' = "return" /\ pc = "upload" /\ Remote
      /\ remote' = [remote EXCEPT ![draft.build] = draft.record]
  BY DEF Upload, Inv, Effective
<1>2. Shape'  BY <1>1, DraftAdvances DEF Inv, Shape, Upload, Writing, bounds
<1>3. Recoverable' = [Recoverable EXCEPT ![draft.build] = draft.record.version]
  BY <1>1, DraftAdvances DEF Recoverable, Authority, Writing, Inv, Shape
<1>4. Ahead'
  BY <1>1, <1>3, DraftAdvances, RecoverableType DEF Inv, Ahead, Writing, Shape
<1>5. Effective'  BY <1>1, DraftAdvances DEF Effective, Authority, Writing, Inv, Shape
<1> QED  BY <1>1, <1>2, <1>3, <1>4, <1>5, Advance DEF Inv, Writing

LEMMA ReturnStep == ASSUME Inv, Return PROVE Inv' /\ ContractStep
<1>1. /\ UNCHANGED <<disk, stable, remote, memory>> /\ pc = "return"
      /\ pc' \in {"migrating", "serving"}
      /\ answered' = [answered EXCEPT ![draft.build] = draft.record.version]
  BY DEF Return, Returned, files
<1>2. /\ draft.build \in Builds /\ draft.record.version = Recoverable[draft.build]
      /\ draft.record.version \in 0 .. MaxVersion
  BY <1>1, DraftAdvances, RecoverableType DEF Writing, Inv, Effective
<1>3. Recoverable' = Recoverable  BY <1>1 DEF Recoverable, Authority
<1>4. Shape'  BY <1>1, <1>2 DEF Inv, Shape, Writing, Return, bounds
<1>5. Ahead' /\ Effective'  BY <1>1, <1>3 DEF Inv, Ahead, Effective, Writing
<1>6. AnsweredSurvives'
  BY <1>1, <1>2, <1>3, RecoverableType DEF Inv, AnsweredSurvives, Shape
<1>7. ContractStep
  BY <1>1, <1>2, <1>3 DEF ContractStep, Contract!Next, Contract!Promise
<1> QED  BY <1>4, <1>5, <1>6, <1>7 DEF Inv

LEMMA RaisesStep == ASSUME Inv, Raises PROVE Inv' /\ ContractStep
<1>1. /\ UNCHANGED <<disk, memory, answered, powerlosses, stable>> /\ pc' \in {"down", "serving"}
      /\ pc \in Writing
  BY DEF Raises, Writing
<1>2. CASE remote' = remote
  <2>1. \A x \in Builds : Authority(x)' = Authority(x)  BY <1>1, <1>2 DEF Authority
  <2>2. Shape' /\ Effective'  BY <1>1, <1>2 DEF Inv, Shape, Effective, Writing
  <2>3. Ahead'  BY <1>1, <2>1, Quiet DEF Inv, Ahead, Writing
  <2> QED  BY <1>1, <2>1, <2>2, <2>3, Quiet DEF Inv
<1>3. CASE pc = "upload" /\ remote' = [remote EXCEPT ![draft.build] = draft.record]
  <2>1. Remote  BY <1>3 DEF Inv, Effective
  <2>2. Recoverable' = [Recoverable EXCEPT ![draft.build] = draft.record.version]
    BY <1>1, <1>3, <2>1, DraftAdvances DEF Recoverable, Authority, Inv, Shape
  <2>3. Shape' /\ Effective'
    BY <1>1, <1>3, DraftAdvances DEF Inv, Shape, Effective, Writing
  <2>4. Ahead'
    BY <1>1, <2>2, DraftAdvances, RecoverableType DEF Inv, Ahead, Writing, Shape
  <2> QED  BY <1>1, <2>2, <2>3, <2>4, Advance DEF Inv
<1> QED  BY <1>2, <1>3 DEF Raises

LEMMA StartStep == ASSUME Inv, Start PROVE Inv' /\ ContractStep
<1>1. \A x \in Builds : Authority(x)' = Authority(x)
  BY DEF Start, Authority, Mirrored, Inv, Shape
<1>2. Shape'
  <2>1. Absent \in Records  BY RecordsAre, RecordAssumption DEF Absent, Schemas
  <2>2. 0 \in 0 .. MaxVersion  BY RecordAssumption
  <2> QED  BY <2>1, <2>2 DEF Inv, Shape, Start, Mirrored, Writing, bounds
<1>3. Ahead'
  <2>1. \A b \in Builds \ todo' : Recoverable[b] = 0
    BY RecoverableType, RecordsAre, RecordAssumption DEF Start, Inv, Absent, Schemas
  <2>2. pc' = "loading" /\ \A b \in Builds : memory'[b] = 0  BY DEF Start
  <2> QED  BY <1>1, <2>1, <2>2, Quiet DEF Ahead, Writing, Start
<1> QED  BY <1>1, <1>2, <1>3, Quiet DEF Inv, Effective, Start

LEMMA LoadStep == ASSUME Inv, NEW b \in Builds, LoadOne(b) PROVE Inv' /\ ContractStep
<1>1. \A x \in Builds : Authority(x)' = Authority(x)
  BY DEF LoadOne, Download, Authority, Inv, Shape
<1>2. Recoverable[b] \in 0 .. MaxVersion /\ Recoverable[b] = Authority(b).version
  BY RecoverableType DEF Inv
<1>3. Shape'  BY <1>2 DEF Inv, Shape, LoadOne, Download, Writing, bounds
<1>4. Ahead'
  BY <1>1, <1>2, Quiet DEF Ahead, Inv, Shape, LoadOne, Writing
<1> QED  BY <1>1, <1>3, <1>4, Quiet DEF Inv, Effective, LoadOne

\* The start ends over a damaged file, whose local copy was replaced.
LEMMA UnreadableStep == ASSUME Inv, NEW b \in Builds, LoadUnreadable(b) PROVE Inv' /\ ContractStep
<1>1. \A x \in Builds : Authority(x)' = Authority(x)
  BY DEF LoadUnreadable, Download, Authority
<1>2. Shape'  BY DEF Inv, Shape, LoadUnreadable, Download, Writing, bounds
<1>3. Ahead' /\ Effective'  BY DEF Ahead, Effective, LoadUnreadable, Writing
<1> QED  BY <1>1, <1>2, <1>3, Quiet DEF Inv, LoadUnreadable

\* Control moves on, or back to the start, and no authority changes.
LEMMA ControlStep ==
    ASSUME Inv, Loaded \/ Serve \/ (\E b \in Builds : Refuse(b)) 
                \/ LoadRaises \/ Crash \/ (\E b \in Builds : WriteBack(b)) \/ UNCHANGED vars
    PROVE  Inv' /\ ContractStep
<1>1. /\ memory' = memory /\ answered' = answered
      /\ pc' \in Writing => pc' = pc /\ draft' = draft
      /\ pc' \in {"migrating", "serving"} =>
           \/ pc' = pc
           \/ pc = "migrating"
           \/ pc = "loading" /\ todo = {}
      /\ pc' = "loading" => pc = "loading" /\ todo' = todo
  BY DEF Loaded, Serve, Refuse, LoadRaises, Crash, Died, WriteBack, vars, files, Writing
<1>2. \A x \in Builds : Authority(x)' = Authority(x)
  BY DEF Loaded, Serve, Refuse, LoadRaises, Crash, WriteBack, vars, files, Authority
<1>3. Torn \in Records  BY RecordsAre, RecordAssumption DEF Torn, Schemas
<1>4. Shape'
  <2>1. CASE Crash  BY <1>1, <1>3, <2>1 DEF Crash, Died, Inv, Shape, Writing
  <2>2. CASE \E b \in Builds : WriteBack(b)
    BY <1>1, <2>2 DEF WriteBack, Inv, Shape, bounds
  <2>3. CASE Loaded \/ Serve \/ (\E b \in Builds : Refuse(b)) \/ LoadRaises \/ UNCHANGED vars
    BY <1>1, <2>3 DEF Loaded, Serve, Refuse, LoadRaises, vars, files, bounds, Inv, Shape
  <2> QED  BY <2>1, <2>2, <2>3
<1>5. Ahead'  BY <1>1, <1>2, Quiet DEF Inv, Ahead, Writing
<1>6. Effective'
  <2>1. CASE pc' \in Writing
    <3>1. /\ pc' = pc /\ draft' = draft  BY <1>1, <2>1
    <3>2. pc = "return" => draft.build \in Builds  BY DraftAdvances DEF Writing
    <3> QED  BY <1>2, <3>1, <3>2 DEF Inv, Effective
  <2>2. CASE pc' \notin Writing  BY <2>2 DEF Effective, Writing
  <2> QED  BY <2>1, <2>2
<1> QED  BY <1>1, <1>2, <1>4, <1>5, <1>6, Quiet DEF Inv

\* A power failure takes directory entries back, which only a local store reads.
LEMMA PowerStep ==
    ASSUME Remote \/ MaxPowerLosses = 0, Inv, PowerLoss
    PROVE  Inv' /\ ContractStep
<1>1. Remote  BY DEF PowerLoss, Inv, Shape
<1>2. \A x \in Builds : Authority(x)' = Authority(x)  BY <1>1 DEF PowerLoss, Authority
<1>3. Shape' /\ Ahead' /\ Effective'
  BY DEF PowerLoss, Died, Inv, Shape, Ahead, Effective, Writing
<1> QED  BY <1>2, <1>3, Quiet DEF Inv, PowerLoss

LEMMA InvStep ==
    ASSUME Remote \/ MaxPowerLosses = 0, Inv, [Next]_vars
    PROVE  Inv' /\ ContractStep
  BY PersistStep, MigrateStep, OpenStep, ReplaceStep, UploadStep, ReturnStep, RaisesStep,
     StartStep, LoadStep, UnreadableStep, ControlStep, PowerStep DEF Next, Run

LEMMA InvInit == ASSUME Init PROVE Inv /\ Contract!Init
<1>1. 0 \in 0 .. MaxVersion /\ 1 \in 0 .. MaxVersion
  BY RecordAssumption
<1>2. Found \subseteq Records
  BY <1>1, RecordsAre DEF Found, Absent, Torn, Schemas
<1>3. /\ disk \in [Builds -> Records] /\ stable \in [Builds -> Records]
      /\ remote \in [Builds -> Records]
  BY <1>2 DEF Init, Found
<1>4. Recoverable \in [Builds -> 0 .. MaxVersion]
  BY <1>3 DEF Recoverable, Authority, Records
<1>5. Shape  BY <1>1, <1>3, <1>4 DEF Init, Shape, Writing
<1>6. Ahead /\ Effective  BY DEF Init, Ahead, Effective, Writing
<1>7. AnsweredSurvives
  <2>1. answered = Recoverable  BY DEF Init
  <2>2. \A b \in Builds : Recoverable[b] >= Recoverable[b]  BY <1>4
  <2> QED  BY <2>1, <2>2 DEF AnsweredSurvives
<1>8. Contract!Init  BY <1>4 DEF Init, Contract!Init
<1> QED  BY <1>5, <1>6, <1>7, <1>8 DEF Inv

\* A version that persist_record returned for is loaded by every later start: of
\* the branch, or of a disk whose directory entries survive.
THEOREM AnsweredAlwaysSurvives ==
    ASSUME Remote \/ MaxPowerLosses = 0
    PROVE  Spec => []AnsweredSurvives
<1>1. Init => Inv  BY InvInit
<1>2. Inv /\ [Next]_vars => Inv'  BY InvStep
<1>3. Inv => AnsweredSurvives  BY DEF Inv
<1> QED  BY <1>1, <1>2, <1>3, PTL DEF Spec

\* Both stores implement the contract that the service's model is built on.
THEOREM StoresKeepContract ==
    ASSUME Remote \/ MaxPowerLosses = 0
    PROVE  Spec => KeepsContract
<1>1. Init => Inv /\ Contract!Init  BY InvInit
<1>2. Inv /\ [Next]_vars => Inv'  BY InvStep
<1>3. Inv /\ [Next]_vars => [Contract!Next]_<<Recoverable, answered>>
  BY InvStep DEF ContractStep
<1> QED  BY <1>1, <1>2, <1>3, PTL DEF Spec, KeepsContract, Contract!Spec

-----------------------------------------------------------------------------
(* What a start leaves behind: no legacy record, and a fresh mirror.  The  *)
(* arguments are about the control of the start and hold with power        *)
(* failures too, so they rest on an invariant of their own.                *)

Files == [version : Nat, schema : Schemas]

Functions == /\ stable \in [Builds -> Files] /\ disk \in [Builds -> Files]
             /\ remote \in [Builds -> Files] /\ memory \in [Builds -> Nat]

\* The draft is a record of the present version, of a build of the store.
Drafted ==
    /\ pc \in Writing => /\ draft.build \in Builds /\ draft.record \in Files
                         /\ draft.record.schema = "current"
    /\ pc = "upload" => Remote

\* The builds whose legacy or foreign record the start has still to meet.
Unmigrated ==
    IF pc = "migrating" THEN todo
    ELSE IF pc \in Writing /\ draft.legacy
         THEN todo \cup (IF pc = "return" THEN {} ELSE {draft.build})
         ELSE {}

\* Once the records are loaded, every legacy or foreign one is still on the list, and
\* the branch has no damaged one.
LegaciesAreListed ==
    pc \in Writing \cup {"migrating", "serving"} =>
        \A b \in Builds : /\ Legacy(b) \/ Foreign(b) => b \in Unmigrated
                          /\ ~Unreadable(b)

\* What the start has visited of the branch was not damaged.
VisitedParse == pc = "loading" => \A b \in Builds \ todo : ~Unreadable(b)

Fresh(b) == disk[b] = remote[b] /\ memory[b] = remote[b].version

\* While a start visits the branch, what it has visited is mirrored, but for the
\* record that _load is writing.
MirrorFollows ==
    Remote =>
      /\ pc = "loading" => \A b \in Builds \ todo : Fresh(b)
      /\ pc = "migrating" => \A b \in Builds : Fresh(b)
      /\ pc \in Writing /\ draft.legacy =>
           /\ \A b \in Builds \ {draft.build} : Fresh(b)
           /\ draft.record.version = memory[draft.build]
           /\ pc \in {"upload", "return"} => disk[draft.build] = draft.record
           /\ pc = "return" => remote[draft.build] = draft.record

StartInv == Functions /\ Drafted /\ LegaciesAreListed /\ VisitedParse /\ MirrorFollows

LEMMA FilesAre ==
    /\ \A v \in Nat : \A s \in Schemas :
          Record(v, s) \in Files /\ Record(v, s).version = v /\ Record(v, s).schema = s
    /\ Absent \in Files /\ Torn \in Files /\ Absent.version = 0 /\ Absent.schema = "absent"
  BY DEF Record, Files, Absent, Torn, Schemas

LEMMA StartInvStep == ASSUME StartInv, [Next]_vars PROVE StartInv'
<1> USE DEF StartInv, Functions, Drafted, LegaciesAreListed, VisitedParse, MirrorFollows,
            Unmigrated, Legacy, Foreign, Unreadable, Authority, Fresh, Writing
<1>1. CASE \E b \in Builds : Persist(b)
  <2>1. PICK b \in Builds : Persist(b)  BY <1>1
  <2>2. /\ UNCHANGED files /\ pc' = "open" /\ pc = "serving"
        /\ memory' = [memory EXCEPT ![b] = @ + 1]
        /\ draft'.build = b /\ draft'.record = Record(memory[b] + 1, "current")
        /\ ~draft'.legacy
    BY <2>1 DEF Persist
  <2> QED  BY <2>2, FilesAre DEF files, Schemas
<1>2. CASE \E b \in Builds : Migrate(b)
  <2>1. PICK b \in Builds : Migrate(b)  BY <1>2
  <2>2. /\ UNCHANGED <<files, memory>> /\ pc' = "open" /\ pc = "migrating"
        /\ b \in todo /\ todo' = todo \ {b}
        /\ draft'.build = b /\ draft'.record = Record(memory[b], "current")
        /\ draft'.legacy
    BY <2>1 DEF Migrate
  <2> QED  BY <2>2, FilesAre DEF files, Schemas
<1>3. CASE Open
  <2>1. disk' = disk  BY <1>3 DEF Open, AfterOpen
  <2> QED  BY <1>3, <2>1 DEF Open
<1>4. CASE Replace  BY <1>4 DEF Replace, AfterReplace
<1>5. CASE Upload  BY <1>5 DEF Upload
<1>6. CASE Return  BY <1>6 DEF Return, Returned, files
<1>7. CASE Raises  BY <1>7 DEF Raises
<1>8. CASE Start  BY <1>8, FilesAre DEF Start, Mirrored
<1>9. CASE \E b \in Builds : LoadOne(b)
  <2>1. PICK b \in Builds : LoadOne(b)  BY <1>9
  <2>2. /\ pc = "loading" /\ pc' = pc /\ remote' = remote /\ draft' = draft
        /\ todo' = todo \ {b}
        /\ memory' = [memory EXCEPT ![b] = Authority(b).version]
        /\ disk' = IF Remote THEN [disk EXCEPT ![b] = remote[b]] ELSE disk
    BY <2>1 DEF LoadOne, Download
  <2>3. Functions'
    <3>1. Authority(b) \in Files  BY <2>1
    <3>2. Authority(b).version \in Nat  BY <3>1 DEF Files
    <3>3. memory' \in [Builds -> Nat]  BY <2>2, <3>2
    <3>4. disk' \in [Builds -> Files]  BY <2>2
    <3>5. stable' = stable  BY <2>1 DEF LoadOne
    <3> QED  BY <2>2, <3>3, <3>4, <3>5
  <2>4. (Drafted /\ LegaciesAreListed /\ VisitedParse)'  BY <2>1, <2>2 DEF LoadOne
  <2>5. ASSUME Remote PROVE \A x \in Builds \ todo' : Fresh(x)'
    <3>1. Fresh(b)'  BY <2>2, <2>5
    <3>2. \A x \in Builds \ todo : x # b => Fresh(x)'  BY <2>2, <2>5
    <3> QED  BY <2>2, <3>1, <3>2
  <2>6. MirrorFollows'  BY <2>2, <2>5
  <2> QED  BY <2>3, <2>4, <2>6
<1>10. CASE Loaded  BY <1>10 DEF Loaded, files
<1>11. CASE Serve  BY <1>11 DEF Serve, files
<1>12. CASE LoadRaises \/ Crash \/ PowerLoss
  <2>1. pc' = "down" /\ memory' = memory /\ remote' = remote
    BY <1>12 DEF LoadRaises, Crash, PowerLoss, Died, files
  <2>2. stable' = stable  BY <1>12 DEF LoadRaises, Crash, PowerLoss, files
  <2>3. disk' \in [Builds -> Files]
    <3>1. \A b \in Builds : [disk EXCEPT ![b] = Torn] \in [Builds -> Files]  BY FilesAre
    <3>2. CASE Crash
      <4>1. \/ disk' = disk
            \/ \E b \in todo : disk' = [disk EXCEPT ![b] = Torn]
        BY <3>2 DEF Crash
      <4> QED  BY <3>1, <4>1
    <3> QED  BY <1>12, <3>2 DEF LoadRaises, PowerLoss, files
  <2> QED  BY <2>1, <2>2, <2>3
<1>13. CASE \E b \in Builds : LoadUnreadable(b)
  <2>1. /\ pc' = "down" /\ memory' = memory /\ remote' = remote /\ stable' = stable
        /\ \E b \in Builds : disk' = [disk EXCEPT ![b] = remote[b]]
    BY <1>13 DEF LoadUnreadable, Download
  <2> QED  BY <2>1
<1>14. CASE \E b \in Builds : Refuse(b)  BY <1>14 DEF Refuse, files
<1>15. CASE (\E b \in Builds : WriteBack(b)) \/ UNCHANGED vars
  BY <1>15 DEF WriteBack, vars, files
<1> QED
  BY <1>1, <1>2, <1>3, <1>4, <1>5, <1>6, <1>7, <1>8, <1>9, <1>10, <1>11, <1>12, <1>13,
     <1>14, <1>15
     DEF Next, Run

LEMMA StartInvInit == ASSUME Init PROVE StartInv
<1>1. Functions
  <2>1. Found \subseteq Files /\ Absent \in Files  BY FilesAre DEF Found, Schemas
  <2> QED  BY <2>1 DEF Init, Functions
<1> QED  BY <1>1 DEF StartInv, Init, Drafted, LegaciesAreListed, VisitedParse, MirrorFollows, Writing

\* However many starts failed in the middle of the rewriting, and whatever a power
\* failure brought back, requests are only served over current records.
THEOREM AlwaysServesMigrated == Spec => []ServesMigrated
<1>1. Init => StartInv  BY StartInvInit
<1>2. StartInv /\ [Next]_vars => StartInv'  BY StartInvStep
<1>3. StartInv => ServesMigrated
  BY DEF StartInv, LegaciesAreListed, ServesMigrated, Unmigrated, Legacy, Writing
<1> QED  BY <1>1, <1>2, <1>3, PTL DEF Spec

\* A start serves no authority of which it could not use a record: it ends at a
\* damaged record of the branch and at one of a later version, in every order of them.
THEOREM AlwaysServesReadable == Spec => []ServesReadable
<1>1. Init => StartInv  BY StartInvInit
<1>2. StartInv /\ [Next]_vars => StartInv'  BY StartInvStep
<1>3. ASSUME StartInv, pc = "serving", NEW b \in Builds  PROVE Usable(b)
  <2>1. ~Foreign(b) /\ ~Unreadable(b)
    BY <1>3 DEF StartInv, LegaciesAreListed, Unmigrated, Foreign, Writing
  <2> QED  BY <2>1 DEF Usable, Foreign, Unreadable, Authority
<1>4. StartInv => ServesReadable  BY <1>3 DEF ServesReadable
<1> QED  BY <1>1, <1>2, <1>4, PTL DEF Spec

\* The service of a Hugging Face store starts on the records of the branch: what
\* it knows and the local mirror are both those versions.
THEOREM MirrorIsAlwaysFresh == Spec => MirrorIsFresh
<1> DEFINE A == Serve /\ Remote =>
                  \A b \in Builds : disk[b] = remote[b] /\ memory[b] = remote[b].version
<1>1. Init => StartInv  BY StartInvInit
<1>2. StartInv /\ [Next]_vars => StartInv'  BY StartInvStep
<1>3. StartInv /\ [Next]_vars => [A]_vars
  BY DEF StartInv, MirrorFollows, Serve, Fresh
<1> HIDE DEF A
<1>4. Spec => [][A]_vars  BY <1>1, <1>2, <1>3, PTL DEF Spec
<1> QED  BY <1>4 DEF MirrorIsFresh, A

=============================================================================
