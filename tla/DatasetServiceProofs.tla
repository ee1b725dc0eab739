------------------------ MODULE DatasetServiceProofs ------------------------
(***************************************************************************)
(* Proofs about DatasetService, for any number of builds, keys, handlers,  *)
(* crashes and failing calls and for both backends.                        *)
(*                                                                         *)
(* The argument: a purge begins only from a state that has ended, which no *)
(* step of the same process leaves, and is durable before the store is     *)
(* touched; the worker's build is in progress until it is published and is *)
(* older than all queued ones. So what is removed is never what is being   *)
(* built, queued or read, and recovery, which starts from the durable      *)
(* records with nobody else running, keeps it that way.                    *)
(***************************************************************************)
EXTENDS DatasetServiceRefinement, FiniteSets, SequenceTheorems, FiniteSetTheorems,
        FunctionTheorems, TLAPS

InProgress == Pending \cup Active

\* The worker holds a build in progress, whose tree is complete once the
\* pipeline went past MATERIALIZING.
WorkerInv ==
    /\ worker \in {"mkdir", "update", "work", "publish", "except", "finally", "dying"}
          => active \in Builds
    /\ worker = "mkdir" => memory[active].state \in Pending
    /\ worker = "update" => /\ memory[active].state \in InProgress \ {"VERIFYING"}
                            /\ memory[active].state = "MATERIALIZING" => tree[active] = "complete"
    /\ worker = "work" => /\ memory[active].state \in Active
                          /\ memory[active].state = "VERIFYING" => tree[active] = "complete"
    /\ worker = "publish" => memory[active].state = "VERIFYING" /\ tree[active] = "complete"

\* A handler works on a submitted build that it acknowledged, or that has
\* ended for good; what it removes has durably ended.
HandlerOK(h) ==
    LET b == handler[h].build
    IN  handler[h].pc # "idle" =>
        /\ b \in 1 .. submitted
        /\ handler[h].op \in {"ack", "purge"}
        /\ handler[h].op = "ack" => memory[b].reg # None /\ memory[b].hash # NoBuild
        /\ handler[h].op = "purge" => memory[b].cmd # None /\ memory[b].state \in Ended
        /\ handler[h].pc \in {"store", "remove", "finish"} => handler[h].op = "purge"
        /\ handler[h].pc \in {"store", "remove"} => durable[b].state \in Ended
HandlerInv == \A h \in Handlers : HandlerOK(h)

\* Only submitted builds have records.
PresenceInv ==
    /\ \A b \in Builds : memory[b].state # "ABSENT" \/ durable[b].state # "ABSENT"
                            => b <= submitted
    /\ active <= submitted

\* Until the process serves only its constructor runs, and a build that has
\* ended in the loaded records has durably ended.
BootInv ==
    /\ ~Serving => worker = "none" /\ active = NoBuild /\ \A h \in Handlers : handler[h] = Idle
    /\ boot.pc = "down" => queue = <<>> /\ \A b \in Builds : memory[b] = NoRecord
    /\ boot.pc \notin {"down", "serving"} =>
          \A b \in Builds : memory[b].state \in Ended => durable[b].state \in Ended
    /\ boot.pc \in {"removing", "cleaning", "clearing", "finishing"} =>
          boot.build \in Builds /\ memory[boot.build].state = "DELETING"

\* While builds are queued again, those still to come are the younger ones.
QueueInv ==
    /\ QueueIsFIFO
    /\ boot.pc \notin {"down", "serving"} =>
          \A i \in 1 .. Len(queue), c \in Unqueued : queue[i] < c

\* The inductive invariant.
IndInv ==
    /\ TypeOK /\ WorkerInv /\ HandlerInv /\ PresenceInv /\ BootInv /\ QueueInv
    /\ VisibleIsComplete
-----------------------------------------------------------------------------
(* Records and the two writes                                              *)

\* Changing one field of a record leaves it a record with the other fields.
LEMMA RecordState ==
    ASSUME NEW rec \in Record, NEW s \in States
    PROVE  /\ [rec EXCEPT !.state = s] \in Record
           /\ [rec EXCEPT !.state = s] = [rec EXCEPT !.state = s]
           /\ [rec EXCEPT !.state = s].state = s
           /\ [rec EXCEPT !.state = s].hash = rec.hash
           /\ [rec EXCEPT !.state = s].reg = rec.reg
           /\ [rec EXCEPT !.state = s].cmd = rec.cmd
BY DEF Record

\* A write, whether it returns or raises, changes at most the durable record
\* of its build, to one of the state and hash of the record written.
LEMMA WriteDurable ==
    ASSUME TypeOK, NEW b \in Builds, NEW rec \in Record, Saved(b, rec) \/ NotSaved(b, rec)
    PROVE  /\ durable' \in [Builds -> Record]
           /\ \A c \in Builds : c # b => durable'[c] = durable[c]
           /\ \/ durable'[b] = durable[b]
              \/ durable'[b].state = rec.state /\ durable'[b].hash = rec.hash
           /\ Saved(b, rec) => durable'[b].state = rec.state
           /\ faults' \in 0 .. MaxFaults
<1>1. Serialize(rec) \in Record
  BY DEF Serialize, Record
<1>2. Serialize(rec).state = rec.state /\ Serialize(rec).hash = rec.hash
  BY DEF Serialize, Record
<1>3. durable \in [Builds -> Record] /\ faults \in 0 .. MaxFaults
  BY DEF TypeOK
<1>4. faults' \in 0 .. MaxFaults
  BY <1>3, BoundsAssumption DEF Saved, NotSaved, Fault
<1> QED
  BY <1>1, <1>2, <1>3, <1>4 DEF Saved, NotSaved

\* The record that replaces a build's record does not revive it, is visible
\* only over a complete tree, and forgets neither hash, registration nor purge.
Keeps(b, rec) ==
    /\ memory[b].state \in Ended => rec.state \in Ended
    /\ rec.state \in Visible => tree[b] = "complete" /\ rec.hash = b
    /\ memory[b].hash # NoBuild => rec.hash # NoBuild
    /\ memory[b].reg # None => rec.reg # None
    /\ memory[b].cmd # None => rec.cmd # None

\* What every locked region that rewrites the record of one build preserves.
LEMMA WritePreserves ==
    ASSUME IndInv, NEW b \in Builds, NEW rec \in Record, Keeps(b, rec),
           b <= submitted, UNCHANGED <<tree, submitted>>,
           Remember(b, rec), Saved(b, rec) \/ NotSaved(b, rec)
    PROVE  /\ memory' \in [Builds -> Record] /\ memory'[b] = rec
           /\ \A c \in Builds : c # b => memory'[c] = memory[c]
           /\ durable' \in [Builds -> Record] /\ faults' \in 0 .. MaxFaults
           /\ VisibleIsComplete'
           /\ active' <= submitted => PresenceInv'
           /\ \A h \in Handlers : handler'[h] = handler[h] => HandlerOK(h)'
<1>1. TypeOK /\ submitted \in 0 .. MaxBuilds
  BY DEF IndInv, TypeOK
<1>2. /\ memory' \in [Builds -> Record] /\ memory'[b] = rec
      /\ \A c \in Builds : c # b => memory'[c] = memory[c]
  BY <1>1 DEF TypeOK, Remember
<1>3. /\ durable' \in [Builds -> Record] /\ faults' \in 0 .. MaxFaults
      /\ \A c \in Builds : c # b => durable'[c] = durable[c]
      /\ \/ durable'[b] = durable[b]
         \/ durable'[b].state = rec.state /\ durable'[b].hash = rec.hash
  BY <1>1, WriteDurable
<1>4. VisibleIsComplete'
  BY <1>2, <1>3 DEF IndInv, VisibleIsComplete, Keeps
<1>5. active' <= submitted => PresenceInv'
  BY <1>2, <1>3 DEF IndInv, PresenceInv
<1>6. ASSUME NEW h \in Handlers, handler'[h] = handler[h]
      PROVE  HandlerOK(h)'
  <2>1. HandlerOK(h)
    BY DEF IndInv, HandlerInv
  <2>2. handler[h].pc # "idle" => handler[h].build \in Builds
    BY <1>1, <2>1, BoundsAssumption DEF HandlerOK, Builds
  <2> QED
    BY <1>2, <1>3, <1>6, <2>1, <2>2 DEF HandlerOK, Keeps
<1> QED
  BY <1>2, <1>3, <1>4, <1>5, <1>6

\* What is queued is pending and was submitted.
LEMMA QueuedIsPending ==
    ASSUME IndInv, NEW i \in 1 .. Len(queue)
    PROVE  /\ queue[i] \in Builds /\ queue[i] <= submitted
           /\ memory[queue[i]].state \in Pending
<1>1. queue[i] \in Builds
  BY DEF IndInv, TypeOK
<1>2. memory[queue[i]].state \in Pending
  BY DEF IndInv, QueueInv, QueueIsFIFO
<1>3. memory[queue[i]].state # "ABSENT"
  BY <1>2 DEF Pending
<1> QED
  BY <1>1, <1>2, <1>3 DEF IndInv, PresenceInv

\* A submission's write: the build is new and leaves every other one alone.
LEMMA SubmitNewPreserves ==
    ASSUME IndInv, NEW k \in Keys, NEW r \in Requests, SubmitNew(k, r)
    PROVE  IndInv'
<1> DEFINE b == submitted + 1
           waiting == active # NoBuild \/ queue # <<>>
           rec == [NoRecord EXCEPT !.state = IF waiting THEN "QUEUED" ELSE "CREATED",
                                   !.key = k, !.request = r]
<1>1. /\ b \in Builds /\ submitted \in 0 .. MaxBuilds /\ submitted' = b
      /\ submitted' \in 0 .. MaxBuilds /\ submitted < b
  BY BoundsAssumption DEF IndInv, TypeOK, SubmitNew, Builds
<1>2. rec \in Record /\ rec.state \in Pending
  BY DEF Record, NoRecord, States, Pending, NoBuild
<1>3. /\ memory' = [memory EXCEPT ![b] = rec] /\ (Saved(b, rec) \/ NotSaved(b, rec))
      /\ queue' = Append(queue, b) /\ idempotency' = [idempotency EXCEPT ![k] = b]
      /\ UNCHANGED <<active, closed, handler, boot, tree, workspace, crashes>>
      /\ Serving
  BY DEF SubmitNew, Remember
<1>4. /\ durable' \in [Builds -> Record]
      /\ \A c \in Builds : c # b => durable'[c] = durable[c]
      /\ \/ durable'[b] = durable[b]
         \/ durable'[b].state = rec.state /\ durable'[b].hash = rec.hash
      /\ faults' \in 0 .. MaxFaults
  BY <1>1, <1>2, <1>3, WriteDurable DEF IndInv
<1>5. worker' = worker \/ (worker = "wait" /\ worker' = "loop")
  <2>1. worker' = worker \/ worker' = Notified
    BY DEF SubmitNew
  <2> QED
    BY <2>1 DEF Notified
<1>6. answered' \subseteq Answers
  <2>1. SubmitAnswer(b, k, r) \in Answers
    BY <1>1 DEF SubmitAnswer, Answers
  <2> QED
    BY <2>1 DEF SubmitNew, Answer, IndInv, TypeOK
<1> HIDE DEF b, rec
<1>7. memory' \in [Builds -> Record] /\ memory'[b] = rec /\ \A c \in Builds \ {b} : memory'[c] = memory[c]
  BY <1>1, <1>2, <1>3 DEF IndInv, TypeOK
<1>10. TypeOK'
  BY <1>1, <1>3, <1>4, <1>5, <1>6, <1>7 DEF IndInv, TypeOK, WorkerPcs
<1>11. WorkerInv'
  BY <1>1, <1>3, <1>5, <1>7 DEF IndInv, TypeOK, WorkerInv, PresenceInv, Builds
<1>12. HandlerInv'
  <2> SUFFICES ASSUME NEW h \in Handlers, handler[h].pc # "idle"
               PROVE  /\ handler[h].build \in 1 .. submitted'
                      /\ handler[h].build \in Builds /\ handler[h].build # b
    BY <1>3, <1>4, <1>7 DEF HandlerInv, HandlerOK, IndInv
  <2>1. handler[h].build \in 1 .. submitted
    BY DEF IndInv, HandlerInv, HandlerOK
  <2> QED
    BY <1>1, <2>1, BoundsAssumption DEF Builds
<1>13. PresenceInv'
  BY <1>1, <1>3, <1>4, <1>7 DEF IndInv, TypeOK, PresenceInv, Builds
<1>14. BootInv'
  BY <1>1, <1>3 DEF IndInv, BootInv, Serving
<1>15. QueueInv'
  <2>1. \A i \in 1 .. Len(queue) : queue[i] \in Builds /\ queue[i] < b
    BY <1>1, QueuedIsPending DEF Builds
  <2>2. /\ Len(queue') = Len(queue) + 1 /\ Len(queue) \in Nat
        /\ \A i \in 1 .. Len(queue) : queue'[i] = queue[i]
        /\ queue'[Len(queue) + 1] = b
    BY <1>1, <1>3 DEF IndInv, TypeOK
  <2>3. QueueIsFIFO /\ Len(queue) \in Nat /\ active <= submitted /\ submitted \in Nat
    BY <2>2, <1>1 DEF IndInv, QueueInv, PresenceInv
  <2>4. \A i, j \in 1 .. Len(queue') : i < j => queue'[i] < queue'[j]
    BY <2>1, <2>2, <2>3 DEF QueueIsFIFO
  <2>5. \A i \in 1 .. Len(queue') : memory'[queue'[i]].state \in Pending
    BY <1>1, <1>2, <1>7, <2>1, <2>2, QueuedIsPending DEF Builds
  <2>6. active' # NoBuild => \A c \in Queued' : active' < c
    <3> SUFFICES ASSUME active # NoBuild, NEW i \in 1 .. Len(queue')
                 PROVE  active < queue'[i]
      BY <1>3 DEF Queued
    <3>1. CASE i \in 1 .. Len(queue)
      BY <2>2, <2>3, <3>1 DEF QueueIsFIFO, Queued
    <3>2. CASE i = Len(queue) + 1
      <4>1. active \in Nat /\ b \in Nat
        BY <1>1 DEF IndInv, TypeOK, Builds, NoBuild
      <4> QED
        BY <1>1, <2>2, <2>3, <3>2, <4>1
    <3> QED
      BY <2>2, <3>1, <3>2
  <2> QED
    BY <1>3, <2>4, <2>5, <2>6 DEF QueueInv, QueueIsFIFO, Serving
<1>16. VisibleIsComplete'
  BY <1>1, <1>2, <1>3, <1>4, <1>7
  DEF IndInv, TypeOK, VisibleIsComplete, PresenceInv, Pending, Visible
<1> QED
  BY <1>10, <1>11, <1>12, <1>13, <1>14, <1>15, <1>16 DEF IndInv

\* An answer from memory changes nothing else.
LEMMA AnswerPreserves ==
    ASSUME IndInv, UNCHANGED <<process, disk, submitted, crashes, faults>>,
           NEW a \in Answers, Answer(a)
    PROVE  IndInv'
<1>1. answered' \subseteq Answers
  BY DEF IndInv, TypeOK, Answer
<1>2. TypeOK'
  BY <1>1 DEF IndInv, TypeOK, process, disk
<1>3. WorkerInv' /\ PresenceInv' /\ VisibleIsComplete'
  BY DEF IndInv, WorkerInv, PresenceInv, VisibleIsComplete, process, disk
<1>4. HandlerInv' /\ BootInv'
  BY DEF IndInv, HandlerInv, HandlerOK, BootInv, Serving, process, disk
<1>5. QueueInv'
  BY DEF IndInv, QueueInv, QueueIsFIFO, Unqueued, Queued, process, disk
<1> QED
  BY <1>2, <1>3, <1>4, <1>5 DEF IndInv

\* The worker need not mind what others do to a build that it does not hold,
\* or to one that is not in progress any more.
LEMMA WorkerUndisturbed ==
    ASSUME WorkerInv, UNCHANGED <<worker, active>>,
           active \in Builds => \/ /\ memory'[active].state = memory[active].state
                                  /\ tree'[active] = tree[active]
                               \/ memory[active].state \notin InProgress
    PROVE  WorkerInv'
BY DEF WorkerInv, InProgress, Active

\* The locked region of a handler: it rewrites the record of a build that the
\* worker does not hold, or leaves its state alone.
LEMMA HandlerWritePreserves ==
    ASSUME IndInv, Serving, NEW b \in Builds, NEW rec \in Record, Keeps(b, rec),
           b <= submitted,
           rec.state = memory[b].state \/ memory[b].state \notin InProgress,
           Remember(b, rec), Saved(b, rec) \/ NotSaved(b, rec),
           UNCHANGED <<idempotency, queue, active, closed, worker, boot, tree, workspace,
                       submitted, crashes>>,
           handler' \in [Handlers -> HandlerStates],
           \A h \in Handlers : handler'[h] = handler[h] \/ HandlerOK(h)',
           answered' \subseteq Answers
    PROVE  IndInv'
<1>1. active' <= submitted
  BY DEF IndInv, PresenceInv
<1>2. /\ memory' \in [Builds -> Record] /\ memory'[b] = rec
      /\ \A c \in Builds : c # b => memory'[c] = memory[c]
      /\ durable' \in [Builds -> Record] /\ faults' \in 0 .. MaxFaults
      /\ VisibleIsComplete' /\ PresenceInv'
      /\ \A h \in Handlers : handler'[h] = handler[h] => HandlerOK(h)'
  BY <1>1, WritePreserves
<1>3. TypeOK'
  BY <1>2 DEF IndInv, TypeOK
<1>4. WorkerInv'
  <2>1. active \in Builds => \/ /\ memory'[active].state = memory[active].state
                                /\ tree'[active] = tree[active]
                             \/ memory[active].state \notin InProgress
    BY <1>2
  <2> QED
    BY <2>1, WorkerUndisturbed DEF IndInv
<1>5. HandlerInv'
  BY <1>2 DEF HandlerInv
<1>6. BootInv'
  BY DEF IndInv, BootInv, Serving
<1>7. QueueInv'
  <2>1. \A i \in 1 .. Len(queue) : memory'[queue[i]].state \in Pending
    BY <1>2, QueuedIsPending DEF InProgress
  <2> QED
    BY <2>1 DEF IndInv, QueueInv, QueueIsFIFO, Queued, Serving
<1> QED
  BY <1>2, <1>3, <1>4, <1>5, <1>6, <1>7 DEF IndInv

LEMMA AcknowledgePreserves ==
    ASSUME IndInv, NEW h \in Handlers, NEW b \in Builds, NEW hash \in Builds,
           NEW reg \in RegIds, Acknowledge(h, b, hash, reg)
    PROVE  IndInv'
<1> DEFINE rec == [memory[b] EXCEPT !.state = "READY", !.reg = reg]
           new == [pc |-> "clean", op |-> "ack", build |-> b]
<1>1. memory[b] \in Record /\ memory[b].state = "REGISTERING" /\ Serving
  BY DEF Acknowledge, IndInv, TypeOK
<1>2. /\ rec \in Record /\ rec.state = "READY" /\ rec.reg = reg
      /\ rec.hash = memory[b].hash /\ rec.cmd = memory[b].cmd
  BY <1>1 DEF Record, States, Visible
<1>3. memory[b].hash = b /\ tree[b] = "complete" /\ b <= submitted /\ b # NoBuild
  BY <1>1 DEF IndInv, VisibleIsComplete, PresenceInv, Visible, Builds, NoBuild
<1>4. /\ Remember(b, rec) /\ (Saved(b, rec) \/ NotSaved(b, rec))
      /\ UNCHANGED <<idempotency, queue, active, closed, worker, boot, tree, workspace,
                     submitted, crashes>>
      /\ UNCHANGED answered
      /\ handler' = handler \/ handler' = [handler EXCEPT ![h] = new]
  BY DEF Acknowledge
<1>5. Keeps(b, rec)
  BY <1>1, <1>2, <1>3, NoneAssumption DEF Keeps, Ended
<1>6. memory'[b] = rec
  BY <1>4 DEF Remember, IndInv, TypeOK
<1>7. \A g \in Handlers : handler'[g] = handler[g] \/ HandlerOK(g)'
  <2> HIDE DEF rec
  <2>1. handler'[h] = new => HandlerOK(h)'
    BY <1>2, <1>3, <1>4, <1>6, NoneAssumption DEF HandlerOK, IndInv, TypeOK, Builds
  <2> QED
    BY <1>4, <2>1 DEF IndInv, TypeOK
<1>8. handler' \in [Handlers -> HandlerStates]
  BY <1>4 DEF IndInv, TypeOK, HandlerStates, HandlerPcs
<1>9. answered' \subseteq Answers
  BY <1>4 DEF IndInv, TypeOK
<1>10. b <= submitted /\ memory[b].state \notin InProgress
  BY <1>1, <1>3 DEF InProgress, Pending, Active
<1> HIDE DEF rec
<1> QED
  BY <1>1, <1>2, <1>4, <1>5, <1>7, <1>8, <1>9, <1>10, HandlerWritePreserves

LEMMA DeprecatePreserves ==
    ASSUME IndInv, NEW b \in Builds, Deprecate(b)
    PROVE  IndInv'
<1> DEFINE rec == [memory[b] EXCEPT !.state = "DEPRECATED"]
<1>1. memory[b] \in Record /\ memory[b].state = "READY" /\ Serving
  BY DEF Deprecate, IndInv, TypeOK
<1>2. /\ rec \in Record /\ rec.state = "DEPRECATED" /\ rec.reg = memory[b].reg
      /\ rec.hash = memory[b].hash /\ rec.cmd = memory[b].cmd
  BY <1>1 DEF Record, States, Visible
<1>3. memory[b].hash = b /\ tree[b] = "complete"
  BY <1>1 DEF IndInv, VisibleIsComplete, Visible
<1>4. /\ Remember(b, rec) /\ (Saved(b, rec) \/ NotSaved(b, rec))
      /\ UNCHANGED <<idempotency, queue, active, closed, worker, boot, tree, workspace,
                     submitted, crashes>>
      /\ UNCHANGED handler
  BY DEF Deprecate
<1>5. Keeps(b, rec)
  BY <1>1, <1>2, <1>3 DEF Keeps, Ended
<1>6. answered' \subseteq Answers
  <2>1. [op |-> "deprecate", build |-> b] \in Answers
    BY DEF Answers
  <2> QED
    BY <2>1 DEF Deprecate, Answer, IndInv, TypeOK
<1>7. b <= submitted /\ memory[b].state \notin InProgress
  BY <1>1 DEF IndInv, PresenceInv, InProgress, Pending, Active
<1>8. handler' \in [Handlers -> HandlerStates]
  BY <1>4 DEF IndInv, TypeOK
<1> HIDE DEF rec
<1> QED
  BY <1>1, <1>2, <1>4, <1>5, <1>6, <1>7, <1>8, HandlerWritePreserves

LEMMA PurgeStartPreserves ==
    ASSUME IndInv, NEW h \in Handlers, NEW b \in Builds, NEW cmd \in Commands,
           PurgeStart(h, b, cmd)
    PROVE  IndInv'
<1> DEFINE rec == [memory[b] EXCEPT !.state = "DELETING", !.cmd = cmd]
           new == [pc |-> FirstPurgeStep(memory[b]), op |-> "purge", build |-> b]
<1>1. memory[b] \in Record /\ memory[b].state \in {"DEPRECATED", "FAILED"} /\ Serving
  BY DEF PurgeStart, MayPurge, IndInv, TypeOK
<1>2. /\ rec \in Record /\ rec.state = "DELETING" /\ rec.reg = memory[b].reg
      /\ rec.hash = memory[b].hash /\ rec.cmd = cmd
  BY <1>1 DEF Record, States, Ended
<1>3. b \in 1 .. submitted
  BY <1>1 DEF IndInv, TypeOK, PresenceInv, Builds
<1>4. /\ Remember(b, rec)
      /\ UNCHANGED <<idempotency, queue, active, closed, worker, boot, tree, workspace,
                     submitted, crashes>>
      /\ UNCHANGED answered
      /\ \/ Saved(b, rec) /\ handler' = [handler EXCEPT ![h] = new]
         \/ NotSaved(b, rec) /\ handler' = handler
  BY DEF PurgeStart
<1>5. Keeps(b, rec)
  BY <1>1, <1>2, NoneAssumption DEF Keeps, Ended, Visible
<1>6. memory'[b] = rec
  BY <1>4 DEF Remember, IndInv, TypeOK
<1>7. \A g \in Handlers : handler'[g] = handler[g] \/ HandlerOK(g)'
  <2> HIDE DEF rec
  <2>1. CASE Saved(b, rec) /\ handler' = [handler EXCEPT ![h] = new]
    <3>1. durable'[b].state = "DELETING"
      BY <1>2, <2>1, WriteDurable DEF IndInv
    <3>2. handler'[h] = new
      BY <2>1 DEF IndInv, TypeOK
    <3>3. submitted' = submitted
      BY <1>4
    <3>4. HandlerOK(h)'
      BY <1>2, <1>3, <1>6, <3>1, <3>2, <3>3, NoneAssumption
      DEF HandlerOK, FirstPurgeStep, Ended
    <3> QED
      BY <2>1, <3>4 DEF IndInv, TypeOK
  <2> QED
    BY <1>4, <2>1
<1>8. handler' \in [Handlers -> HandlerStates]
  <2>1. new \in HandlerStates
    BY DEF HandlerStates, HandlerPcs, FirstPurgeStep
  <2> QED
    BY <1>4, <2>1 DEF IndInv, TypeOK
<1>9. answered' \subseteq Answers
  BY <1>4 DEF IndInv, TypeOK
<1>10. b <= submitted /\ memory[b].state \notin InProgress
  BY <1>1, <1>3 DEF InProgress, Pending, Active
<1> HIDE DEF rec
<1> QED
  BY <1>1, <1>2, <1>4, <1>5, <1>7, <1>8, <1>9, <1>10, HandlerWritePreserves

\* What is known of the handler that takes a step outside the lock.
LEMMA ActingHandler ==
    ASSUME IndInv, NEW h \in Handlers, handler[h].pc # "idle"
    PROVE  /\ handler[h].build \in Builds /\ handler[h].build \in 1 .. submitted
           /\ handler[h].op \in {"ack", "purge"} /\ handler[h].pc \in HandlerPcs
           /\ memory[handler[h].build] \in Record
           /\ HandlerOK(h)
<1>1. HandlerOK(h) /\ submitted \in 0 .. MaxBuilds
  BY DEF IndInv, HandlerInv, TypeOK
<1>2. handler[h].build \in Builds /\ handler[h].build \in 1 .. submitted
  BY <1>1, BoundsAssumption DEF HandlerOK, Builds
<1> QED
  BY <1>1, <1>2 DEF HandlerOK, IndInv, TypeOK, HandlerStates

\* How a handler moves on.
LEMMA HandlerReturns ==
    ASSUME TypeOK, NEW h \in Handlers, Return(h)
    PROVE  /\ handler' \in [Handlers -> HandlerStates]
           /\ \A g \in Handlers : handler'[g] = handler[g] \/ HandlerOK(g)'
<1>1. Idle \in HandlerStates /\ Idle.pc = "idle"
  BY DEF Idle, HandlerStates, HandlerPcs
<1>2. handler' \in [Handlers -> HandlerStates]
  BY <1>1 DEF TypeOK, Return
<1>3. \A g \in Handlers : handler'[g] = IF g = h THEN Idle ELSE handler[g]
  BY DEF TypeOK, Return
<1>4. HandlerOK(h)'
  BY <1>1, <1>3 DEF HandlerOK
<1> QED
  BY <1>2, <1>3, <1>4

LEMMA HandlerMoves ==
    ASSUME TypeOK, NEW h \in Handlers, NEW pc \in HandlerPcs, MoveTo(h, pc)
    PROVE  /\ handler' \in [Handlers -> HandlerStates]
           /\ \A g \in Handlers : g # h => handler'[g] = handler[g]
           /\ handler'[h].pc = pc /\ handler'[h].op = handler[h].op
           /\ handler'[h].build = handler[h].build
<1>1. handler[h] \in HandlerStates
  BY DEF TypeOK
<1>2. [handler[h] EXCEPT !.pc = pc] \in HandlerStates
  BY <1>1 DEF HandlerStates
<1>3. handler' = [handler EXCEPT ![h] = [handler[h] EXCEPT !.pc = pc]]
  BY DEF TypeOK, MoveTo
<1>4. handler'[h] = [handler[h] EXCEPT !.pc = pc]
  BY <1>3 DEF TypeOK
<1> QED
  BY <1>1, <1>2, <1>3, <1>4 DEF TypeOK, HandlerStates

LEMMA HandlerCleaned ==
    ASSUME IndInv, NEW h \in Handlers, handler[h].pc # "idle", Cleaned(h)
    PROVE  /\ handler' \in [Handlers -> HandlerStates]
           /\ \A g \in Handlers : \/ handler'[g] = handler[g]
                                  \/ HandlerOK(g)'
                                  \/ /\ g = h /\ handler'[h].pc = "finish"
                                     /\ handler'[h].op = "purge" /\ handler[h].op = "purge"
                                     /\ handler'[h].build = handler[h].build
           /\ answered' \subseteq Answers
<1> DEFINE b == handler[h].build
           a == AckAnswer(b, memory[b].hash, memory[b].reg)
<1>1. b \in Builds /\ memory[b] \in Record /\ HandlerOK(h) /\ TypeOK
  BY ActingHandler DEF IndInv
<1>2. CASE handler[h].op = "ack" /\ Return(h) /\ Answer(a)
  <2>1. memory[b].hash \in Builds /\ memory[b].reg \in RegIds
    BY <1>1, <1>2 DEF HandlerOK, Record
  <2>2. a \in Answers
    BY <1>1, <2>1 DEF AckAnswer, Answers
  <2> QED
    BY <1>1, <1>2, <2>2, HandlerReturns DEF TypeOK, Answer
<1>3. CASE handler[h].op = "purge" /\ MoveTo(h, "finish") /\ UNCHANGED answered
  <2>1. "finish" \in HandlerPcs
    BY DEF HandlerPcs
  <2> QED
    BY <1>1, <1>3, <2>1, HandlerMoves DEF TypeOK
<1> QED
  BY <1>2, <1>3 DEF Cleaned

\* A step of a handler that rewrites no record: it may only remove the tree
\* of a build that has ended in memory and on disk.
LEMMA HandlerStepPreserves ==
    ASSUME IndInv, Serving,
           UNCHANGED <<memory, idempotency, queue, active, closed, worker, boot, durable,
                       submitted, crashes>>,
           tree' \in [Builds -> Trees], workspace' \in [Builds -> BOOLEAN],
           \A c \in Builds : \/ tree'[c] = tree[c]
                             \/ memory[c].state \in Ended /\ durable[c].state \in Ended,
           handler' \in [Handlers -> HandlerStates],
           \A g \in Handlers : handler'[g] = handler[g] \/ HandlerOK(g)',
           answered' \subseteq Answers, faults' \in 0 .. MaxFaults
    PROVE  IndInv'
<1>1. TypeOK'
  BY DEF IndInv, TypeOK
<1>2. WorkerInv'
  <2>1. active \in Builds => \/ /\ memory'[active].state = memory[active].state
                                /\ tree'[active] = tree[active]
                             \/ memory[active].state \notin InProgress
    BY DEF InProgress, Pending, Active, Ended
  <2> QED
    BY <2>1, WorkerUndisturbed DEF IndInv
<1>3. HandlerInv'
  BY DEF IndInv, HandlerInv, HandlerOK
<1>4. PresenceInv' /\ BootInv'
  BY DEF IndInv, PresenceInv, BootInv, Serving
<1>5. QueueInv'
  BY DEF IndInv, QueueInv, QueueIsFIFO, Queued, Serving
<1>6. VisibleIsComplete'
  BY DEF IndInv, VisibleIsComplete, Visible, Ended
<1> QED
  BY <1>1, <1>2, <1>3, <1>4, <1>5, <1>6 DEF IndInv

\* The steps of a handler after its first locked region.
LEMMA ClearRawPreserves ==
    ASSUME IndInv, NEW h \in Handlers, ClearRaw(h)
    PROVE  IndInv'
<1> DEFINE b == handler[h].build
           rec == [memory[b] EXCEPT !.raw = FALSE]
<1>1. Serving /\ handler[h].pc = "clear" /\ TypeOK
  BY DEF ClearRaw, At, IndInv
<1>2. /\ b \in Builds /\ b \in 1 .. submitted /\ handler[h].op \in {"ack", "purge"}
      /\ memory[b] \in Record /\ HandlerOK(h)
  BY <1>1, ActingHandler
<1>3. /\ rec \in Record /\ rec.state = memory[b].state /\ rec.reg = memory[b].reg
      /\ rec.hash = memory[b].hash /\ rec.cmd = memory[b].cmd
  BY <1>2 DEF Record
<1>4. /\ UNCHANGED <<idempotency, queue, active, closed, worker, boot, tree, workspace,
                     submitted, crashes>>
      /\ \/ Cleaned(h) /\ UNCHANGED <<memory, durable, faults>>
         \/ Remember(b, rec) /\ Saved(b, rec) /\ Cleaned(h)
         \/ Remember(b, rec) /\ NotSaved(b, rec) /\ Return(h) /\ UNCHANGED answered
  BY DEF ClearRaw, Untouched
<1>5. Keeps(b, rec)
  BY <1>2, <1>3 DEF Keeps, IndInv, VisibleIsComplete
<1>6. handler' \in [Handlers -> HandlerStates] /\ answered' \subseteq Answers
  BY <1>1, <1>4, HandlerCleaned, HandlerReturns DEF TypeOK
<1>7. CASE Remember(b, rec) /\ (Saved(b, rec) \/ NotSaved(b, rec))
  <2>1. memory'[b] = rec
    BY <1>1, <1>2, <1>7 DEF Remember, TypeOK
  <2>2. ASSUME handler'[h].pc = "finish", handler'[h].op = "purge",
               handler[h].op = "purge", handler'[h].build = b
        PROVE  HandlerOK(h)'
    <3> HIDE DEF rec
    <3> QED
      BY <1>1, <1>2, <1>3, <1>4, <2>1, <2>2 DEF HandlerOK
  <2>3. \A g \in Handlers : handler'[g] = handler[g] \/ HandlerOK(g)'
    BY <1>1, <1>4, <2>2, HandlerCleaned, HandlerReturns
  <2> HIDE DEF rec
  <2> QED
    BY <1>1, <1>2, <1>3, <1>4, <1>5, <1>6, <1>7, <2>3, HandlerWritePreserves
<1>8. CASE Cleaned(h) /\ UNCHANGED <<memory, durable, faults>>
  <2>1. \A g \in Handlers : \/ handler'[g] = handler[g]
                             \/ HandlerOK(g)'
    BY <1>1, <1>2, <1>4, <1>8, HandlerCleaned DEF HandlerOK
  <2> QED
    BY <1>1, <1>4, <1>6, <1>8, <2>1, HandlerStepPreserves DEF TypeOK
<1> QED
  BY <1>4, <1>7, <1>8

LEMMA PurgeFinishPreserves ==
    ASSUME IndInv, NEW h \in Handlers, PurgeFinish(h)
    PROVE  IndInv'
<1> DEFINE b == handler[h].build
           rec == [memory[b] EXCEPT !.state = "DELETED"]
           a == [op |-> "purge", build |-> b, cmd |-> memory[b].cmd]
<1>1. Serving /\ handler[h].pc = "finish" /\ TypeOK
  BY DEF PurgeFinish, At, IndInv
<1>2. b \in Builds /\ b \in 1 .. submitted /\ memory[b] \in Record /\ HandlerOK(h)
  BY <1>1, ActingHandler
<1>3. memory[b].state \in Ended /\ memory[b].cmd \in Commands
  BY <1>1, <1>2 DEF HandlerOK, Record
<1>4. /\ rec \in Record /\ rec.state = "DELETED" /\ rec.reg = memory[b].reg
      /\ rec.hash = memory[b].hash /\ rec.cmd = memory[b].cmd
  BY <1>2 DEF Record, States, Ended
<1>5. /\ UNCHANGED <<idempotency, queue, active, closed, worker, boot, tree, workspace,
                     submitted, crashes>>
      /\ Remember(b, rec) /\ (Saved(b, rec) \/ NotSaved(b, rec)) /\ Return(h)
      /\ Answer(a) \/ UNCHANGED answered
  BY DEF PurgeFinish, Untouched
<1>6. Keeps(b, rec)
  BY <1>2, <1>4 DEF Keeps, Ended, Visible
<1>7. answered' \subseteq Answers
  <2>1. a \in Answers
    BY <1>2, <1>3 DEF Answers
  <2> QED
    BY <1>1, <1>5, <2>1 DEF Answer, TypeOK
<1>8. b <= submitted /\ memory[b].state \notin InProgress
  BY <1>1, <1>2, <1>3 DEF InProgress, Pending, Active, Ended, TypeOK
<1> HIDE DEF rec
<1> QED
  BY <1>1, <1>2, <1>4, <1>5, <1>6, <1>7, <1>8, HandlerReturns, HandlerWritePreserves

LEMMA CleanCheckPreserves ==
    ASSUME IndInv, NEW h \in Handlers, CleanCheck(h)
    PROVE  IndInv'
<1>1. Serving /\ handler[h].pc = "clean" /\ TypeOK
  BY DEF CleanCheck, At, IndInv
<1>2. HandlerOK(h)
  BY <1>1, ActingHandler
<1>3. /\ UNCHANGED <<memory, idempotency, queue, active, closed, worker, boot, durable,
                     submitted, crashes>>
      /\ UNCHANGED <<tree, workspace, faults>>
      /\ \/ Cleaned(h)
         \/ \E pc \in {"rmtree", "clear"} : MoveTo(h, pc) /\ UNCHANGED answered
  BY DEF CleanCheck, Untouched, disk
<1>4. CASE Cleaned(h)
  <2>1. /\ handler' \in [Handlers -> HandlerStates] /\ answered' \subseteq Answers
        /\ \A g \in Handlers : handler'[g] = handler[g] \/ HandlerOK(g)'
    BY <1>1, <1>2, <1>3, <1>4, HandlerCleaned DEF HandlerOK
  <2> QED
    BY <1>1, <1>3, <2>1, HandlerStepPreserves DEF TypeOK
<1>5. ASSUME NEW pc \in {"rmtree", "clear"}, MoveTo(h, pc), UNCHANGED answered
      PROVE  IndInv'
  <2>1. pc \in HandlerPcs
    BY DEF HandlerPcs
  <2>2. /\ handler' \in [Handlers -> HandlerStates]
        /\ \A g \in Handlers : handler'[g] = handler[g] \/ HandlerOK(g)'
    BY <1>1, <1>2, <1>3, <1>5, <2>1, HandlerMoves DEF HandlerOK
  <2> QED
    BY <1>1, <1>3, <1>5, <2>2, HandlerStepPreserves DEF TypeOK
<1> QED
  BY <1>3, <1>4, <1>5

LEMMA RemoveWorkspacePreserves ==
    ASSUME IndInv, NEW h \in Handlers, RemoveWorkspace(h)
    PROVE  IndInv'
<1>1. Serving /\ handler[h].pc = "rmtree" /\ TypeOK
  BY DEF RemoveWorkspace, At, IndInv
<1>2. HandlerOK(h)
  BY <1>1, ActingHandler
<1>3. /\ UNCHANGED <<memory, idempotency, queue, active, closed, worker, boot, durable,
                     submitted, crashes>>
      /\ UNCHANGED <<tree, answered>>
      /\ MoveTo(h, "clear") \/ Return(h)
  BY DEF RemoveWorkspace, Untouched
<1>4. workspace' \in [Builds -> BOOLEAN] /\ faults' \in 0 .. MaxFaults
  <2>1. /\ \/ UNCHANGED workspace
           \/ workspace' = [workspace EXCEPT ![handler[h].build] = FALSE]
        /\ UNCHANGED faults \/ Fault
    BY DEF RemoveWorkspace
  <2>2. workspace' \in [Builds -> BOOLEAN]
    BY <1>1, <2>1, Zenon DEF TypeOK
  <2>3. faults' \in 0 .. MaxFaults
    BY <1>1, <2>1, BoundsAssumption DEF Fault, TypeOK
  <2> QED
    BY <2>2, <2>3
<1>5. /\ handler' \in [Handlers -> HandlerStates]
      /\ \A g \in Handlers : handler'[g] = handler[g] \/ HandlerOK(g)'
  <2>1. "clear" \in HandlerPcs
    BY DEF HandlerPcs
  <2> QED
    BY <1>1, <1>2, <1>3, <2>1, HandlerMoves, HandlerReturns DEF HandlerOK
<1> QED
  BY <1>1, <1>3, <1>4, <1>5, HandlerStepPreserves DEF TypeOK

LEMMA PurgeStorePreserves ==
    ASSUME IndInv, NEW h \in Handlers, PurgeStore(h)
    PROVE  IndInv'
<1> DEFINE b == handler[h].build
<1>1. Serving /\ handler[h].pc = "store" /\ TypeOK
  BY DEF PurgeStore, At, IndInv
<1>2. HandlerOK(h) /\ b \in Builds
  BY <1>1, ActingHandler
<1>3. memory[b].state \in Ended /\ durable[b].state \in Ended
  BY <1>1, <1>2 DEF HandlerOK
<1>4. /\ UNCHANGED <<memory, idempotency, queue, active, closed, worker, boot, durable,
                     submitted, crashes>>
      /\ UNCHANGED <<workspace, answered>>
      /\ MoveTo(h, "clean") \/ MoveTo(h, "remove") \/ Return(h)
      /\ UNCHANGED tree \/ tree' = [tree EXCEPT ![b] = "absent"]
      /\ UNCHANGED faults \/ Fault
  BY DEF PurgeStore, Untouched
<1>5. /\ tree' \in [Builds -> Trees] /\ faults' \in 0 .. MaxFaults
      /\ \A c \in Builds : c # b => tree'[c] = tree[c]
  BY <1>1, <1>4, BoundsAssumption DEF TypeOK, Trees, Fault
<1>6. /\ handler' \in [Handlers -> HandlerStates]
      /\ \A g \in Handlers : handler'[g] = handler[g] \/ HandlerOK(g)'
  <2>1. "clean" \in HandlerPcs /\ "remove" \in HandlerPcs
    BY DEF HandlerPcs
  <2> QED
    BY <1>1, <1>2, <1>4, <2>1, HandlerMoves, HandlerReturns DEF HandlerOK
<1> QED
  BY <1>1, <1>3, <1>4, <1>5, <1>6, HandlerStepPreserves DEF TypeOK

LEMMA PurgeRemovePreserves ==
    ASSUME IndInv, NEW h \in Handlers, PurgeRemove(h)
    PROVE  IndInv'
<1> DEFINE b == handler[h].build
<1>1. Serving /\ handler[h].pc = "remove" /\ TypeOK
  BY DEF PurgeRemove, At, IndInv
<1>2. HandlerOK(h) /\ b \in Builds
  BY <1>1, ActingHandler
<1>3. memory[b].state \in Ended /\ durable[b].state \in Ended
  BY <1>1, <1>2 DEF HandlerOK
<1>4. /\ UNCHANGED <<memory, idempotency, queue, active, closed, worker, boot, durable,
                     submitted, crashes>>
      /\ UNCHANGED <<workspace, answered>>
      /\ MoveTo(h, "clean") \/ UNCHANGED handler \/ Return(h)
      /\ UNCHANGED tree \/ \E t \in Removing(tree[b]) : tree' = [tree EXCEPT ![b] = t]
      /\ UNCHANGED faults \/ Fault
  BY DEF PurgeRemove, Untouched
<1>5. /\ tree' \in [Builds -> Trees] /\ faults' \in 0 .. MaxFaults
      /\ \A c \in Builds : c # b => tree'[c] = tree[c]
  <2>1. Removing(tree[b]) \subseteq Trees
    BY DEF Removing, Trees
  <2> QED
    BY <1>1, <1>4, <2>1, BoundsAssumption DEF TypeOK, Fault
<1>6. /\ handler' \in [Handlers -> HandlerStates]
      /\ \A g \in Handlers : handler'[g] = handler[g] \/ HandlerOK(g)'
  <2>1. "clean" \in HandlerPcs
    BY DEF HandlerPcs
  <2> QED
    BY <1>1, <1>2, <1>4, <2>1, HandlerMoves, HandlerReturns DEF HandlerOK, TypeOK
<1> QED
  BY <1>1, <1>3, <1>4, <1>5, <1>6, HandlerStepPreserves DEF TypeOK

-----------------------------------------------------------------------------
(* The worker                                                              *)

\* The worker runs only while the process serves.
LEMMA WorkerServes ==
    ASSUME IndInv, worker # "none"
    PROVE  Serving
BY DEF IndInv, BootInv

\* A locked region of the worker that rewrites the record of its build.
LEMMA WorkerWritePreserves ==
    ASSUME IndInv, worker # "none", active \in Builds, NEW rec \in Record,
           Keeps(active, rec),
           Remember(active, rec), Saved(active, rec) \/ NotSaved(active, rec),
           UNCHANGED <<idempotency, queue, active, closed, handler, boot, tree, workspace,
                       submitted, answered, crashes>>,
           worker' \in WorkerPcs, memory'[active] = rec => WorkerInv'
    PROVE  IndInv'
<1>1. Serving /\ active <= submitted /\ active' <= submitted
  BY WorkerServes DEF IndInv, PresenceInv
<1>2. /\ memory' \in [Builds -> Record] /\ memory'[active] = rec
      /\ \A c \in Builds : c # active => memory'[c] = memory[c]
      /\ durable' \in [Builds -> Record] /\ faults' \in 0 .. MaxFaults
      /\ VisibleIsComplete' /\ PresenceInv'
      /\ \A h \in Handlers : handler'[h] = handler[h] => HandlerOK(h)'
  BY <1>1, WritePreserves
<1>3. TypeOK'
  BY <1>2 DEF IndInv, TypeOK
<1>4. HandlerInv'
  BY <1>2 DEF HandlerInv
<1>5. BootInv'
  BY <1>1 DEF IndInv, BootInv, Serving
<1>6. QueueInv'
  <2>1. \A i \in 1 .. Len(queue) : queue[i] \in Builds /\ active < queue[i]
    BY QueuedIsPending DEF IndInv, QueueInv, QueueIsFIFO, Queued, Builds, NoBuild
  <2>2. \A i \in 1 .. Len(queue) : memory'[queue[i]].state \in Pending
    BY <1>2, <2>1, QueuedIsPending DEF Builds
  <2> QED
    BY <1>1, <2>2 DEF IndInv, QueueInv, QueueIsFIFO, Queued, Serving
<1> QED
  BY <1>2, <1>3, <1>4, <1>5, <1>6 DEF IndInv

\* A step of the worker that rewrites no record: a tree may only appear.
LEMMA WorkerStepPreserves ==
    ASSUME IndInv, worker # "none",
           UNCHANGED <<memory, idempotency, queue, closed, handler, boot, durable, submitted,
                       answered, crashes>>,
           active' = active \/ active' = NoBuild,
           tree' \in [Builds -> Trees], workspace' \in [Builds -> BOOLEAN],
           \A c \in Builds : tree'[c] = tree[c] \/ tree'[c] = "complete",
           faults' \in 0 .. MaxFaults, worker' \in WorkerPcs, WorkerInv'
    PROVE  IndInv'
<1>1. Serving
  BY WorkerServes
<1>2. TypeOK'
  BY DEF IndInv, TypeOK
<1>3. HandlerInv'
  BY DEF IndInv, HandlerInv, HandlerOK
<1>4. PresenceInv'
  BY DEF IndInv, PresenceInv, TypeOK, NoBuild
<1>5. BootInv'
  BY <1>1 DEF IndInv, BootInv, Serving
<1>6. QueueInv'
  BY <1>1 DEF IndInv, QueueInv, QueueIsFIFO, Queued, Serving
<1>7. VisibleIsComplete'
  BY DEF IndInv, VisibleIsComplete
<1> QED
  BY <1>2, <1>3, <1>4, <1>5, <1>6, <1>7 DEF IndInv

LEMMA WorkerIdlePreserves ==
    ASSUME IndInv, WorkerIdle
    PROVE  IndInv'
<1>1. TypeOK /\ worker = "loop" /\ worker' \in {"stopped", "wait"}
  BY DEF WorkerIdle, IndInv
<1>2. worker' \in WorkerPcs /\ WorkerInv'
  BY <1>1 DEF WorkerPcs, WorkerInv
<1> QED
  BY <1>1, <1>2, WorkerStepPreserves DEF WorkerIdle, Elsewhere, disk, TypeOK

LEMMA WorkerMkdirPreserves ==
    ASSUME IndInv, WorkerMkdir
    PROVE  IndInv'
<1>1. TypeOK /\ WorkerInv /\ worker = "mkdir" /\ worker' \in {"except", "update"}
  BY DEF WorkerMkdir, IndInv
<1>2. UNCHANGED <<memory, active, tree>>
  BY DEF WorkerMkdir
<1>3. worker' \in WorkerPcs /\ WorkerInv'
  BY <1>1, <1>2 DEF WorkerPcs, WorkerInv, InProgress, Pending
<1>4. workspace' \in [Builds -> BOOLEAN] /\ faults' \in 0 .. MaxFaults
  <2>1. UNCHANGED workspace \/ workspace' = [workspace EXCEPT ![active] = TRUE]
    BY DEF WorkerMkdir
  <2>2. workspace' \in [Builds -> BOOLEAN]
    BY <1>1, <2>1, Zenon DEF TypeOK
  <2>3. faults' \in 0 .. MaxFaults
    BY <1>1, BoundsAssumption DEF WorkerMkdir, Fault, TypeOK
  <2> QED
    BY <2>2, <2>3
<1> QED
  BY <1>1, <1>2, <1>3, <1>4, WorkerStepPreserves DEF WorkerMkdir, Elsewhere, TypeOK

LEMMA WorkerStagePreserves ==
    ASSUME IndInv, WorkerStage
    PROVE  IndInv'
<1>1. /\ TypeOK /\ WorkerInv /\ worker = "work" /\ active \in Builds
      /\ memory[active].state \in Active
  BY DEF WorkerStage, IndInv, WorkerInv
<1>2. /\ UNCHANGED <<memory, active, workspace, faults>>
      /\ tree' = IF memory[active].state = "MATERIALIZING"
                 THEN [tree EXCEPT ![active] = "complete"] ELSE tree
      /\ worker' = IF memory[active].state = "VERIFYING" THEN "publish" ELSE "update"
  BY DEF WorkerStage
<1>3. /\ tree' \in [Builds -> Trees]
      /\ \A c \in Builds : tree'[c] = tree[c] \/ tree'[c] = "complete"
      /\ memory[active].state = "MATERIALIZING" => tree'[active] = "complete"
  BY <1>1, <1>2 DEF TypeOK, Trees
<1>4. worker' \in WorkerPcs /\ WorkerInv'
  BY <1>1, <1>2, <1>3 DEF WorkerPcs, WorkerInv, InProgress
<1> QED
  BY <1>1, <1>2, <1>3, <1>4, WorkerStepPreserves DEF WorkerStage, Elsewhere, TypeOK

LEMMA WorkerStageRaisesPreserves ==
    ASSUME IndInv, WorkerStageRaises
    PROVE  IndInv'
<1>1. TypeOK /\ WorkerInv /\ worker = "work" /\ active \in Builds
  BY DEF WorkerStageRaises, IndInv, WorkerInv
<1>2. /\ UNCHANGED <<memory, active, workspace>> /\ worker' = "except"
      /\ UNCHANGED tree \/ tree' = [tree EXCEPT ![active] = "complete"]
      /\ UNCHANGED faults \/ Fault
  BY DEF WorkerStageRaises
<1>3. /\ tree' \in [Builds -> Trees] /\ faults' \in 0 .. MaxFaults
      /\ \A c \in Builds : tree'[c] = tree[c] \/ tree'[c] = "complete"
  BY <1>1, <1>2, BoundsAssumption DEF TypeOK, Trees, Fault
<1>4. worker' \in WorkerPcs /\ WorkerInv'
  BY <1>1, <1>2 DEF WorkerPcs, WorkerInv
<1> QED
  BY <1>1, <1>2, <1>3, <1>4, WorkerStepPreserves DEF WorkerStageRaises, Elsewhere, TypeOK

LEMMA WorkerFinallyPreserves ==
    ASSUME IndInv, WorkerFinally
    PROVE  IndInv'
<1>1. TypeOK /\ worker \in {"finally", "dying"} /\ worker' \in {"loop", "dead"}
  BY DEF WorkerFinally, IndInv
<1>2. worker' \in WorkerPcs /\ WorkerInv'
  BY <1>1 DEF WorkerPcs, WorkerInv
<1> QED
  BY <1>1, <1>2, WorkerStepPreserves DEF WorkerFinally, Elsewhere, disk, TypeOK

LEMMA WorkerUpdatePreserves ==
    ASSUME IndInv, WorkerUpdate
    PROVE  IndInv'
<1> DEFINE next == NextStage[memory[active].state]
           rec == [memory[active] EXCEPT !.state = next]
<1>1. /\ TypeOK /\ worker = "update" /\ active \in Builds /\ memory[active] \in Record
      /\ memory[active].state \in InProgress \ {"VERIFYING"}
      /\ memory[active].state = "MATERIALIZING" => tree[active] = "complete"
  BY DEF WorkerUpdate, IndInv, WorkerInv, TypeOK
<1>2. next \in Active /\ (next = "VERIFYING" => memory[active].state = "MATERIALIZING")
  BY <1>1 DEF NextStage, InProgress, Pending, Active
<1>3. next \in States
  BY <1>2 DEF States
<1> HIDE DEF next
<1>4. /\ rec \in Record /\ rec.state = next /\ rec.reg = memory[active].reg
      /\ rec.hash = memory[active].hash /\ rec.cmd = memory[active].cmd
  BY <1>1, <1>3 DEF Record
<1>5. /\ Remember(active, rec) /\ (Saved(active, rec) \/ NotSaved(active, rec))
      /\ UNCHANGED <<idempotency, queue, active, closed, handler, boot, tree, workspace,
                     submitted, answered, crashes>>
      /\ worker' \in {"work", "except"}
  BY DEF WorkerUpdate, Elsewhere, next
<1>6. Keeps(active, rec)
  BY <1>1, <1>2, <1>4 DEF Keeps, InProgress, Pending, Active, Ended, Visible
<1> HIDE DEF rec
<1>7. worker' \in WorkerPcs /\ (memory'[active] = rec => WorkerInv')
  BY <1>1, <1>2, <1>4, <1>5 DEF WorkerPcs, WorkerInv
<1> QED
  BY <1>1, <1>4, <1>5, <1>6, <1>7, WorkerWritePreserves

LEMMA WorkerPublishPreserves ==
    ASSUME IndInv, WorkerPublish
    PROVE  IndInv'
<1> DEFINE rec == [memory[active] EXCEPT !.state = "REGISTERING", !.hash = active]
<1>1. /\ TypeOK /\ worker = "publish" /\ active \in Builds /\ memory[active] \in Record
      /\ memory[active].state = "VERIFYING" /\ tree[active] = "complete"
  BY DEF WorkerPublish, IndInv, WorkerInv, TypeOK
<1>2. /\ rec \in Record /\ rec.state = "REGISTERING" /\ rec.reg = memory[active].reg
      /\ rec.hash = active /\ rec.cmd = memory[active].cmd
  BY <1>1 DEF Record, States, Visible
<1>3. /\ Remember(active, rec) /\ (Saved(active, rec) \/ NotSaved(active, rec))
      /\ UNCHANGED <<idempotency, queue, active, closed, handler, boot, tree, workspace,
                     submitted, answered, crashes>>
      /\ worker' \in {"finally", "except"}
  BY DEF WorkerPublish, Elsewhere
<1>4. Keeps(active, rec)
  BY <1>1, <1>2 DEF Keeps, Ended, Builds, NoBuild
<1>5. worker' \in WorkerPcs /\ WorkerInv'
  BY <1>1, <1>3 DEF WorkerPcs, WorkerInv
<1> HIDE DEF rec
<1> QED
  BY <1>1, <1>2, <1>3, <1>4, <1>5, WorkerWritePreserves

LEMMA WorkerExceptPreserves ==
    ASSUME IndInv, WorkerExcept
    PROVE  IndInv'
<1> DEFINE rec == [memory[active] EXCEPT !.state = "FAILED"]
<1>1. TypeOK /\ worker = "except" /\ active \in Builds /\ memory[active] \in Record
  BY DEF WorkerExcept, IndInv, WorkerInv, TypeOK
<1>2. /\ rec \in Record /\ rec.state = "FAILED" /\ rec.reg = memory[active].reg
      /\ rec.hash = memory[active].hash /\ rec.cmd = memory[active].cmd
  BY <1>1 DEF Record, States, Ended
<1>3. /\ Remember(active, rec) /\ (Saved(active, rec) \/ NotSaved(active, rec))
      /\ UNCHANGED <<idempotency, queue, active, closed, handler, boot, tree, workspace,
                     submitted, answered, crashes>>
      /\ worker' \in {"finally", "dying"}
  BY DEF WorkerExcept, Elsewhere
<1>4. Keeps(active, rec)
  BY <1>2 DEF Keeps, Ended, Visible
<1>5. worker' \in WorkerPcs /\ WorkerInv'
  BY <1>1, <1>3 DEF WorkerPcs, WorkerInv
<1> HIDE DEF rec
<1> QED
  BY <1>1, <1>2, <1>3, <1>4, <1>5, WorkerWritePreserves

\* The worker takes the oldest build: those behind it are younger.
LEMMA WorkerPopPreserves ==
    ASSUME IndInv, WorkerPop
    PROVE  IndInv'
<1> DEFINE b == Head(queue)
           rec == Popped(memory[b])
<1>1. TypeOK /\ worker = "loop" /\ Serving /\ queue # <<>> /\ queue \in Seq(Builds)
  BY WorkerServes DEF WorkerPop, IndInv, TypeOK
<1>2. /\ Len(queue) \in Nat \ {0} /\ b = queue[1] /\ Len(Tail(queue)) = Len(queue) - 1
      /\ \A i \in 1 .. Len(Tail(queue)) : Tail(queue)[i] = queue[i + 1]
      /\ Tail(queue) \in Seq(Builds)
  BY <1>1, HeadTailProperties, EmptySeq
<1>3. b \in Builds /\ b <= submitted /\ memory[b].state \in Pending
  BY <1>2, QueuedIsPending
<1>4. memory[b] \in Record
  BY <1>1, <1>3 DEF TypeOK
<1>5. /\ rec \in Record /\ rec.state = memory[b].state /\ rec.reg = memory[b].reg
      /\ rec.hash = memory[b].hash /\ rec.cmd = memory[b].cmd
  BY <1>4 DEF Popped, Record
<1>6. /\ Remember(b, rec) /\ (Saved(b, rec) \/ NotSaved(b, rec))
      /\ queue' = Tail(queue) /\ active' = b /\ worker' \in {"mkdir", "dead"}
      /\ UNCHANGED <<tree, submitted>>
      /\ UNCHANGED <<idempotency, closed, handler, boot, workspace, answered, crashes>>
  BY DEF WorkerPop, Elsewhere
<1>7. Keeps(b, rec)
  BY <1>3, <1>5 DEF Keeps, Pending, Ended, Visible
<1> HIDE DEF b, rec
<1>8. /\ memory' \in [Builds -> Record] /\ memory'[b] = rec
      /\ \A c \in Builds : c # b => memory'[c] = memory[c]
      /\ durable' \in [Builds -> Record] /\ faults' \in 0 .. MaxFaults
      /\ VisibleIsComplete' /\ PresenceInv'
      /\ \A h \in Handlers : handler'[h] = handler[h] => HandlerOK(h)'
  BY <1>3, <1>5, <1>6, <1>7, WritePreserves
<1>9. TypeOK'
  BY <1>2, <1>3, <1>6, <1>8 DEF TypeOK, IndInv, WorkerPcs
<1>10. WorkerInv'
  BY <1>3, <1>5, <1>6, <1>8 DEF WorkerInv
<1>11. HandlerInv'
  BY <1>6, <1>8 DEF HandlerInv
<1>12. BootInv'
  BY <1>1, <1>6 DEF IndInv, BootInv, Serving
<1>13. QueueInv'
  <2>1. /\ QueueIsFIFO
        /\ \A i \in 1 .. Len(queue') : /\ queue'[i] = queue[i + 1] /\ i + 1 \in 1 .. Len(queue)
                                        /\ 1 \in 1 .. Len(queue) /\ 1 < i + 1
    BY <1>2, <1>6 DEF IndInv, QueueInv
  <2>2. \A i \in 1 .. Len(queue') : queue'[i] \in Builds /\ b < queue'[i]
    BY <1>2, <1>6, <2>1 DEF QueueIsFIFO
  <2>3. \A i \in 1 .. Len(queue') : memory'[queue'[i]].state \in Pending
    BY <1>3, <1>8, <2>1, <2>2, QueuedIsPending DEF Builds
  <2>4. \A i, j \in 1 .. Len(queue') : i < j => queue'[i] < queue'[j]
    BY <2>1 DEF QueueIsFIFO
  <2>5. \A c \in Queued' : active' < c
    BY <1>6, <2>2 DEF Queued
  <2> QED
    BY <1>1, <1>6, <2>3, <2>4, <2>5 DEF QueueInv, QueueIsFIFO, Serving
<1> QED
  BY <1>8, <1>9, <1>10, <1>11, <1>12, <1>13 DEF IndInv

-----------------------------------------------------------------------------
(* Start, recovery and the end of the process                              *)

BootRecord == [pc : BootPcs, build : Builds \cup {NoBuild}]
Starting == boot.pc \notin {"down", "serving"}
RecoversDeleting ==
    boot.pc \in {"removing", "cleaning", "clearing", "finishing"} =>
        boot.build \in Builds /\ memory[boot.build].state = "DELETING"

\* While the process starts nobody else runs.
LEMMA StartingAlone ==
    ASSUME IndInv, ~Serving
    PROVE  /\ worker = "none" /\ active = NoBuild /\ HandlerInv
           /\ \A h \in Handlers : handler[h].pc = "idle"
BY DEF IndInv, BootInv, Idle

\* Recovery ends a build that was in progress or is being deleted.
LEMMA RecoveryWritePreserves ==
    ASSUME IndInv, Starting, NEW b \in Builds, NEW rec \in Record,
           memory[b].state \in Active \cup {"DELETING"}, rec.state \in Ended,
           rec.hash = memory[b].hash, rec.reg = memory[b].reg, rec.cmd = memory[b].cmd,
           Remember(b, rec), Saved(b, rec),
           UNCHANGED <<idempotency, queue, active, closed, worker, handler, tree, workspace,
                       submitted, answered, crashes>>,
           boot' \in BootRecord, Starting',
           memory'[b] = rec => RecoversDeleting'
    PROVE  IndInv'
<1>1. b <= submitted /\ active' <= submitted
  BY DEF IndInv, PresenceInv, Active
<1>2. Keeps(b, rec)
  BY DEF Keeps, Ended, Visible
<1>3. /\ memory' \in [Builds -> Record] /\ memory'[b] = rec
      /\ \A c \in Builds : c # b => memory'[c] = memory[c]
      /\ durable' \in [Builds -> Record] /\ faults' \in 0 .. MaxFaults
      /\ VisibleIsComplete' /\ PresenceInv'
      /\ \A h \in Handlers : handler'[h] = handler[h] => HandlerOK(h)'
  BY <1>1, <1>2, WritePreserves
<1>4. /\ durable'[b].state = rec.state
      /\ \A c \in Builds : c # b => durable'[c] = durable[c]
  BY WriteDurable DEF IndInv
<1>5. TypeOK'
  BY <1>3 DEF IndInv, TypeOK, BootRecord
<1>6. WorkerInv' /\ HandlerInv'
  BY <1>3, StartingAlone DEF Starting, Serving, WorkerInv, HandlerInv
<1>7. BootInv'
  <2>1. \A c \in Builds : memory'[c].state \in Ended => durable'[c].state \in Ended
    BY <1>3, <1>4 DEF IndInv, BootInv, Starting
  <2> QED
    BY <1>3, <2>1 DEF IndInv, BootInv, Starting, Serving, RecoversDeleting
<1>8. QueueInv'
  <2>1. \A i \in 1 .. Len(queue) : memory'[queue[i]].state \in Pending
    BY <1>3, QueuedIsPending DEF Pending, Active
  <2>2. Unqueued' \subseteq Unqueued
    BY <1>3 DEF Unqueued, Queued, Ended
  <2> QED
    BY <2>1, <2>2 DEF IndInv, QueueInv, QueueIsFIFO, Queued, Starting
<1> QED
  BY <1>3, <1>5, <1>6, <1>7, <1>8 DEF IndInv

LEMMA FailInterruptedPreserves ==
    ASSUME IndInv, NEW b \in Builds, FailInterrupted(b)
    PROVE  IndInv'
<1> DEFINE rec == [memory[b] EXCEPT !.state = "FAILED"]
<1>1. /\ memory[b] \in Record /\ memory[b].state \in Active /\ boot.pc = "loading"
      /\ boot \in BootRecord
  BY DEF FailInterrupted, IndInv, TypeOK, BootRecord
<1>2. /\ rec \in Record /\ rec.state \in Ended /\ rec.hash = memory[b].hash
      /\ rec.reg = memory[b].reg /\ rec.cmd = memory[b].cmd
  BY <1>1 DEF Record, States, Ended
<1>3. /\ Remember(b, rec) /\ Saved(b, rec)
      /\ UNCHANGED <<idempotency, queue, active, closed, worker, handler, tree, workspace,
                     submitted, answered, crashes>>
      /\ UNCHANGED boot
  BY DEF FailInterrupted
<1>4. Starting /\ Starting' /\ RecoversDeleting' /\ boot' \in BootRecord
  BY <1>1, <1>3 DEF Starting, RecoversDeleting
<1> HIDE DEF rec
<1> QED
  BY <1>1, <1>2, <1>3, <1>4, RecoveryWritePreserves

LEMMA RecoverClearPreserves ==
    ASSUME IndInv, RecoverClear
    PROVE  IndInv'
<1> DEFINE b == boot.build
           rec == [memory[b] EXCEPT !.raw = FALSE]
<1>1. /\ boot.pc = "clearing" /\ b \in Builds /\ memory[b] \in Record
      /\ memory[b].state = "DELETING"
  BY DEF RecoverClear, IndInv, TypeOK, BootInv
<1>2. /\ rec \in Record /\ rec.state = "DELETING" /\ rec.hash = memory[b].hash
      /\ rec.reg = memory[b].reg /\ rec.cmd = memory[b].cmd
  BY <1>1 DEF Record
<1>3. /\ Remember(b, rec) /\ Saved(b, rec)
      /\ UNCHANGED <<idempotency, queue, active, closed, worker, handler, tree, workspace,
                     submitted, answered, crashes>>
      /\ boot' = [pc |-> "finishing", build |-> b]
  BY DEF RecoverClear, BootAt
<1>4. boot' \in BootRecord /\ Starting /\ Starting'
  BY <1>1, <1>3 DEF BootRecord, BootPcs, Starting
<1>5. memory'[b] = rec => RecoversDeleting'
  BY <1>1, <1>2, <1>3 DEF RecoversDeleting
<1>6. rec.state \in Ended /\ memory[b].state \in Active \cup {"DELETING"}
  BY <1>1, <1>2 DEF Ended
<1> HIDE DEF b, rec
<1> QED
  BY <1>1, <1>2, <1>3, <1>4, <1>5, <1>6, RecoveryWritePreserves

LEMMA RecoverFinishPreserves ==
    ASSUME IndInv, RecoverFinish
    PROVE  IndInv'
<1> DEFINE b == boot.build
           rec == [memory[b] EXCEPT !.state = "DELETED"]
<1>1. /\ boot.pc = "finishing" /\ b \in Builds /\ memory[b] \in Record
      /\ memory[b].state = "DELETING"
  BY DEF RecoverFinish, IndInv, TypeOK, BootInv
<1>2. /\ rec \in Record /\ rec.state \in Ended /\ rec.hash = memory[b].hash
      /\ rec.reg = memory[b].reg /\ rec.cmd = memory[b].cmd
  BY <1>1 DEF Record, States, Ended
<1>3. /\ Remember(b, rec) /\ Saved(b, rec)
      /\ UNCHANGED <<idempotency, queue, active, closed, worker, handler, tree, workspace,
                     submitted, answered, crashes>>
      /\ boot' = [pc |-> "loading", build |-> NoBuild]
  BY DEF RecoverFinish, BootAt
<1>4. boot' \in BootRecord /\ Starting /\ Starting' /\ RecoversDeleting'
  BY <1>1, <1>3 DEF BootRecord, BootPcs, Starting, RecoversDeleting
<1>5. memory[b].state \in Active \cup {"DELETING"}
  BY <1>1
<1> HIDE DEF b, rec
<1> QED
  BY <1>1, <1>2, <1>3, <1>4, <1>5, RecoveryWritePreserves

\* A step of recovery that rewrites no record: it may only remove the tree of
\* the build it deletes.
LEMMA RecoveryStepPreserves ==
    ASSUME IndInv, Starting, NEW b \in Builds, memory[b].state = "DELETING",
           UNCHANGED <<memory, idempotency, queue, durable, active, closed, worker, handler,
                       submitted, answered, crashes, faults>>,
           tree' \in [Builds -> Trees], workspace' \in [Builds -> BOOLEAN],
           \A c \in Builds : c # b => tree'[c] = tree[c],
           boot' \in BootRecord, Starting', boot'.build = b
    PROVE  IndInv'
<1>1. TypeOK'
  BY DEF IndInv, TypeOK, BootRecord
<1>2. WorkerInv' /\ HandlerInv'
  BY StartingAlone DEF Starting, Serving, WorkerInv, HandlerInv, HandlerOK
<1>3. PresenceInv'
  BY DEF IndInv, PresenceInv
<1>4. BootInv'
  BY DEF IndInv, BootInv, Starting, Serving
<1>5. QueueInv'
  BY DEF IndInv, QueueInv, QueueIsFIFO, Queued, Unqueued, Starting
<1>6. VisibleIsComplete'
  <2>1. durable[b].state \in Ended /\ memory[b].state \in Ended
    BY DEF IndInv, BootInv, Starting, Ended
  <2> QED
    BY <2>1 DEF IndInv, VisibleIsComplete, Ended, Visible
<1> QED
  BY <1>1, <1>2, <1>3, <1>4, <1>5, <1>6 DEF IndInv

LEMMA RecoverDeletingPreserves ==
    ASSUME IndInv, NEW b \in Builds, RecoverDeleting(b)
    PROVE  IndInv'
<1>1. /\ TypeOK /\ Starting /\ memory[b].state = "DELETING"
      /\ UNCHANGED <<memory, idempotency, queue, durable, active, closed, worker, handler,
                     submitted, answered, crashes, faults>>
      /\ UNCHANGED workspace
      /\ UNCHANGED tree \/ tree' = [tree EXCEPT ![b] = "absent"]
      /\ \/ boot' = [pc |-> "cleaning", build |-> b]
         \/ boot' = [pc |-> "removing", build |-> b]
  BY DEF RecoverDeleting, Starting, Deleting, Booting, BootAt, IndInv
<1>2. boot' \in BootRecord /\ Starting' /\ boot'.build = b
  BY <1>1 DEF BootRecord, BootPcs, Starting
<1>3. /\ tree' \in [Builds -> Trees] /\ workspace' \in [Builds -> BOOLEAN]
      /\ \A c \in Builds : c # b => tree'[c] = tree[c]
  BY <1>1 DEF TypeOK, Trees
<1> QED
  BY <1>1, <1>2, <1>3, RecoveryStepPreserves

LEMMA RecoverRemovePreserves ==
    ASSUME IndInv, RecoverRemove
    PROVE  IndInv'
<1> DEFINE b == boot.build
<1>1. /\ TypeOK /\ Starting /\ boot.pc = "removing" /\ boot \in BootRecord
      /\ b \in Builds /\ memory[b].state = "DELETING"
  BY DEF RecoverRemove, IndInv, BootInv, TypeOK, BootRecord, Starting
<1>2. PICK t \in Removing(tree[b]) :
          /\ tree' = [tree EXCEPT ![b] = t]
          /\ IF t = "absent" THEN BootAt("cleaning", b) ELSE UNCHANGED boot
  BY DEF RecoverRemove
<1>3. /\ UNCHANGED <<memory, idempotency, queue, durable, active, closed, worker, handler,
                     submitted, answered, crashes, faults>>
      /\ UNCHANGED workspace
  BY DEF RecoverRemove, Booting
<1>4. boot' \in BootRecord /\ Starting' /\ boot'.build = b
  BY <1>1, <1>2 DEF BootRecord, BootPcs, BootAt, Starting
<1>5. /\ tree' \in [Builds -> Trees] /\ workspace' \in [Builds -> BOOLEAN]
      /\ \A c \in Builds : c # b => tree'[c] = tree[c]
  <2>1. t \in Trees
    BY <1>2 DEF Removing, Trees
  <2> QED
    BY <1>1, <1>2, <1>3, <2>1 DEF TypeOK
<1> HIDE DEF b
<1> QED
  BY <1>1, <1>3, <1>4, <1>5, RecoveryStepPreserves

LEMMA RecoverCleanPreserves ==
    ASSUME IndInv, RecoverClean
    PROVE  IndInv'
<1> DEFINE b == boot.build
<1>1. /\ TypeOK /\ Starting /\ b \in Builds /\ memory[b].state = "DELETING"
  BY DEF RecoverClean, IndInv, BootInv, Starting
<1>2. /\ UNCHANGED <<memory, idempotency, queue, durable, active, closed, worker, handler,
                     submitted, answered, crashes, faults>>
      /\ UNCHANGED tree
      /\ workspace' = [workspace EXCEPT ![b] = workspace[b] /\ ~memory[b].raw]
      /\ \/ boot' = [pc |-> "clearing", build |-> b]
         \/ boot' = [pc |-> "finishing", build |-> b]
  BY DEF RecoverClean, Booting, BootAt
<1>3. boot' \in BootRecord /\ Starting' /\ boot'.build = b
  BY <1>1, <1>2 DEF BootRecord, BootPcs, Starting
<1>4. workspace' \in [Builds -> BOOLEAN]
  BY <1>1, <1>2, Zenon DEF TypeOK
<1>5. tree' \in [Builds -> Trees] /\ \A c \in Builds : c # b => tree'[c] = tree[c]
  BY <1>1, <1>2 DEF TypeOK
<1> HIDE DEF b
<1> QED
  BY <1>1, <1>2, <1>3, <1>4, <1>5, RecoveryStepPreserves

\* The oldest pending build goes to the end of the queue: all that are still
\* to be queued are younger than all that are.
LEMMA EnqueueNextPreserves ==
    ASSUME IndInv, NEW b \in Builds, EnqueueNext(b)
    PROVE  IndInv'
<1>1. /\ TypeOK /\ Starting /\ ~Serving /\ boot.pc = "loading" /\ memory[b] \in Record
      /\ b \in Unqueued /\ memory[b].state = "QUEUED"
  BY DEF EnqueueNext, IndInv, TypeOK, Starting, Serving, Unqueued
<1>2. /\ Saved(b, memory[b]) /\ queue' = Append(queue, b)
      /\ \A c \in Unqueued : b <= c
      /\ UNCHANGED <<tree, submitted, memory>>
      /\ UNCHANGED <<idempotency, active, closed, worker, handler, boot, workspace, answered,
                     crashes>>
  BY DEF EnqueueNext, OldestFirst
<1>3. Keeps(b, memory[b])
  BY <1>1 DEF Keeps, Visible
<1>4. Remember(b, memory[b]) /\ b <= submitted /\ active' <= submitted
  BY <1>1, <1>2 DEF Remember, TypeOK, IndInv, PresenceInv
<1>5. /\ durable' \in [Builds -> Record] /\ faults' \in 0 .. MaxFaults
      /\ VisibleIsComplete' /\ PresenceInv'
  BY <1>1, <1>2, <1>3, <1>4, WritePreserves
<1>6. \A c \in Builds : c # b => durable'[c] = durable[c]
  BY <1>1, <1>2, WriteDurable
<1>7. TypeOK'
  BY <1>1, <1>2, <1>5 DEF TypeOK
<1>8. WorkerInv' /\ HandlerInv'
  BY <1>1, <1>2, StartingAlone DEF WorkerInv, HandlerInv, HandlerOK
<1>9. BootInv'
  <2>1. \A c \in Builds : memory[c].state \in Ended => durable'[c].state \in Ended
    BY <1>1, <1>6 DEF IndInv, BootInv, Starting, Ended
  <2> QED
    BY <1>1, <1>2, <2>1 DEF IndInv, BootInv, Serving
<1>10. QueueInv'
  <2>1. /\ Len(queue') = Len(queue) + 1 /\ Len(queue) \in Nat
        /\ \A i \in 1 .. Len(queue) : queue'[i] = queue[i]
        /\ queue'[Len(queue) + 1] = b
    BY <1>2, <1>1 DEF TypeOK
  <2>2. \A i \in 1 .. Len(queue), c \in Unqueued : queue[i] < c
    BY <1>1 DEF IndInv, QueueInv, Starting
  <2>3. \A c \in Unqueued' : c \in Unqueued /\ c # b /\ c \in Builds
    BY <1>2, <2>1 DEF Unqueued, Queued
  <2>4. \A i \in 1 .. Len(queue'), c \in Unqueued' : queue'[i] < c
    BY <1>2, <2>1, <2>2, <2>3 DEF Builds
  <2>5. \A i, j \in 1 .. Len(queue') : i < j => queue'[i] < queue'[j]
    BY <1>1, <2>1, <2>2 DEF IndInv, QueueInv, QueueIsFIFO
  <2>6. \A i \in 1 .. Len(queue') : memory[queue'[i]].state \in Pending
    BY <1>1, <2>1, QueuedIsPending DEF Pending
  <2> QED
    BY <1>1, <1>2, <2>4, <2>5, <2>6, StartingAlone DEF QueueInv, QueueIsFIFO
<1> QED
  BY <1>5, <1>7, <1>8, <1>9, <1>10 DEF IndInv

LEMMA RestartPreserves ==
    ASSUME IndInv, Restart
    PROVE  IndInv'
<1>1. /\ TypeOK /\ ~Serving /\ boot.pc = "down" /\ queue = <<>>
      /\ boot' = [pc |-> "loading", build |-> NoBuild]
      /\ memory' = [b \in Builds |->
                      IF durable[b].state \in Pending
                      THEN [durable[b] EXCEPT !.state = "QUEUED"] ELSE durable[b]]
      /\ idempotency' = LoadedKeys
      /\ UNCHANGED <<queue, active, closed, worker, handler, durable, tree, workspace,
                     submitted, answered, crashes, faults>>
  BY DEF Restart, IndInv, BootInv, Serving, Booting, disk
<1>2. ASSUME NEW b \in Builds
      PROVE  /\ memory'[b] \in Record
             /\ \/ memory'[b] = durable[b]
                \/ durable[b].state \in Pending /\ memory'[b].state = "QUEUED"
  <2>1. durable[b] \in Record
    BY <1>1 DEF TypeOK
  <2>2. [durable[b] EXCEPT !.state = "QUEUED"] \in Record
    BY <2>1 DEF Record, States, Pending
  <2> QED
    BY <1>1, <2>1, <2>2 DEF Record
<1>3. TypeOK'
  <2>1. idempotency' \in [Keys -> Builds \cup {NoBuild}]
    BY <1>1 DEF LoadedKeys
  <2>2. memory' \in [Builds -> Record]
    BY <1>1, <1>2
  <2>3. boot' \in BootRecord
    BY <1>1 DEF BootRecord, BootPcs
  <2> QED
    BY <1>1, <2>1, <2>2, <2>3 DEF TypeOK, BootRecord
<1>4. WorkerInv' /\ HandlerInv'
  BY <1>1, StartingAlone DEF WorkerInv, HandlerInv, HandlerOK
<1>5. PresenceInv'
  BY <1>1, <1>2 DEF IndInv, PresenceInv, Pending
<1>6. BootInv'
  BY <1>1, <1>2 DEF IndInv, BootInv, Serving, Ended
<1>7. QueueInv'
  BY <1>1, StartingAlone DEF QueueInv, QueueIsFIFO
<1>8. VisibleIsComplete'
  <2> SUFFICES ASSUME NEW b \in Builds
               PROVE  \A rec \in {memory'[b], durable[b]} :
                         rec.state \in Visible => tree[b] = "complete" /\ rec.hash = b
    BY <1>1 DEF VisibleIsComplete
  <2>1. durable[b].state \in Visible => tree[b] = "complete" /\ durable[b].hash = b
    BY DEF IndInv, VisibleIsComplete
  <2>2. memory'[b] = durable[b] \/ memory'[b].state \notin Visible
    BY <1>2 DEF Visible
  <2> QED
    BY <2>1, <2>2
<1> QED
  BY <1>3, <1>4, <1>5, <1>6, <1>7, <1>8 DEF IndInv

LEMMA ServePreserves ==
    ASSUME IndInv, Serve
    PROVE  IndInv'
<1>1. /\ TypeOK /\ ~Serving /\ boot' = [pc |-> "serving", build |-> NoBuild]
      /\ worker' = "loop"
      /\ UNCHANGED <<memory, idempotency, queue, active, closed, handler, durable, tree,
                     workspace, submitted, answered, crashes, faults>>
  BY DEF Serve, IndInv, Serving, BootAt, disk
<1>2. TypeOK'
  <2>1. boot' \in BootRecord
    BY <1>1 DEF BootRecord, BootPcs
  <2> QED
    BY <1>1, <2>1 DEF TypeOK, BootRecord, WorkerPcs
<1>3. WorkerInv' /\ HandlerInv'
  BY <1>1, StartingAlone DEF WorkerInv, HandlerInv, HandlerOK
<1>4. PresenceInv' /\ VisibleIsComplete'
  BY <1>1 DEF IndInv, PresenceInv, VisibleIsComplete
<1>5. BootInv'
  BY <1>1 DEF BootInv, Serving
<1>6. QueueInv'
  BY <1>1 DEF IndInv, QueueInv, QueueIsFIFO, Queued
<1> QED
  BY <1>2, <1>3, <1>4, <1>5, <1>6 DEF IndInv

\* Whenever the process ends, the durable records and the trees carry on.
LEMMA LoseProcessPreserves ==
    ASSUME IndInv, LoseProcess, workspace' \in [Builds -> BOOLEAN],
           crashes' \in 0 .. MaxCrashes, faults' \in 0 .. MaxFaults
    PROVE  IndInv'
<1>1. NoRecord \in Record /\ NoRecord.state = "ABSENT"
  BY DEF NoRecord, Record
<1>2. Idle \in HandlerStates /\ Idle.pc = "idle"
  BY DEF Idle, HandlerStates, HandlerPcs
<1>3. boot' \in BootRecord /\ boot'.pc = "down"
  BY DEF LoseProcess, BootRecord, BootPcs
<1>4. TypeOK'
  <2>1. memory' \in [Builds -> Record] /\ handler' \in [Handlers -> HandlerStates]
    BY <1>1, <1>2 DEF LoseProcess
  <2>2. idempotency' \in [Keys -> Builds \cup {NoBuild}] /\ queue' \in Seq(Builds)
    BY EmptySeq DEF LoseProcess
  <2>3. closed' \in BOOLEAN /\ worker' \in WorkerPcs /\ active' \in Builds \cup {NoBuild}
    BY DEF LoseProcess, WorkerPcs
  <2>4. UNCHANGED <<durable, tree, submitted, answered>> /\ TypeOK
    BY DEF LoseProcess, IndInv
  <2> QED
    BY <1>3, <2>1, <2>2, <2>3, <2>4 DEF TypeOK, BootRecord
<1>5. WorkerInv' /\ HandlerInv'
  BY <1>2 DEF LoseProcess, WorkerInv, HandlerInv, HandlerOK
<1>6. PresenceInv'
  BY <1>1 DEF LoseProcess, IndInv, TypeOK, PresenceInv, NoBuild
<1>7. BootInv'
  BY <1>3 DEF LoseProcess, BootInv, Serving
<1>8. QueueInv'
  BY <1>3 DEF LoseProcess, QueueInv, QueueIsFIFO
<1>9. VisibleIsComplete'
  BY <1>1 DEF LoseProcess, IndInv, VisibleIsComplete, Visible
<1> QED
  BY <1>4, <1>5, <1>6, <1>7, <1>8, <1>9 DEF IndInv

LEMMA ClosePreserves ==
    ASSUME IndInv, Close
    PROVE  IndInv'
<1>1. /\ TypeOK /\ Serving /\ closed' = TRUE /\ crashes' = crashes + 1 /\ crashes < MaxCrashes
      /\ UNCHANGED <<memory, idempotency, queue, active, handler, boot, durable, tree,
                     workspace, submitted, answered, faults>>
  BY DEF Close, IndInv, disk
<1>2. worker' = worker \/ (worker = "wait" /\ worker' = "loop")
  BY DEF Close, Notified
<1>3. TypeOK'
  BY <1>1, <1>2, BoundsAssumption DEF TypeOK, WorkerPcs
<1>4. WorkerInv'
  BY <1>1, <1>2 DEF IndInv, WorkerInv
<1>5. HandlerInv' /\ PresenceInv' /\ BootInv' /\ VisibleIsComplete'
  BY <1>1 DEF IndInv, HandlerInv, HandlerOK, PresenceInv, BootInv, Serving, VisibleIsComplete
<1>6. QueueInv'
  BY <1>1 DEF IndInv, QueueInv, QueueIsFIFO, Queued, Serving
<1> QED
  BY <1>3, <1>4, <1>5, <1>6 DEF IndInv

-----------------------------------------------------------------------------
(* No build is forgotten                                                   *)

\* What a build in progress may rely on: the worker lets go of a build only when
\* it is settled, holds none while it waits, and whatever is pending while the
\* process starts is QUEUED, which is what the constructor queues.
HeldInv ==
    /\ NothingStranded
    /\ worker \in {"loop", "wait"} => active = NoBuild
    /\ worker \in {"finally", "dying"} => memory[active].state \notin InProgress
    /\ Starting => \A b \in Builds : memory[b].state \in Pending => memory[b].state = "QUEUED"

\* A step that leaves queue, worker and start alone keeps what is held, as long
\* as it starts no build: all that handlers do.
LEMMA QuietStep ==
    ASSUME HeldInv, UNCHANGED <<queue, active, boot>>,
           worker' = worker \/ worker' = Notified,
           \A c \in Builds : memory'[c].state = memory[c].state
                             \/ memory'[c].state \notin InProgress,
           active \in Builds \cup {NoBuild}, WorkerInv
    PROVE  HeldInv'
<1>1. worker' = worker \/ (worker = "wait" /\ worker' = "loop")
  BY DEF Notified
<1>2. NothingStranded'
  BY DEF HeldInv, NothingStranded, InProgress, Queued, Serving
<1>3. worker' \in {"loop", "wait"} => active' = NoBuild
  BY <1>1 DEF HeldInv
<1>4. worker' \in {"finally", "dying"} => memory'[active'].state \notin InProgress
  BY <1>1 DEF HeldInv, WorkerInv
<1>5. Starting' => \A b \in Builds : memory'[b].state \in Pending => memory'[b].state = "QUEUED"
  BY DEF HeldInv, Starting, InProgress
<1> QED
  BY <1>2, <1>3, <1>4, <1>5 DEF HeldInv

\* What a write leaves in memory.
LEMMA Remembered ==
    ASSUME TypeOK, NEW b \in Builds, NEW rec, Remember(b, rec)
    PROVE  memory'[b] = rec /\ \A c \in Builds : c # b => memory'[c] = memory[c]
BY DEF TypeOK, Remember

\* Calls: only a submission brings a build into progress, and it queues it.
LEMMA CallHolds ==
    ASSUME IndInv, HeldInv, Call
    PROVE  HeldInv'
<1>0. TypeOK /\ WorkerInv /\ active \in Builds \cup {NoBuild}
  BY DEF IndInv, TypeOK
<1>1. ASSUME NEW k \in Keys, NEW r \in Requests, SubmitNew(k, r)
      PROVE  HeldInv'
  <2> DEFINE b == submitted + 1
             rec == [NoRecord EXCEPT !.state = IF active # NoBuild \/ queue # <<>>
                                               THEN "QUEUED" ELSE "CREATED",
                                     !.key = k, !.request = r]
  <2>1. b \in Builds /\ submitted \in Nat /\ active <= submitted
    BY <1>1, BoundsAssumption DEF IndInv, TypeOK, PresenceInv, SubmitNew, Builds
  <2>2. /\ Remember(b, rec) /\ queue' = Append(queue, b) /\ Serving
        /\ UNCHANGED <<active, boot>> /\ (worker' = worker \/ worker' = Notified)
    BY <1>1 DEF SubmitNew
  <2>3. \A c \in Builds : c # b => memory'[c] = memory[c]
    BY <1>0, <2>1, <2>2, Remembered
  <2>4. Queued' = Queued \cup {b}
    <3>1. /\ Len(queue') = Len(queue) + 1 /\ Len(queue) \in Nat
          /\ \A i \in 1 .. Len(queue) : queue'[i] = queue[i]
          /\ queue'[Len(queue) + 1] = b
      BY <1>0, <2>1, <2>2 DEF TypeOK
    <3> QED
      BY <3>1 DEF Queued
  <2>5. worker' = worker \/ (worker = "wait" /\ worker' = "loop")
    BY <2>2 DEF Notified
  <2>6. NothingStranded'
    <3> SUFFICES ASSUME NEW c \in Builds
                 PROVE  /\ memory'[c].state \in Pending => c \in Queued' \/ c = active'
                        /\ memory'[c].state \in Active => c = active'
      BY DEF NothingStranded
    <3>1. CASE c = b
      <4>1. rec.state \in Pending /\ memory'[b] = rec
        BY <1>0, <2>1, <2>2, Remembered DEF NoRecord, Pending
      <4> QED
        BY <2>4, <3>1, <4>1 DEF Pending, Active
    <3>2. CASE c # b
      BY <2>2, <2>3, <2>4, <3>2 DEF HeldInv, NothingStranded
    <3> QED
      BY <3>1, <3>2
  <2>7. worker' \in {"finally", "dying"} => memory'[active'].state \notin InProgress
    <3>1. active # b
      BY <1>0, <2>1 DEF Builds, NoBuild
    <3> QED
      BY <1>0, <2>2, <2>3, <2>5, <3>1 DEF HeldInv, WorkerInv
  <2> QED
    BY <2>2, <2>5, <2>6, <2>7 DEF HeldInv, Starting, Serving
<1>2. ASSUME NEW h \in Handlers, NEW b \in Builds, NEW hash \in Builds, NEW reg \in RegIds,
             Acknowledge(h, b, hash, reg)
      PROVE  HeldInv'
  <2> DEFINE rec == [memory[b] EXCEPT !.state = "READY", !.reg = reg]
  <2>1. rec.state = "READY" /\ Remember(b, rec) /\ UNCHANGED <<queue, active, boot, worker>>
    BY <1>0, <1>2 DEF Acknowledge, TypeOK, Record
  <2>2. \A c \in Builds : memory'[c].state = memory[c].state \/ memory'[c].state \notin InProgress
    BY <1>0, <2>1, Remembered DEF InProgress, Pending, Active
  <2> QED
    BY <1>0, <2>1, <2>2, QuietStep
<1>3. ASSUME NEW b \in Builds, Deprecate(b)
      PROVE  HeldInv'
  <2> DEFINE rec == [memory[b] EXCEPT !.state = "DEPRECATED"]
  <2>1. rec.state = "DEPRECATED" /\ Remember(b, rec) /\ UNCHANGED <<queue, active, boot, worker>>
    BY <1>0, <1>3 DEF Deprecate, TypeOK, Record
  <2>2. \A c \in Builds : memory'[c].state = memory[c].state \/ memory'[c].state \notin InProgress
    BY <1>0, <2>1, Remembered DEF InProgress, Pending, Active
  <2> QED
    BY <1>0, <2>1, <2>2, QuietStep
<1>4. ASSUME NEW h \in Handlers, NEW b \in Builds, NEW cmd \in Commands, PurgeStart(h, b, cmd)
      PROVE  HeldInv'
  <2> DEFINE rec == [memory[b] EXCEPT !.state = "DELETING", !.cmd = cmd]
  <2>1. rec.state = "DELETING" /\ Remember(b, rec) /\ UNCHANGED <<queue, active, boot, worker>>
    BY <1>0, <1>4 DEF PurgeStart, TypeOK, Record
  <2>2. \A c \in Builds : memory'[c].state = memory[c].state \/ memory'[c].state \notin InProgress
    BY <1>0, <2>1, Remembered DEF InProgress, Pending, Active
  <2> QED
    BY <1>0, <2>1, <2>2, QuietStep
<1>5. CASE UNCHANGED process
  BY <1>0, <1>5, QuietStep DEF process
<1> QED
  BY <1>1, <1>2, <1>3, <1>4, <1>5
  DEF Call, Submit, Rebuild, SubmitReplay, AcknowledgeReplay, DeprecateReplay, PurgeReplay

\* A handler between and after its regions.
LEMMA HandlerHolds ==
    ASSUME IndInv, HeldInv, NEW h \in Handlers, HandlerStep(h)
    PROVE  HeldInv'
<1> DEFINE b == handler[h].build
<1>0. TypeOK /\ WorkerInv /\ active \in Builds \cup {NoBuild}
  BY DEF IndInv, TypeOK
<1>1. UNCHANGED <<queue, active, boot, worker>> /\ handler[h].pc # "idle"
  BY DEF HandlerStep, PurgeStore, PurgeRemove, CleanCheck, RemoveWorkspace, ClearRaw,
     PurgeFinish, Untouched, At
<1>2. b \in Builds /\ memory[b] \in Record
  BY <1>1, ActingHandler
<1>3. \/ UNCHANGED memory
      \/ Remember(b, [memory[b] EXCEPT !.raw = FALSE])
      \/ Remember(b, [memory[b] EXCEPT !.state = "DELETED"])
  BY DEF HandlerStep, PurgeStore, PurgeRemove, CleanCheck, RemoveWorkspace, ClearRaw,
     PurgeFinish
<1>4. /\ [memory[b] EXCEPT !.raw = FALSE].state = memory[b].state
      /\ [memory[b] EXCEPT !.state = "DELETED"].state = "DELETED"
  BY <1>2 DEF Record
<1>5. \A c \in Builds : memory'[c].state = memory[c].state \/ memory'[c].state \notin InProgress
  <2>1. ASSUME NEW rec, Remember(b, rec), rec.state \in {memory[b].state, "DELETED"}
        PROVE  \A c \in Builds : \/ memory'[c].state = memory[c].state
                                  \/ memory'[c].state = "DELETED"
    BY <1>0, <1>2, <2>1, Remembered
  <2>2. \A c \in Builds : memory'[c].state = memory[c].state \/ memory'[c].state = "DELETED"
    BY <1>3, <1>4, <2>1
  <2> QED
    BY <2>2 DEF InProgress, Pending, Active
<1> QED
  BY <1>0, <1>1, <1>5, QuietStep

\* The worker does what it likes to its own build until it lets go of it.
LEMMA WorkerKeepsHold ==
    ASSUME HeldInv, Serving, UNCHANGED <<queue, active, boot>>,
           \A c \in Builds : c # active => memory'[c].state = memory[c].state,
           worker' \in {"loop", "wait"} => active = NoBuild,
           worker' \in {"finally", "dying"} => memory'[active].state \notin InProgress
    PROVE  HeldInv'
<1>1. NothingStranded'
  BY DEF HeldInv, NothingStranded, Queued
<1> QED
  BY <1>1 DEF HeldInv, Starting, Serving

LEMMA WorkerHolds ==
    ASSUME IndInv, HeldInv, Worker
    PROVE  HeldInv'
<1>1. TypeOK /\ WorkerInv
  BY DEF IndInv
<1>2. worker # "none"
  BY DEF Worker, WorkerIdle, WorkerPop, WorkerMkdir, WorkerUpdate, WorkerStage,
     WorkerStageRaises, WorkerPublish, WorkerExcept, WorkerFinally
<1>3. Serving /\ UNCHANGED boot
  BY <1>2, WorkerServes
  DEF Worker, WorkerIdle, WorkerPop, WorkerMkdir, WorkerUpdate, WorkerStage,
      WorkerStageRaises, WorkerPublish, WorkerExcept, WorkerFinally, Elsewhere
<1>4. CASE WorkerIdle \/ WorkerMkdir \/ WorkerStage \/ WorkerStageRaises
  <2>1. /\ UNCHANGED <<memory, queue, active>> /\ worker' \notin {"finally", "dying"}
        /\ worker' \in {"loop", "wait"} => worker = "loop"
    BY <1>4 DEF WorkerIdle, WorkerMkdir, WorkerStage, WorkerStageRaises
  <2> QED
    BY <1>3, <2>1, WorkerKeepsHold DEF HeldInv
<1>5. CASE WorkerPop
  <2> DEFINE b == Head(queue)
             rec == Popped(memory[b])
  <2>1. /\ queue \in Seq(Builds) /\ queue # <<>> /\ active = NoBuild /\ active' = b
        /\ queue' = Tail(queue) /\ Remember(b, rec) /\ worker' \in {"mkdir", "dead"}
    BY <1>1, <1>5 DEF WorkerPop, TypeOK, HeldInv
  <2>2. /\ Len(queue) \in Nat \ {0} /\ b = queue[1] /\ Len(Tail(queue)) = Len(queue) - 1
        /\ \A i \in 1 .. Len(Tail(queue)) : Tail(queue)[i] = queue[i + 1]
    BY <2>1, HeadTailProperties, EmptySeq
  <2>3. b \in Builds /\ memory[b] \in Record /\ memory[b].state \in Pending
    BY <1>1, <2>2, QueuedIsPending DEF TypeOK
  <2>4. rec.state = memory[b].state
    BY <2>3 DEF Popped, Record
  <2> HIDE DEF b, rec
  <2>5. Queued \subseteq Queued' \cup {b}
    <3> SUFFICES ASSUME NEW i \in 1 .. Len(queue), i # 1
                 PROVE  queue[i] \in Queued'
      BY <2>2 DEF Queued
    <3>1. i - 1 \in 1 .. Len(queue') /\ queue'[i - 1] = queue[i]
      BY <2>1, <2>2
    <3> QED
      BY <3>1 DEF Queued
  <2>6. \A c \in Builds : memory'[c].state = memory[c].state
    BY <1>1, <2>1, <2>3, <2>4, Remembered
  <2>7. NothingStranded'
    <3> SUFFICES ASSUME NEW c \in Builds
                 PROVE  /\ memory[c].state \in Pending => c \in Queued' \/ c = b
                        /\ memory[c].state \in Active => c = b
      BY <2>1, <2>6 DEF NothingStranded
    <3>1. /\ memory[c].state \in Pending => c \in Queued \/ c = active
          /\ memory[c].state \in Active => c = active
      BY <1>3 DEF HeldInv, NothingStranded
    <3>2. c # active
      BY <2>1 DEF Builds, NoBuild
    <3> QED
      BY <2>5, <3>1, <3>2
  <2> QED
    BY <1>3, <2>1, <2>7 DEF HeldInv, Starting, Serving
<1>6. CASE WorkerUpdate \/ WorkerPublish \/ WorkerExcept
  <2>1. active \in Builds /\ memory[active] \in Record
    BY <1>1, <1>6 DEF WorkerUpdate, WorkerPublish, WorkerExcept, WorkerInv, TypeOK
  <2>2. PICK rec \in {[memory[active] EXCEPT !.state = NextStage[memory[active].state]],
                      [memory[active] EXCEPT !.state = "REGISTERING", !.hash = active],
                      [memory[active] EXCEPT !.state = "FAILED"]} :
           /\ Remember(active, rec)
           /\ worker' \in {"finally", "dying"} => rec.state \in {"REGISTERING", "FAILED"}
    <3>1. /\ [memory[active] EXCEPT !.state = "REGISTERING", !.hash = active].state = "REGISTERING"
          /\ [memory[active] EXCEPT !.state = "FAILED"].state = "FAILED"
      BY <2>1 DEF Record
    <3>2. CASE WorkerUpdate
      BY <3>2 DEF WorkerUpdate
    <3>3. CASE WorkerPublish
      BY <3>1, <3>3 DEF WorkerPublish
    <3>4. CASE WorkerExcept
      BY <3>1, <3>4 DEF WorkerExcept
    <3> QED
      BY <1>6, <3>2, <3>3, <3>4
  <2>3. memory'[active] = rec /\ \A c \in Builds : c # active => memory'[c] = memory[c]
    BY <1>1, <2>1, <2>2, Remembered
  <2>4. UNCHANGED <<queue, active>> /\ worker' \notin {"loop", "wait"}
    BY <1>6 DEF WorkerUpdate, WorkerPublish, WorkerExcept
  <2>5. worker' \in {"finally", "dying"} => memory'[active].state \notin InProgress
    BY <2>2, <2>3 DEF InProgress, Pending, Active
  <2> QED
    BY <1>3, <2>3, <2>4, <2>5, WorkerKeepsHold
<1>7. CASE WorkerFinally
  <2>1. /\ UNCHANGED <<memory, queue>> /\ active' = NoBuild /\ worker' \in {"loop", "dead"}
        /\ memory[active].state \notin InProgress
    BY <1>7 DEF WorkerFinally, HeldInv
  <2>2. NothingStranded'
    BY <1>3, <2>1 DEF HeldInv, NothingStranded, InProgress, Queued
  <2> QED
    BY <1>3, <2>1, <2>2 DEF HeldInv, Starting, Serving
<1> QED
  BY <1>4, <1>5, <1>6, <1>7 DEF Worker

\* A process that is down holds nothing.
LEMMA ProcessLostHolds ==
    ASSUME LoseProcess
    PROVE  HeldInv'
BY DEF LoseProcess, HeldInv, NothingStranded, Serving, Starting

\* Start queues whatever is pending before it serves, and leaves nothing in a
\* stage of the pipeline.
LEMMA BootHolds ==
    ASSUME IndInv, HeldInv, Boot
    PROVE  HeldInv'
<1>1. TypeOK /\ ~Serving /\ worker = "none" /\ active = NoBuild
  BY StartingAlone
  DEF IndInv, Boot, Restart, FailInterrupted, EnqueueNext, RecoverDeleting, RecoverRemove,
      RecoverClean, RecoverClear, RecoverFinish, StartFails, Serve, Serving
<1>2. ASSUME Starting, Starting', UNCHANGED worker,
             \A c \in Builds : \/ memory'[c].state = memory[c].state
                                \/ memory'[c].state \notin Pending
      PROVE  HeldInv'
  BY <1>1, <1>2 DEF HeldInv, NothingStranded, Starting, Serving
<1>3. ASSUME NEW b \in Builds, NEW rec, Starting, Starting', UNCHANGED worker,
             Remember(b, rec), rec.state \notin Pending
      PROVE  HeldInv'
  <2>1. \A c \in Builds : memory'[c].state = memory[c].state \/ memory'[c].state \notin Pending
    BY <1>1, <1>3, Remembered
  <2> QED
    BY <1>2, <1>3, <2>1
<1>4. CASE Restart
  <2>1. /\ UNCHANGED <<worker, active>> /\ boot'.pc = "loading"
        /\ memory' = [b \in Builds |->
                        IF durable[b].state \in Pending
                        THEN [durable[b] EXCEPT !.state = "QUEUED"] ELSE durable[b]]
    BY <1>4 DEF Restart, Booting
  <2>2. \A b \in Builds : memory'[b].state \in Pending => memory'[b].state = "QUEUED"
    BY <1>1, <2>1 DEF TypeOK, Record
  <2> QED
    BY <1>1, <2>1, <2>2 DEF HeldInv, NothingStranded, Serving
<1>5. ASSUME NEW b \in Builds, FailInterrupted(b)
      PROVE  HeldInv'
  <2>1. [memory[b] EXCEPT !.state = "FAILED"].state \notin Pending
    BY <1>1 DEF TypeOK, Record, Pending
  <2> QED
    BY <1>3, <1>5, <2>1 DEF FailInterrupted, Starting
<1>6. ASSUME NEW b \in Builds, EnqueueNext(b) \/ RecoverDeleting(b)
      PROVE  HeldInv'
  BY <1>2, <1>6 DEF EnqueueNext, RecoverDeleting, Booting, BootAt, Starting
<1>7. CASE RecoverRemove \/ RecoverClean
  BY <1>2, <1>7 DEF RecoverRemove, RecoverClean, Booting, BootAt, Starting
<1>8. CASE RecoverClear \/ RecoverFinish
  <2>1. boot.build \in Builds /\ memory[boot.build].state = "DELETING"
    BY <1>8 DEF IndInv, BootInv, RecoverClear, RecoverFinish
  <2>2. /\ [memory[boot.build] EXCEPT !.raw = FALSE].state \notin Pending
        /\ [memory[boot.build] EXCEPT !.state = "DELETED"].state \notin Pending
    BY <1>1, <2>1 DEF TypeOK, Record, Pending
  <2>3. Starting /\ Starting' /\ UNCHANGED worker
    BY <1>8 DEF RecoverClear, RecoverFinish, BootAt, Starting
  <2> QED
    BY <1>3, <1>8, <2>1, <2>2, <2>3 DEF RecoverClear, RecoverFinish
<1>9. CASE Serve
  <2>1. /\ boot.pc = "loading" /\ boot'.pc = "serving" /\ worker' = "loop" /\ Scanned
        /\ Unqueued = {} /\ UNCHANGED <<memory, queue, active>>
    BY <1>9 DEF Serve, BootAt
  <2>2. NothingStranded'
    BY <2>1 DEF HeldInv, NothingStranded, Scanned, Unqueued, Queued, Starting
  <2> QED
    BY <1>1, <2>1, <2>2 DEF HeldInv, Starting
<1>10. CASE StartFails
  BY <1>10, ProcessLostHolds DEF StartFails
<1> QED
  BY <1>4, <1>5, <1>6, <1>7, <1>8, <1>9, <1>10 DEF Boot

LEMMA NextHolds ==
    ASSUME IndInv, HeldInv, [Next]_vars
    PROVE  HeldInv'
<1>1. TypeOK /\ WorkerInv /\ active \in Builds \cup {NoBuild}
  BY DEF IndInv, TypeOK
<1>2. CASE Close \/ UNCHANGED vars
  BY <1>1, <1>2, QuietStep DEF Close, vars
<1>3. CASE Exit \/ Crash
  BY <1>3, ProcessLostHolds DEF Exit, Crash
<1> QED
  BY <1>2, <1>3, CallHolds, HandlerHolds, WorkerHolds, BootHolds DEF Next

-----------------------------------------------------------------------------
(* The queue stays bounded across restarts                                 *)

\* The builds that a start would queue.
DurablyPending == {b \in Builds : durable[b].state \in Pending}

\* A pending record has no tree. Until the process first stops, only what was
\* submitted to it is pending; while it starts, memory and store agree on what is.
PendingInv ==
    /\ \A b \in Builds : \A rec \in {memory[b], durable[b]} :
          rec.state \in Pending => rec.hash = NoBuild
    /\ crashes = 0 => ~closed /\ (~Serving => DurablyPending = {})
    /\ Starting => \A b \in Builds : memory[b].state \in Pending <=> b \in DurablyPending

\* At most one build is durably pending and not queued: the one the worker took,
\* and none once the worker has settled it.
LooseInv ==
    Serving =>
        /\ \E x \in Builds \cup {NoBuild} : /\ DurablyPending \subseteq Queued \cup {x}
                                            /\ active # NoBuild => x = active
        /\ worker \in {"loop", "wait", "stopped", "finally"} => DurablyPending \subseteq Queued

\* So a start never queues more than one build too many.
BoundInv ==
    /\ PendingInv /\ LooseInv /\ QueueIsBounded
    /\ Cardinality(DurablyPending) <= QueueCapacity + 1

\* Sets of builds are finite, and no larger than the sets they are part of.
LEMMA BuildsFinite ==
    ASSUME NEW S \in SUBSET Builds
    PROVE  /\ IsFiniteSet(S) /\ Cardinality(S) \in Nat
           /\ \A T \in SUBSET S : Cardinality(T) <= Cardinality(S)
<1>1. IsFiniteSet(Builds)
  BY BoundsAssumption, FS_Interval DEF Builds
<1>2. IsFiniteSet(S)
  BY <1>1, FS_Subset
<1> QED
  BY <1>2, FS_Subset, FS_CardinalityType

\* The entries of a sorted queue are different ones: as many as they are.
LEMMA SortedSize ==
    ASSUME NEW q \in Seq(Builds), \A i, j \in 1 .. Len(q) : i < j => q[i] < q[j]
    PROVE  Cardinality({q[i] : i \in 1 .. Len(q)}) = Len(q)
<1> DEFINE n == Len(q)
           S == {q[i] : i \in 1 .. n}
           f == [i \in 1 .. n |-> q[i]]
<1>1. n \in Nat /\ \A i \in 1 .. n : q[i] \in Builds
  OBVIOUS
<1>2. IsFiniteSet(1 .. n) /\ Cardinality(1 .. n) = n
  <2> HIDE DEF n
  <2>1. /\ IsFiniteSet(1 .. n)
        /\ Cardinality(1 .. n) = IF 1 > n THEN 0 ELSE n - 1 + 1
    BY <1>1, FS_Interval
  <2> QED
    BY <1>1, <2>1
<1>3. ExistsBijection(1 .. n, S)
  <2>1. \A i, j \in 1 .. n : q[i] = q[j] => i = j
    BY <1>1 DEF Builds
  <2>2. f \in Injection(1 .. n, S)
    BY <2>1 DEF Injection, IsInjective
  <2>3. f \in Surjection(1 .. n, S)
    BY DEF Surjection
  <2> QED
    BY <2>2, <2>3 DEF ExistsBijection, Bijection
<1> QED
  BY <1>2, <1>3, FS_Bijection

\* A set with at most one build beyond those of a queue, or none.
LEMMA OneBeyondQueue ==
    ASSUME NEW q \in Seq(Builds), \A i, j \in 1 .. Len(q) : i < j => q[i] < q[j],
           NEW x, NEW S \in SUBSET ({q[i] : i \in 1 .. Len(q)} \cup {x})
    PROVE  Cardinality(S) <= Len(q) + 1
<1> DEFINE Q == {q[i] : i \in 1 .. Len(q)}
<1>1. IsFiniteSet(Q) /\ Cardinality(Q) = Len(q) /\ Len(q) \in Nat
  BY SortedSize, BuildsFinite
<1> HIDE DEF Q
<1>2. IsFiniteSet(Q \cup {x}) /\ Cardinality(Q \cup {x}) <= Len(q) + 1
  <2>1. /\ IsFiniteSet(Q \cup {x})
        /\ Cardinality(Q \cup {x}) = IF x \in Q THEN Cardinality(Q) ELSE Cardinality(Q) + 1
    BY <1>1, FS_AddElement
  <2> QED
    BY <1>1, <2>1
<1>3. /\ Cardinality(S) <= Cardinality(Q \cup {x})
      /\ Cardinality(S) \in Nat /\ Cardinality(Q \cup {x}) \in Nat
  <2>1. S \in SUBSET (Q \cup {x})
    BY DEF Q
  <2> QED
    BY <1>2, <2>1, FS_Subset, FS_CardinalityType
<1> QED
  BY <1>1, <1>2, <1>3

LEMMA WithinQueue ==
    ASSUME NEW q \in Seq(Builds), \A i, j \in 1 .. Len(q) : i < j => q[i] < q[j],
           NEW S \in SUBSET {q[i] : i \in 1 .. Len(q)}
    PROVE  Cardinality(S) <= Len(q)
<1>1. {q[i] : i \in 1 .. Len(q)} \in SUBSET Builds
  OBVIOUS
<1> QED
  BY <1>1, SortedSize, BuildsFinite

\* When pending builds only drop out and the queue stays, the bounds stay.
LEMMA FewerPending ==
    ASSUME BoundInv, PendingInv', LooseInv', DurablyPending' \subseteq DurablyPending,
           UNCHANGED queue, crashes \in Nat, crashes' \in Nat,
           crashes # 0 => crashes' # 0, Len(queue) \in Nat
    PROVE  BoundInv'
<1>1. Cardinality(DurablyPending') <= QueueCapacity + 1
  <2>1. /\ Cardinality(DurablyPending') <= Cardinality(DurablyPending)
        /\ Cardinality(DurablyPending) \in Nat /\ Cardinality(DurablyPending') \in Nat
    <3>1. DurablyPending \in SUBSET Builds
      BY DEF DurablyPending
    <3> QED
      BY <3>1, BuildsFinite
  <2> QED
    BY <2>1, ConfigAssumption DEF BoundInv
<1>2. QueueIsBounded'
  BY ConfigAssumption DEF BoundInv, QueueIsBounded
<1> QED
  BY <1>1, <1>2 DEF BoundInv

\* A write of a record that is not pending.
LEMMA SettlingWrite ==
    ASSUME IndInv, BoundInv, NEW b \in Builds, NEW rec \in Record, rec.state \notin Pending,
           Remember(b, rec), Saved(b, rec) \/ NotSaved(b, rec),
           ~Serving => Saved(b, rec), Starting' <=> Starting, Serving' <=> Serving,
           UNCHANGED <<queue, closed, crashes>>
    PROVE  /\ PendingInv' /\ DurablyPending' \subseteq DurablyPending
           /\ Saved(b, rec) => b \notin DurablyPending'
           /\ LooseInv' => BoundInv'
<1>1. TypeOK /\ Len(queue) \in Nat /\ crashes \in Nat
  BY DEF IndInv, TypeOK
<1>2. /\ durable' \in [Builds -> Record]
      /\ \A c \in Builds : c # b => durable'[c] = durable[c]
      /\ durable'[b] = durable[b] \/ durable'[b].state = rec.state
      /\ Saved(b, rec) => durable'[b].state = rec.state
  BY <1>1, WriteDurable
<1>3. memory'[b] = rec /\ \A c \in Builds : c # b => memory'[c] = memory[c]
  BY <1>1, Remembered
<1>4. /\ DurablyPending' \subseteq DurablyPending
      /\ Saved(b, rec) => b \notin DurablyPending'
      /\ \A c \in Builds : c # b => (c \in DurablyPending' <=> c \in DurablyPending)
  BY <1>2 DEF DurablyPending
<1>5. PendingInv'
  <2>1. \A c \in Builds : \A r \in {memory'[c], durable'[c]} : r.state \in Pending => r.hash = NoBuild
    BY <1>2, <1>3 DEF BoundInv, PendingInv
  <2>2. Starting' => \A c \in Builds : memory'[c].state \in Pending <=> c \in DurablyPending'
    BY <1>3, <1>4 DEF BoundInv, PendingInv, Starting, Serving
  <2>3. crashes' = 0 => ~closed' /\ (~Serving' => DurablyPending' = {})
    BY <1>4 DEF BoundInv, PendingInv
  <2> QED
    BY <2>1, <2>2, <2>3 DEF PendingInv
<1> QED
  BY <1>1, <1>4, <1>5, FewerPending

\* A step that leaves records and queue alone.
LEMMA RecordsKept ==
    ASSUME IndInv, BoundInv, UNCHANGED <<memory, durable, queue>>,
           Starting' => Starting, Serving' <=> Serving, LooseInv', crashes' \in Nat,
           crashes' = 0 => crashes = 0 /\ closed' = closed
    PROVE  BoundInv'
<1>1. DurablyPending' = DurablyPending
  BY DEF DurablyPending
<1>2. PendingInv'
  BY <1>1 DEF BoundInv, PendingInv
<1>3. Len(queue) \in Nat /\ crashes \in Nat
  BY DEF IndInv, TypeOK
<1> QED
  BY <1>1, <1>2, <1>3, FewerPending

\* What a step of somebody other than the worker needs to keep.
LEMMA LooseKept ==
    ASSUME BoundInv, DurablyPending' \subseteq DurablyPending,
           UNCHANGED <<queue, active, boot>>, worker' = worker \/ worker' = Notified
    PROVE  LooseInv'
<1>1. worker' = worker \/ (worker = "wait" /\ worker' = "loop")
  BY DEF Notified
<1> QED
  BY <1>1 DEF BoundInv, LooseInv, Serving, Queued

\* A locked region of a handler.
LEMMA RegionBound ==
    ASSUME IndInv, BoundInv, Serving, NEW b \in Builds, NEW rec \in Record,
           rec.state \notin Pending, Remember(b, rec), Saved(b, rec) \/ NotSaved(b, rec),
           UNCHANGED <<queue, active, worker, boot, closed, crashes>>
    PROVE  BoundInv'
<1>1. (Starting' <=> Starting) /\ (Serving' <=> Serving)
  BY DEF Starting, Serving
<1> QED
  BY <1>1, SettlingWrite, LooseKept

LEMMA SubmitBound ==
    ASSUME IndInv, BoundInv, NEW k \in Keys, NEW r \in Requests, SubmitNew(k, r)
    PROVE  BoundInv'
<1> DEFINE b == submitted + 1
           rec == [NoRecord EXCEPT !.state = IF active # NoBuild \/ queue # <<>>
                                             THEN "QUEUED" ELSE "CREATED",
                                   !.key = k, !.request = r]
<1>1. TypeOK /\ QueueIsFIFO /\ Serving /\ Len(queue) \in Nat /\ Len(queue) < QueueCapacity
  BY ConfigAssumption DEF IndInv, QueueInv, TypeOK, SubmitNew, QueueFull
<1>2. b \in Builds /\ submitted \in Nat
  BY <1>1, BoundsAssumption DEF TypeOK, SubmitNew, Builds
<1>3. rec \in Record /\ rec.hash = NoBuild
  BY DEF Record, NoRecord, States, Pending, NoBuild
<1>4. /\ Remember(b, rec) /\ (Saved(b, rec) \/ NotSaved(b, rec)) /\ queue' = Append(queue, b)
      /\ UNCHANGED <<active, closed, boot, crashes>> /\ (worker' = worker \/ worker' = Notified)
  BY DEF SubmitNew
<1> HIDE DEF b, rec
<1>5. memory'[b] = rec /\ \A c \in Builds : c # b => memory'[c] = memory[c]
  BY <1>1, <1>2, <1>4, Remembered
<1>6. /\ \A c \in Builds : c # b => durable'[c] = durable[c]
      /\ \/ durable'[b] = durable[b]
         \/ durable'[b].state = rec.state /\ durable'[b].hash = rec.hash
  BY <1>1, <1>2, <1>3, <1>4, WriteDurable
<1>7. DurablyPending' \subseteq DurablyPending \cup {b}
  BY <1>6 DEF DurablyPending
<1>8. Len(queue') = Len(queue) + 1 /\ Queued' = Queued \cup {b}
  <2>1. /\ Len(queue') = Len(queue) + 1
        /\ \A i \in 1 .. Len(queue) : queue'[i] = queue[i]
        /\ queue'[Len(queue) + 1] = b
    BY <1>1, <1>2, <1>4 DEF TypeOK
  <2> QED
    BY <1>1, <2>1 DEF Queued
<1>9. PendingInv'
  <2>1. \A c \in Builds : \A q \in {memory'[c], durable'[c]} : q.state \in Pending => q.hash = NoBuild
    BY <1>3, <1>5, <1>6 DEF BoundInv, PendingInv
  <2> QED
    BY <1>1, <1>4, <2>1 DEF BoundInv, PendingInv, Serving, Starting
<1>10. LooseInv'
  <2>1. worker' = worker \/ (worker = "wait" /\ worker' = "loop")
    BY <1>4 DEF Notified
  <2>2. PICK x \in Builds \cup {NoBuild} : /\ DurablyPending \subseteq Queued \cup {x}
                                           /\ active # NoBuild => x = active
    BY <1>1 DEF BoundInv, LooseInv
  <2>3. DurablyPending' \subseteq Queued' \cup {x}
    BY <1>7, <1>8, <2>2
  <2>4. worker' \in {"loop", "wait", "stopped", "finally"} => DurablyPending' \subseteq Queued'
    BY <1>1, <1>7, <1>8, <2>1 DEF BoundInv, LooseInv
  <2> QED
    BY <1>4, <2>2, <2>3, <2>4 DEF LooseInv
<1>11. QueueIsBounded' /\ Len(queue') <= QueueCapacity
  BY <1>1, <1>8, ConfigAssumption DEF QueueIsBounded
<1>12. Cardinality(DurablyPending') <= QueueCapacity + 1
  <2>1. TypeOK' /\ QueueIsFIFO'
    BY SubmitNewPreserves DEF IndInv, QueueInv
  <2>2. PICK x \in Builds \cup {NoBuild} : DurablyPending' \subseteq Queued' \cup {x}
    BY <1>1, <1>4, <1>10 DEF LooseInv, Serving
  <2>3. Cardinality(DurablyPending') <= Len(queue') + 1
    BY <2>1, <2>2, OneBeyondQueue DEF TypeOK, QueueIsFIFO, Queued
  <2>4. Cardinality(DurablyPending') \in Nat
    <3>1. DurablyPending' \in SUBSET Builds
      BY DEF DurablyPending
    <3> QED
      BY <3>1, BuildsFinite
  <2> QED
    BY <1>1, <1>8, <1>11, <2>3, <2>4, ConfigAssumption
<1> QED
  BY <1>9, <1>10, <1>11, <1>12 DEF BoundInv

LEMMA CallBound ==
    ASSUME IndInv, BoundInv, Call
    PROVE  BoundInv'
<1>0. TypeOK /\ \A b \in Builds : memory[b] \in Record
  BY DEF IndInv, TypeOK
<1>1. ASSUME NEW h \in Handlers, NEW b \in Builds, NEW hash \in Builds, NEW reg \in RegIds,
             Acknowledge(h, b, hash, reg)
      PROVE  BoundInv'
  <2> DEFINE rec == [memory[b] EXCEPT !.state = "READY", !.reg = reg]
  <2>1. rec \in Record /\ rec.state \notin Pending
    BY <1>0 DEF Record, States, Visible, Pending
  <2>2. /\ Remember(b, rec) /\ (Saved(b, rec) \/ NotSaved(b, rec)) /\ Serving
        /\ UNCHANGED <<queue, active, worker, boot, closed, crashes>>
    BY <1>1 DEF Acknowledge
  <2> HIDE DEF rec
  <2> QED
    BY <2>1, <2>2, RegionBound
<1>2. ASSUME NEW b \in Builds, Deprecate(b)
      PROVE  BoundInv'
  <2> DEFINE rec == [memory[b] EXCEPT !.state = "DEPRECATED"]
  <2>1. rec \in Record /\ rec.state \notin Pending
    BY <1>0 DEF Record, States, Visible, Pending
  <2>2. /\ Remember(b, rec) /\ (Saved(b, rec) \/ NotSaved(b, rec)) /\ Serving
        /\ UNCHANGED <<queue, active, worker, boot, closed, crashes>>
    BY <1>2 DEF Deprecate
  <2> HIDE DEF rec
  <2> QED
    BY <2>1, <2>2, RegionBound
<1>3. ASSUME NEW h \in Handlers, NEW b \in Builds, NEW cmd \in Commands, PurgeStart(h, b, cmd)
      PROVE  BoundInv'
  <2> DEFINE rec == [memory[b] EXCEPT !.state = "DELETING", !.cmd = cmd]
  <2>1. rec \in Record /\ rec.state \notin Pending
    BY <1>0 DEF Record, States, Ended, Pending
  <2>2. /\ Remember(b, rec) /\ (Saved(b, rec) \/ NotSaved(b, rec)) /\ Serving
        /\ UNCHANGED <<queue, active, worker, boot, closed, crashes>>
    BY <1>3 DEF PurgeStart
  <2> HIDE DEF rec
  <2> QED
    BY <2>1, <2>2, RegionBound
<1>4. CASE UNCHANGED <<process, disk, crashes>>
  <2>1. /\ UNCHANGED <<memory, durable, queue, active, worker, boot, closed, crashes>>
        /\ crashes' \in Nat
    BY <1>0, <1>4 DEF process, disk, TypeOK
  <2>2. LooseInv'
    BY <2>1, LooseKept DEF DurablyPending
  <2> QED
    BY <2>1, <2>2, RecordsKept DEF Starting, Serving
<1> QED
  BY <1>1, <1>2, <1>3, <1>4, SubmitBound
  DEF Call, Submit, Rebuild, SubmitReplay, AcknowledgeReplay, DeprecateReplay, PurgeReplay

LEMMA HandlerBound ==
    ASSUME IndInv, BoundInv, NEW h \in Handlers, HandlerStep(h)
    PROVE  BoundInv'
<1> DEFINE b == handler[h].build
<1>0. TypeOK
  BY DEF IndInv
<1>1. /\ UNCHANGED <<queue, active, boot, worker, closed, crashes>>
      /\ handler[h].pc # "idle" /\ Serving
  BY DEF HandlerStep, PurgeStore, PurgeRemove, CleanCheck, RemoveWorkspace, ClearRaw,
     PurgeFinish, Untouched, At
<1>2. b \in Builds /\ memory[b] \in Record /\ HandlerOK(h)
  BY <1>1, ActingHandler
<1>3. memory[b].state \notin Pending
  BY <1>1, <1>2 DEF HandlerOK, BoundInv, PendingInv, Ended, Pending
<1>4. /\ [memory[b] EXCEPT !.raw = FALSE] \in Record
      /\ [memory[b] EXCEPT !.raw = FALSE].state \notin Pending
      /\ [memory[b] EXCEPT !.state = "DELETED"] \in Record
      /\ [memory[b] EXCEPT !.state = "DELETED"].state \notin Pending
  BY <1>2, <1>3 DEF Record, States, Ended, Pending
<1>5. \/ UNCHANGED <<memory, durable>>
      \/ \E rec \in {[memory[b] EXCEPT !.raw = FALSE], [memory[b] EXCEPT !.state = "DELETED"]} :
            Remember(b, rec) /\ (Saved(b, rec) \/ NotSaved(b, rec))
  BY DEF HandlerStep, PurgeStore, PurgeRemove, CleanCheck, RemoveWorkspace, ClearRaw,
     PurgeFinish, disk
<1>6. CASE UNCHANGED <<memory, durable>>
  <2>1. LooseInv'
    BY <1>1, <1>6, LooseKept DEF DurablyPending
  <2> QED
    BY <1>0, <1>1, <1>6, <2>1, RecordsKept DEF Starting, Serving, TypeOK
<1>7. ASSUME NEW rec \in Record, rec.state \notin Pending,
             Remember(b, rec), Saved(b, rec) \/ NotSaved(b, rec)
      PROVE  BoundInv'
  BY <1>1, <1>2, <1>7, RegionBound
<1> QED
  BY <1>4, <1>5, <1>6, <1>7

LEMMA WorkerBound ==
    ASSUME IndInv, BoundInv, Worker
    PROVE  BoundInv'
<1>1. TypeOK /\ WorkerInv /\ QueueIsFIFO /\ crashes \in Nat /\ Len(queue) \in Nat
  BY DEF IndInv, QueueInv, TypeOK
<1>2. worker # "none"
  BY DEF Worker, WorkerIdle, WorkerPop, WorkerMkdir, WorkerUpdate, WorkerStage,
     WorkerStageRaises, WorkerPublish, WorkerExcept, WorkerFinally
<1>3. Serving /\ UNCHANGED <<boot, closed, crashes>>
  BY <1>2, WorkerServes
  DEF Worker, WorkerIdle, WorkerPop, WorkerMkdir, WorkerUpdate, WorkerStage,
      WorkerStageRaises, WorkerPublish, WorkerExcept, WorkerFinally, Elsewhere
<1>4. PICK x \in Builds \cup {NoBuild} : /\ DurablyPending \subseteq Queued \cup {x}
                                         /\ active # NoBuild => x = active
  BY <1>3 DEF BoundInv, LooseInv
<1>5. CASE WorkerIdle \/ WorkerMkdir \/ WorkerStage \/ WorkerStageRaises \/ WorkerFinally
  <2>1. /\ UNCHANGED <<memory, durable, queue>> /\ active' \in {active, NoBuild}
        /\ worker' \in {"loop", "wait", "stopped", "finally"} => worker \in {"loop", "finally"}
    BY <1>5 DEF WorkerIdle, WorkerMkdir, WorkerStage, WorkerStageRaises, WorkerFinally, disk
  <2>2. LooseInv'
    BY <1>3, <1>4, <2>1 DEF BoundInv, LooseInv, DurablyPending, Queued
  <2> QED
    BY <1>1, <1>3, <2>1, <2>2, RecordsKept DEF Starting, Serving
<1>6. CASE WorkerUpdate \/ WorkerPublish \/ WorkerExcept
  <2>1. active \in Builds /\ memory[active] \in Record
    BY <1>1, <1>6 DEF WorkerUpdate, WorkerPublish, WorkerExcept, WorkerInv, TypeOK
  <2>2. \E rec \in Record :
           /\ rec.state \notin Pending
           /\ Remember(active, rec) /\ (Saved(active, rec) \/ NotSaved(active, rec))
           /\ worker' \in {"loop", "wait", "stopped", "finally"} => Saved(active, rec)
    <3>1. CASE WorkerUpdate
      <4> DEFINE next == NextStage[memory[active].state]
                 rec == [memory[active] EXCEPT !.state = next]
      <4>1. next \in Active
        BY <1>1, <3>1 DEF WorkerUpdate, WorkerInv, NextStage, InProgress, Pending, Active
      <4> HIDE DEF next
      <4>2. rec \in Record /\ rec.state \notin Pending
        BY <2>1, <4>1 DEF Record, States, Pending, Active
      <4>3. /\ Remember(active, rec) /\ (Saved(active, rec) \/ NotSaved(active, rec))
            /\ worker' \notin {"loop", "wait", "stopped", "finally"}
        BY <3>1 DEF WorkerUpdate, next
      <4> QED
        BY <4>2, <4>3
    <3>2. CASE WorkerPublish
      <4> DEFINE rec == [memory[active] EXCEPT !.state = "REGISTERING", !.hash = active]
      <4>1. rec \in Record /\ rec.state \notin Pending
        BY <2>1 DEF Record, States, Visible, Pending
      <4>2. /\ Remember(active, rec) /\ (Saved(active, rec) \/ NotSaved(active, rec))
            /\ worker' \in {"loop", "wait", "stopped", "finally"} => Saved(active, rec)
        BY <3>2 DEF WorkerPublish
      <4> QED
        BY <4>1, <4>2
    <3>3. CASE WorkerExcept
      <4> DEFINE rec == [memory[active] EXCEPT !.state = "FAILED"]
      <4>1. rec \in Record /\ rec.state \notin Pending
        BY <2>1 DEF Record, States, Ended, Pending
      <4>2. /\ Remember(active, rec) /\ (Saved(active, rec) \/ NotSaved(active, rec))
            /\ worker' \in {"loop", "wait", "stopped", "finally"} => Saved(active, rec)
        BY <3>3 DEF WorkerExcept
      <4> QED
        BY <4>1, <4>2
    <3> QED
      BY <1>6, <3>1, <3>2, <3>3
  <2>3. PICK rec \in Record :
           /\ rec.state \notin Pending
           /\ Remember(active, rec) /\ (Saved(active, rec) \/ NotSaved(active, rec))
           /\ worker' \in {"loop", "wait", "stopped", "finally"} => Saved(active, rec)
    BY <2>2
  <2>4. UNCHANGED <<queue, active>>
    BY <1>6 DEF WorkerUpdate, WorkerPublish, WorkerExcept
  <2>5. (Starting' <=> Starting) /\ (Serving' <=> Serving)
    BY <1>3 DEF Starting, Serving
  <2>6. /\ DurablyPending' \subseteq DurablyPending /\ (LooseInv' => BoundInv')
        /\ Saved(active, rec) => active \notin DurablyPending'
    BY <1>3, <2>1, <2>3, <2>4, <2>5, SettlingWrite
  <2>7. LooseInv'
    <3>1. x = active
      BY <1>4, <2>1 DEF Builds, NoBuild
    <3>2. DurablyPending' \subseteq Queued' \cup {x}
      BY <1>4, <2>4, <2>6 DEF Queued
    <3>3. Saved(active, rec) => DurablyPending' \subseteq Queued'
      BY <2>6, <3>1, <3>2
    <3> QED
      BY <2>3, <2>4, <3>1, <3>2, <3>3 DEF LooseInv
  <2> QED
    BY <2>6, <2>7
<1>7. CASE WorkerPop
  <2> DEFINE b == Head(queue)
             rec == Popped(memory[b])
  <2>1. /\ queue \in Seq(Builds) /\ queue # <<>> /\ active' = b /\ worker = "loop"
        /\ queue' = Tail(queue) /\ Remember(b, rec) /\ (Saved(b, rec) \/ NotSaved(b, rec))
        /\ worker' \in {"mkdir", "dead"}
    BY <1>1, <1>7 DEF WorkerPop, TypeOK
  <2>2. /\ Len(queue) \in Nat \ {0} /\ b = queue[1] /\ Len(Tail(queue)) = Len(queue) - 1
        /\ \A i \in 1 .. Len(Tail(queue)) : Tail(queue)[i] = queue[i + 1]
    BY <2>1, HeadTailProperties, EmptySeq
  <2>3. b \in Builds /\ memory[b] \in Record /\ memory[b].state \in Pending /\ b \in Queued
    BY <1>1, <2>2, QueuedIsPending DEF TypeOK, Queued
  <2>4. rec \in Record /\ rec.state = memory[b].state /\ rec.hash = memory[b].hash
    BY <2>3 DEF Popped, Record
  <2> HIDE DEF b, rec
  <2>5. Queued \subseteq Queued' \cup {b}
    <3> SUFFICES ASSUME NEW i \in 1 .. Len(queue), i # 1
                 PROVE  queue[i] \in Queued'
      BY <2>2 DEF Queued
    <3>1. i - 1 \in 1 .. Len(queue') /\ queue'[i - 1] = queue[i]
      BY <2>1, <2>2
    <3> QED
      BY <3>1 DEF Queued
  <2>6. memory'[b] = rec /\ \A c \in Builds : c # b => memory'[c] = memory[c]
    BY <1>1, <2>1, <2>3, Remembered
  <2>7. /\ \A c \in Builds : c # b => durable'[c] = durable[c]
        /\ \/ durable'[b] = durable[b]
           \/ durable'[b].state = rec.state /\ durable'[b].hash = rec.hash
    BY <1>1, <2>1, <2>3, <2>4, WriteDurable
  <2>8. DurablyPending' \subseteq Queued
    <3>1. DurablyPending \subseteq Queued
      BY <1>3, <2>1 DEF BoundInv, LooseInv
    <3> QED
      BY <2>3, <2>7, <3>1 DEF DurablyPending
  <2>9. PendingInv'
    <3>1. \A c \in Builds : \A r \in {memory'[c], durable'[c]} :
             r.state \in Pending => r.hash = NoBuild
      BY <2>3, <2>4, <2>6, <2>7 DEF BoundInv, PendingInv
    <3> QED
      BY <1>3, <3>1 DEF BoundInv, PendingInv, Serving, Starting
  <2>10. LooseInv'
    BY <2>1, <2>3, <2>5, <2>8 DEF LooseInv
  <2>11. Len(queue) <= QueueCapacity + 1 /\ QueueIsBounded'
    BY <1>3, <2>1, <2>2, ConfigAssumption DEF BoundInv, QueueIsBounded
  <2>12. Cardinality(DurablyPending') <= Len(queue)
    BY <1>1, <2>8, WithinQueue DEF TypeOK, QueueIsFIFO, Queued
  <2>13. Cardinality(DurablyPending') \in Nat
    <3>1. DurablyPending' \in SUBSET Builds
      BY DEF DurablyPending
    <3> QED
      BY <3>1, BuildsFinite
  <2> QED
    BY <2>2, <2>9, <2>10, <2>11, <2>12, <2>13, ConfigAssumption DEF BoundInv
<1> QED
  BY <1>5, <1>6, <1>7 DEF Worker

\* What ends the process leaves the records, and is counted unless it began none.
LEMMA ProcessLostBound ==
    ASSUME IndInv, BoundInv, LoseProcess, crashes' \in Nat,
           crashes' = 0 => crashes = 0 /\ (Serving => closed)
    PROVE  BoundInv'
<1>1. DurablyPending' = DurablyPending
  BY DEF LoseProcess, DurablyPending
<1>2. Len(queue') = 0 /\ ~Serving' /\ ~Starting' /\ closed' = FALSE
  BY EmptySeq DEF LoseProcess, Serving, Starting
<1>3. PendingInv'
  <2>1. \A c \in Builds : \A r \in {memory'[c], durable'[c]} :
           r.state \in Pending => r.hash = NoBuild
    BY DEF LoseProcess, NoRecord, BoundInv, PendingInv
  <2> QED
    BY <1>1, <1>2, <2>1 DEF BoundInv, PendingInv
<1>4. QueueIsBounded'
  BY <1>2, ConfigAssumption DEF QueueIsBounded
<1> QED
  BY <1>1, <1>2, <1>3, <1>4 DEF BoundInv, LooseInv

LEMMA BootBound ==
    ASSUME IndInv, HeldInv, BoundInv, Boot
    PROVE  BoundInv'
<1>1. /\ TypeOK /\ QueueIsFIFO /\ ~Serving /\ worker = "none" /\ active = NoBuild
      /\ crashes \in Nat /\ Len(queue) \in Nat
      /\ \A b \in Builds : memory[b] \in Record /\ durable[b] \in Record
  <2>1. ~Serving
    BY DEF Boot, Restart, FailInterrupted, EnqueueNext, RecoverDeleting, RecoverRemove,
       RecoverClean, RecoverClear, RecoverFinish, StartFails, Serve, Serving
  <2>2. TypeOK /\ QueueIsFIFO
    BY DEF IndInv, QueueInv
  <2> QED
    BY <2>1, <2>2, StartingAlone DEF TypeOK
<1>2. ASSUME NEW b \in Builds, NEW rec \in Record, Starting, Starting', rec.state \notin Pending,
             Remember(b, rec), Saved(b, rec), UNCHANGED <<queue, closed, crashes>>
      PROVE  BoundInv'
  <2>1. ~Serving' /\ LooseInv'
    BY <1>2 DEF Starting, Serving, LooseInv
  <2> QED
    BY <1>1, <1>2, <2>1, SettlingWrite
<1>3. CASE Restart
  <2>1. /\ boot'.pc = "loading" /\ UNCHANGED <<durable, queue, closed, crashes>>
        /\ \A b \in Builds : memory'[b] = IF durable[b].state \in Pending
                                THEN [durable[b] EXCEPT !.state = "QUEUED"] ELSE durable[b]
    BY <1>3 DEF Restart, Booting, disk
  <2>2. DurablyPending' = DurablyPending
    BY <2>1 DEF DurablyPending
  <2>3. \A b \in Builds : /\ (memory'[b].state \in Pending) <=> (durable[b].state \in Pending)
                          /\ memory'[b].hash = durable[b].hash
    BY <1>1, <2>1 DEF Record, Pending
  <2>4. PendingInv'
    <3>1. \A b \in Builds : \A r \in {memory'[b], durable'[b]} :
             r.state \in Pending => r.hash = NoBuild
      BY <2>1, <2>3 DEF BoundInv, PendingInv
    <3>2. \A b \in Builds : (memory'[b].state \in Pending) <=> b \in DurablyPending
      BY <2>3 DEF DurablyPending
    <3>3. crashes = 0 => ~closed /\ DurablyPending = {}
      BY <1>1 DEF BoundInv, PendingInv
    <3> QED
      BY <2>1, <2>2, <3>1, <3>2, <3>3 DEF PendingInv
  <2>5. LooseInv'
    BY <2>1 DEF LooseInv, Serving
  <2> QED
    BY <1>1, <2>1, <2>2, <2>4, <2>5, FewerPending
<1>4. ASSUME NEW b \in Builds, FailInterrupted(b)
      PROVE  BoundInv'
  <2> DEFINE rec == [memory[b] EXCEPT !.state = "FAILED"]
  <2>1. rec \in Record /\ rec.state \notin Pending
    BY <1>1 DEF Record, States, Ended, Pending
  <2>2. /\ Remember(b, rec) /\ Saved(b, rec) /\ Starting /\ Starting'
        /\ UNCHANGED <<queue, closed, crashes>>
    BY <1>4 DEF FailInterrupted, Starting
  <2> HIDE DEF rec
  <2> QED
    BY <1>2, <2>1, <2>2
<1>5. CASE RecoverClear \/ RecoverFinish
  <2> DEFINE b == boot.build
  <2>1. b \in Builds /\ memory[b] \in Record /\ memory[b].state = "DELETING"
    BY <1>1, <1>5 DEF IndInv, BootInv, TypeOK, RecoverClear, RecoverFinish
  <2>2. /\ Starting /\ Starting' /\ UNCHANGED <<queue, closed, crashes>>
        /\ \E rec \in {[memory[b] EXCEPT !.raw = FALSE], [memory[b] EXCEPT !.state = "DELETED"]} :
              Remember(b, rec) /\ Saved(b, rec)
    BY <1>5 DEF RecoverClear, RecoverFinish, BootAt, Starting
  <2>3. /\ [memory[b] EXCEPT !.raw = FALSE] \in Record
        /\ [memory[b] EXCEPT !.raw = FALSE].state \notin Pending
        /\ [memory[b] EXCEPT !.state = "DELETED"] \in Record
        /\ [memory[b] EXCEPT !.state = "DELETED"].state \notin Pending
    BY <2>1 DEF Record, States, Ended, Pending
  <2> HIDE DEF b
  <2> QED
    BY <1>2, <2>1, <2>2, <2>3
<1>6. ASSUME NEW b \in Builds, EnqueueNext(b)
      PROVE  BoundInv'
  <2>1. /\ b \in Builds /\ memory[b] \in Record /\ memory[b].state = "QUEUED"
        /\ Saved(b, memory[b]) /\ queue' = Append(queue, b) /\ boot.pc = "loading"
        /\ UNCHANGED <<memory, boot, closed, crashes>>
    BY <1>1, <1>6 DEF EnqueueNext, Unqueued, TypeOK
  <2>2. b \in DurablyPending
    BY <2>1 DEF BoundInv, PendingInv, Starting, Pending
  <2>3. /\ \A c \in Builds : c # b => durable'[c] = durable[c]
        /\ durable'[b].state = "QUEUED"
        /\ \/ durable'[b] = durable[b]
           \/ durable'[b].hash = memory[b].hash
    BY <1>1, <2>1, WriteDurable
  <2>4. DurablyPending' = DurablyPending
    BY <2>2, <2>3 DEF DurablyPending, Pending
  <2>5. PendingInv'
    <3>1. \A c \in Builds : \A r \in {memory'[c], durable'[c]} :
             r.state \in Pending => r.hash = NoBuild
      BY <2>1, <2>3 DEF BoundInv, PendingInv, Pending
    <3> QED
      BY <2>1, <2>4, <3>1 DEF BoundInv, PendingInv, Serving, Starting
  <2>6. LooseInv'
    BY <2>1 DEF LooseInv, Serving
  <2>7. IndInv'
    BY <1>6, EnqueueNextPreserves
  <2>8. TypeOK' /\ QueueIsFIFO' /\ Len(queue') \in Nat
    BY <2>7 DEF IndInv, QueueInv, TypeOK
  <2>9. Queued' \subseteq DurablyPending'
    <3> SUFFICES ASSUME NEW i \in 1 .. Len(queue')
                 PROVE  queue'[i] \in DurablyPending'
      BY DEF Queued
    <3>1. queue'[i] \in Builds /\ memory'[queue'[i]].state \in Pending
      BY <2>8 DEF TypeOK, QueueIsFIFO
    <3> QED
      BY <2>1, <2>5, <3>1 DEF PendingInv, Starting
  <2>10. Len(queue') <= Cardinality(DurablyPending')
    <3>1. Cardinality(Queued') = Len(queue')
      BY <2>8, SortedSize DEF TypeOK, QueueIsFIFO, Queued
    <3>2. Cardinality(Queued') <= Cardinality(DurablyPending')
      <4>1. DurablyPending' \in SUBSET Builds
        BY DEF DurablyPending
      <4> QED
        BY <2>9, <4>1, BuildsFinite
    <3> QED
      BY <3>1, <3>2
  <2>11. Cardinality(DurablyPending') <= QueueCapacity + 1 /\ Cardinality(DurablyPending') \in Nat
    <3>1. DurablyPending \in SUBSET Builds
      BY DEF DurablyPending
    <3> QED
      BY <2>4, <3>1, BuildsFinite DEF BoundInv
  <2>12. crashes' # 0
    BY <1>1, <2>1, <2>2 DEF BoundInv, PendingInv
  <2>13. QueueIsBounded'
    BY <2>8, <2>10, <2>11, <2>12, ConfigAssumption DEF QueueIsBounded
  <2> QED
    BY <2>5, <2>6, <2>11, <2>13 DEF BoundInv
<1>7. CASE (\E b \in Builds : RecoverDeleting(b)) \/ RecoverRemove \/ RecoverClean
  <2>1. /\ UNCHANGED <<memory, durable, queue, closed, crashes>> /\ Starting /\ Starting'
        /\ ~Serving'
    BY <1>7 DEF RecoverDeleting, RecoverRemove, RecoverClean, Booting, BootAt, Starting, Serving
  <2> QED
    BY <1>1, <2>1, RecordsKept DEF LooseInv
<1>8. CASE Serve
  <2>1. /\ boot.pc = "loading" /\ boot'.pc = "serving" /\ Unqueued = {} /\ crashes' = crashes
        /\ UNCHANGED <<memory, durable, queue, active, closed>>
    BY <1>8 DEF Serve, BootAt, disk
  <2>2. DurablyPending' = DurablyPending /\ Queued' = Queued
    BY <2>1 DEF DurablyPending, Queued
  <2>3. DurablyPending \subseteq Queued
    <3>1. \A b \in DurablyPending : b \in Builds /\ memory[b].state = "QUEUED"
      BY <2>1 DEF HeldInv, BoundInv, PendingInv, Starting, DurablyPending
    <3> QED
      BY <2>1, <3>1 DEF Unqueued
  <2>4. PendingInv' /\ LooseInv'
    BY <1>1, <2>1, <2>2, <2>3 DEF BoundInv, PendingInv, LooseInv, Serving, Starting, NoBuild
  <2> QED
    BY <1>1, <2>1, <2>2, <2>4, FewerPending
<1>9. CASE StartFails
  BY <1>1, <1>9, ProcessLostBound DEF StartFails
<1> QED
  BY <1>3, <1>4, <1>5, <1>6, <1>7, <1>8, <1>9 DEF Boot

LEMMA NextBound ==
    ASSUME IndInv, HeldInv, BoundInv, [Next]_vars
    PROVE  BoundInv'
<1>1. TypeOK /\ crashes \in Nat
  BY DEF IndInv, TypeOK
<1>2. CASE Close
  <2>1. /\ UNCHANGED <<memory, durable, queue, active, boot>> /\ crashes' = crashes + 1
        /\ worker' = Notified
    BY <1>2 DEF Close, disk
  <2>2. LooseInv'
    BY <2>1, LooseKept DEF DurablyPending
  <2> QED
    BY <1>1, <2>1, <2>2, RecordsKept DEF Starting, Serving
<1>3. CASE UNCHANGED vars
  <2>1. LooseInv'
    BY <1>3, LooseKept DEF DurablyPending, vars
  <2> QED
    BY <1>1, <1>3, <2>1, RecordsKept DEF Starting, Serving, vars
<1>4. CASE Exit \/ Crash
  BY <1>1, <1>4, ProcessLostBound DEF Exit, Crash
<1> QED
  BY <1>2, <1>3, <1>4, CallBound, HandlerBound, WorkerBound, BootBound DEF Next

-----------------------------------------------------------------------------
(* The theorems                                                            *)

LEMMA InitEstablishes == Init => IndInv
<1> SUFFICES ASSUME Init PROVE IndInv
  OBVIOUS
<1>1. NoRecord \in Record /\ NoRecord.state = "ABSENT"
  BY DEF NoRecord, Record
<1>2. Idle \in HandlerStates /\ Idle.pc = "idle"
  BY DEF Idle, HandlerStates, HandlerPcs
<1>3. boot \in BootRecord /\ boot.pc = "down"
  BY DEF Init, BootRecord, BootPcs
<1>4. TypeOK
  <2>1. /\ memory \in [Builds -> Record] /\ durable \in [Builds -> Record]
        /\ handler \in [Handlers -> HandlerStates]
    BY <1>1, <1>2 DEF Init
  <2>2. /\ idempotency \in [Keys -> Builds \cup {NoBuild}] /\ queue \in Seq(Builds)
        /\ tree \in [Builds -> Trees] /\ workspace \in [Builds -> BOOLEAN]
    BY EmptySeq DEF Init, Trees
  <2>3. /\ closed \in BOOLEAN /\ worker \in WorkerPcs /\ active \in Builds \cup {NoBuild}
        /\ answered \subseteq Answers
    BY DEF Init, WorkerPcs
  <2>4. submitted \in 0 .. MaxBuilds /\ crashes \in 0 .. MaxCrashes /\ faults \in 0 .. MaxFaults
    BY BoundsAssumption DEF Init
  <2> QED
    BY <1>3, <2>1, <2>2, <2>3, <2>4 DEF TypeOK, BootRecord
<1>5. WorkerInv /\ HandlerInv
  BY <1>2 DEF Init, WorkerInv, HandlerInv, HandlerOK
<1>6. PresenceInv /\ VisibleIsComplete
  BY <1>1 DEF Init, PresenceInv, VisibleIsComplete, NoBuild, Visible
<1>7. BootInv /\ QueueInv
  BY <1>3 DEF Init, BootInv, Serving, QueueInv, QueueIsFIFO
<1> QED
  BY <1>4, <1>5, <1>6, <1>7 DEF IndInv

LEMMA CallPreserves ==
    ASSUME IndInv, Call
    PROVE  IndInv'
<1>1. ASSUME NEW k \in Keys, NEW r \in Requests, Submit(k, r)
      PROVE  IndInv'
  <2>1. CASE SubmitReplay(k, r)
    <3>1. idempotency[k] \in Builds
      BY <2>1 DEF SubmitReplay, IndInv, TypeOK
    <3>2. SubmitAnswer(idempotency[k], k, r) \in Answers
      BY <3>1 DEF SubmitAnswer, Answers
    <3> QED
      BY <2>1, <3>2, AnswerPreserves DEF SubmitReplay
  <2> QED
    BY <1>1, <2>1, SubmitNewPreserves DEF Submit
<1>2. ASSUME NEW b \in Builds, NEW hash \in Builds, NEW reg \in RegIds,
             AcknowledgeReplay(b, hash, reg)
      PROVE  IndInv'
  <2>1. AckAnswer(b, hash, reg) \in Answers
    BY DEF AckAnswer, Answers
  <2> QED
    BY <1>2, <2>1, AnswerPreserves DEF AcknowledgeReplay
<1>3. ASSUME NEW b \in Builds, DeprecateReplay(b)
      PROVE  IndInv'
  <2>1. [op |-> "deprecate", build |-> b] \in Answers
    BY DEF Answers
  <2> QED
    BY <1>3, <2>1, AnswerPreserves DEF DeprecateReplay
<1>4. ASSUME NEW b \in Builds, NEW cmd \in Commands, PurgeReplay(b, cmd)
      PROVE  IndInv'
  <2>1. [op |-> "purge", build |-> b, cmd |-> cmd] \in Answers
    BY DEF Answers
  <2> QED
    BY <1>4, <2>1, AnswerPreserves DEF PurgeReplay
<1> QED
  BY <1>1, <1>2, <1>3, <1>4, AcknowledgePreserves, DeprecatePreserves, PurgeStartPreserves
  DEF Call, Rebuild

LEMMA NextPreserves ==
    ASSUME IndInv, [Next]_vars
    PROVE  IndInv'
<1>1. CASE Call
  BY <1>1, CallPreserves
<1>2. ASSUME NEW h \in Handlers, HandlerStep(h)
      PROVE  IndInv'
  BY <1>2, PurgeStorePreserves, PurgeRemovePreserves, CleanCheckPreserves,
     RemoveWorkspacePreserves, ClearRawPreserves, PurgeFinishPreserves DEF HandlerStep
<1>3. CASE Worker
  BY <1>3, WorkerIdlePreserves, WorkerPopPreserves, WorkerMkdirPreserves,
     WorkerUpdatePreserves, WorkerStagePreserves, WorkerStageRaisesPreserves,
     WorkerPublishPreserves, WorkerExceptPreserves, WorkerFinallyPreserves DEF Worker
<1>4. TypeOK
  BY DEF IndInv
<1>5. CASE StartFails
  <2>1. LoseProcess /\ UNCHANGED <<workspace, crashes>> /\ (Fault \/ UNCHANGED faults)
    BY <1>5 DEF StartFails
  <2>2. faults' \in 0 .. MaxFaults
    BY <1>4, <2>1, BoundsAssumption DEF Fault, TypeOK
  <2> QED
    BY <1>4, <2>1, <2>2, LoseProcessPreserves DEF TypeOK
<1>6. CASE Boot
  BY <1>5, <1>6, RestartPreserves, FailInterruptedPreserves, EnqueueNextPreserves,
     RecoverDeletingPreserves, RecoverRemovePreserves, RecoverCleanPreserves,
     RecoverClearPreserves, RecoverFinishPreserves, ServePreserves DEF Boot
<1>7. CASE Exit
  BY <1>4, <1>7, LoseProcessPreserves DEF Exit, TypeOK
<1>8. CASE Crash
  <2>1. workspace' \in [Builds -> BOOLEAN]
    BY <1>4, <1>8, Zenon DEF Crash, TypeOK
  <2>2. crashes' \in 0 .. MaxCrashes /\ faults' \in 0 .. MaxFaults /\ LoseProcess
    BY <1>4, <1>8, BoundsAssumption DEF Crash, TypeOK
  <2> QED
    BY <2>1, <2>2, LoseProcessPreserves
<1>9. CASE UNCHANGED vars
  BY <1>9 DEF vars, IndInv, TypeOK, WorkerInv, HandlerInv, HandlerOK, PresenceInv, BootInv,
     Serving, QueueInv, QueueIsFIFO, Queued, Unqueued, VisibleIsComplete
<1> QED
  BY <1>1, <1>2, <1>3, <1>6, <1>7, <1>8, <1>9, ClosePreserves DEF Next

\* The inductive invariant: whatever callers, threads, failing writes and
\* crashes do, it holds in every reachable state.
THEOREM Invariance == Spec => []IndInv
<1>1. Init => IndInv
  BY InitEstablishes
<1>2. IndInv /\ [Next]_vars => IndInv'
  BY NextPreserves
<1> QED
  BY <1>1, <1>2, PTL DEF Spec

\* Every variable keeps its type.
THEOREM TypeCorrect == Spec => []TypeOK
<1>1. IndInv => TypeOK
  BY DEF IndInv
<1> QED
  BY <1>1, Invariance, PTL

\* Whatever a purge, a recovery, a crash or a failing write does, a build in a
\* state that readers are admitted to has its whole tree and the hash of it.
THEOREM VisibleBuildsAreComplete == Spec => []VisibleIsComplete
<1>1. IndInv => VisibleIsComplete
  BY DEF IndInv
<1> QED
  BY <1>1, Invariance, PTL

\* Builds run in the order of their submission, across any number of restarts.
THEOREM BuildsRunInOrder == Spec => []QueueIsFIFO
<1>1. IndInv => QueueIsFIFO
  BY DEF IndInv, QueueInv
<1> QED
  BY <1>1, Invariance, PTL

\* No pending or running build is forgotten, whatever writes fail and however
\* often the process stops: a serving process has it queued or with its worker.
THEOREM NothingIsStranded == Spec => []NothingStranded
<1>1. Init => HeldInv
  BY DEF Init, HeldInv, NothingStranded, Serving, Starting
<1>2. IndInv /\ HeldInv /\ [Next]_vars => HeldInv'
  BY NextHolds
<1>3. HeldInv => NothingStranded
  BY DEF HeldInv
<1> QED
  BY <1>1, <1>2, <1>3, Invariance, PTL DEF Spec

\* However often the process stops, the queue it restores is at most one build
\* longer than its capacity, and no longer than that before it first stops.
THEOREM QueueAlwaysBounded == Spec => []QueueIsBounded
<1>1. Init => HeldInv /\ BoundInv
  <2> SUFFICES ASSUME Init PROVE HeldInv /\ BoundInv
    OBVIOUS
  <2>1. DurablyPending = {} /\ Len(queue) = 0 /\ ~Serving /\ ~Starting
    BY EmptySeq DEF Init, DurablyPending, NoRecord, Pending, Serving, Starting
  <2>2. HeldInv
    BY <2>1 DEF Init, HeldInv, NothingStranded
  <2>3. PendingInv /\ LooseInv
    BY <2>1 DEF Init, PendingInv, LooseInv, NoRecord, Pending
  <2>4. Cardinality(DurablyPending) = 0
    BY <2>1, FS_EmptySet
  <2> QED
    BY <2>1, <2>2, <2>3, <2>4, ConfigAssumption DEF BoundInv, QueueIsBounded
<1>2. IndInv /\ HeldInv /\ BoundInv /\ [Next]_vars => HeldInv' /\ BoundInv'
  BY NextHolds, NextBound
<1>3. BoundInv => QueueIsBounded
  BY DEF BoundInv
<1> QED
  BY <1>1, <1>2, <1>3, Invariance, PTL DEF Spec
-----------------------------------------------------------------------------
(* What is durable of a build: its identity is never replaced, answers     *)
(* stay true of it, its files go before it is reported deleted, and, while *)
(* no write fails, its record only moves along the promised lifecycle.     *)
(*                                                                         *)
(* The argument: every locked region that writes a record starts from the  *)
(* record in memory, which carries what the durable one says; so do the    *)
(* records that a start loads.  While no write has failed the two agree    *)
(* but for a pending build that the start is about to queue again, and     *)
(* each handler, the worker and the recovery rewrite a record only in the  *)
(* state in which they took it in hand.                                    *)

\* A newer record of a build keeps the identity that an older one has.
Carries(new, old) ==
    /\ old.state # "ABSENT" => /\ new.state # "ABSENT"
                               /\ new.key = old.key /\ new.request = old.request
    /\ old.hash # NoBuild => new.hash = old.hash
    /\ old.reg # None => new.reg = old.reg
    /\ old.cmd # None => new.cmd = old.cmd

\* A record of build b: one that was submitted has its key, a known hash is
\* that of b's manifest, and no build is registered before it is published.
Sound(b, rec) ==
    /\ rec.state = "ABSENT" => rec = NoRecord
    /\ rec.state # "ABSENT" => rec.key # None
    /\ rec.hash \in {NoBuild, b}
    /\ rec.reg # None => rec.state \notin InProgress \cup {"REGISTERING"}

\* Memory carries what is durable, and a build in progress there has not
\* durably ended.
RecordInv ==
    /\ \A b \in Builds : Sound(b, memory[b]) /\ Sound(b, durable[b])
    /\ Remote => \A b \in Builds : ~durable[b].raw
    /\ active \in Builds => memory[active].state # "ABSENT"
    /\ boot.pc # "down" => \A b \in Builds :
          /\ Carries(memory[b], durable[b])
          /\ memory[b].state \in InProgress => durable[b].state \in InProgress \cup {"ABSENT"}

\* The key map and the keys of the records are inverse to each other.
KeyInv ==
    /\ \A k \in Keys : idempotency[k] # NoBuild => memory[idempotency[k]].key = k
    /\ \A b \in Builds : memory[b].key # None => idempotency[memory[b].key] = b
    /\ \A b, c \in Builds : durable[b].key # None /\ durable[b].key = durable[c].key => b = c

\* While no write has failed memory is what is durable, but for a pending
\* build that the start has still to queue.
SyncInv ==
    faults = 0 =>
        /\ Serving => \A b \in Builds : durable[b] = Serialize(memory[b])
        /\ Starting => \A b \in Builds :
              \/ durable[b] = Serialize(memory[b])
              \/ /\ b \in Unqueued /\ durable[b].state \in Pending
                 /\ memory[b] = [durable[b] EXCEPT !.state = "QUEUED"]

Acknowledged == {"READY", "DEPRECATED", "DELETING", "DELETED"}
Purging(h) == handler[h].pc # "idle" /\ handler[h].op = "purge"

\* While no write has failed a build is rewritten only in the state in which
\* worker or handler took it in hand, and purged by one handler at a time.
ActorsInv ==
    faults = 0 =>
        /\ worker = "except" => memory[active].state \in InProgress
        /\ \A h \in Handlers : handler[h].pc # "idle" /\ handler[h].op = "ack"
                                   => memory[handler[h].build].state \in Acknowledged
        /\ \A h \in Handlers : Purging(h) =>
              /\ memory[handler[h].build].state = "DELETING"
              /\ \A g \in Handlers : Purging(g) /\ g # h => handler[g].build # handler[h].build

\* The tree of a build, once its removal went through, can no longer be opened.
Gone == IF Remote THEN {"absent"} ELSE {"absent", "headless"}
Removed(b) == memory[b].hash # NoBuild => tree[b] \in Gone

\* Handlers and recovery go on to the raw workspace only when the tree is gone.
GoneInv ==
    /\ \A h \in Handlers :
         /\ handler[h].op = "purge" /\ handler[h].pc \in {"clean", "rmtree", "clear", "finish"}
              => Removed(handler[h].build)
         /\ handler[h].pc \in {"store", "remove"} => memory[handler[h].build].hash # NoBuild
    /\ boot.pc \in {"cleaning", "clearing", "finishing"} => Removed(boot.build)
    /\ boot.pc = "removing" => memory[boot.build].hash # NoBuild
    /\ \A b \in Builds : \A rec \in {memory[b], durable[b]} : rec.state = "DELETED" =>
         /\ rec.hash # NoBuild => tree[b] \in Gone
         /\ ~Remote => ~workspace[b]

\* A local workspace is named by its build's record in memory and on disk.
OwnedInv ==
    ~Remote =>
        /\ \A b \in Builds : workspace[b] => durable[b].raw /\ (boot.pc # "down" => memory[b].raw)
        /\ worker = "mkdir" => durable[active].raw /\ memory[active].raw
        /\ \A h \in Handlers :
             handler[h].pc \in {"clear", "finish"} => ~workspace[handler[h].build]
        /\ boot.pc \in {"clearing", "finishing"} => ~workspace[boot.build]

\* The inductive invariant.
DurableInv ==
    /\ IndInv /\ HeldInv
    /\ RecordInv /\ KeyInv /\ SyncInv /\ ActorsInv /\ GoneInv /\ OwnedInv
-----------------------------------------------------------------------------
(* Records                                                                 *)

\* Serializing a record changes nothing but the path of the raw workspace.
LEMMA SerializeKeeps ==
    ASSUME NEW rec \in Record
    PROVE  /\ Serialize(rec) \in Record
           /\ Serialize(rec).state = rec.state /\ Serialize(rec).key = rec.key
           /\ Serialize(rec).request = rec.request /\ Serialize(rec).hash = rec.hash
           /\ Serialize(rec).reg = rec.reg /\ Serialize(rec).cmd = rec.cmd
           /\ Serialize(rec).raw => rec.raw /\ ~Remote
           /\ ~Remote => Serialize(rec) = rec
<1>2. Serialize(rec) \in Record
  BY DEF Serialize, Record
<1>3. ~Remote => Serialize(rec) = rec
  <2> SUFFICES ASSUME ~Remote PROVE Serialize(rec) = rec
    OBVIOUS
  <2>1. rec.raw \in BOOLEAN
    BY DEF Record
  <2>2. (rec.raw /\ ~Remote) = rec.raw
    BY <2>1
  <2>3. [rec EXCEPT !.raw = rec.raw] = rec
    BY DEF Record
  <2> QED
    BY <2>2, <2>3 DEF Serialize
<1> QED
  BY <1>2, <1>3 DEF Serialize, Record

LEMMA CarriesTransitive ==
    ASSUME NEW x, NEW y, NEW z, Carries(x, y), Carries(y, z)
    PROVE  Carries(x, z)
BY DEF Carries

LEMMA CarriesSerialized ==
    ASSUME NEW rec \in Record
    PROVE  /\ \A old : Carries(rec, old) => Carries(Serialize(rec), old)
           /\ Carries(rec, Serialize(rec)) /\ Carries(rec, rec)
           /\ \A b : Sound(b, rec) => Sound(b, Serialize(rec))
<1>2. /\ Serialize(rec).state = rec.state /\ Serialize(rec).key = rec.key
      /\ Serialize(rec).request = rec.request /\ Serialize(rec).hash = rec.hash
      /\ Serialize(rec).reg = rec.reg /\ Serialize(rec).cmd = rec.cmd
  BY SerializeKeeps
<1>3. \A old : Carries(rec, old) => Carries(Serialize(rec), old)
  BY <1>2 DEF Carries
<1>4. Carries(rec, Serialize(rec)) /\ Carries(rec, rec)
  BY <1>2 DEF Carries
<1>5. \A b : Sound(b, rec) => Sound(b, Serialize(rec))
  <2> SUFFICES ASSUME NEW b, Sound(b, rec) PROVE Sound(b, Serialize(rec))
    OBVIOUS
  <2>1. ASSUME rec = NoRecord
        PROVE  Serialize(rec) = NoRecord
    <3>1. Serialize(rec) \in Record /\ ~Serialize(rec).raw
      BY <2>1, SerializeKeeps DEF NoRecord
    <3> QED
      BY <1>2, <2>1, <3>1 DEF Record, NoRecord
  <2> QED
    BY <1>2, <2>1 DEF Sound
<1> QED
  BY <1>3, <1>4, <1>5

\* What a region that writes a record leaves in memory and in the store.
LEMMA Stored ==
    ASSUME TypeOK, NEW b \in Builds, NEW rec \in Record, Remember(b, rec),
           Saved(b, rec) \/ NotSaved(b, rec)
    PROVE  /\ memory'[b] = rec /\ memory' \in [Builds -> Record]
           /\ \A c \in Builds : c # b => memory'[c] = memory[c] /\ durable'[c] = durable[c]
           /\ durable' \in [Builds -> Record]
           /\ durable'[b] \in {durable[b], Serialize(rec)}
           /\ faults' = 0 => durable'[b] = Serialize(rec) /\ faults = 0
<1>1. Serialize(rec) \in Record /\ faults \in Nat
  BY SerializeKeeps, BoundsAssumption DEF TypeOK
<1>2. Saved(b, rec) => durable'[b] = Serialize(rec) /\ faults' = faults
  BY <1>1 DEF TypeOK, Saved
<1>3. NotSaved(b, rec) => faults' # 0
  BY <1>1 DEF NotSaved, Fault
<1>4. durable'[b] \in {durable[b], Serialize(rec)}
  BY <1>1 DEF TypeOK, Saved, NotSaved
<1>5. durable' \in [Builds -> Record] /\ \A c \in Builds : c # b => durable'[c] = durable[c]
  BY <1>1 DEF TypeOK, Saved, NotSaved
<1>6. memory' \in [Builds -> Record]
  BY DEF TypeOK, Remember
<1> QED
  BY <1>2, <1>3, <1>4, <1>5, <1>6, Remembered
-----------------------------------------------------------------------------
(* The locked regions that write a record                                  *)

\* What they have in common.  The record written carries the one in memory; it
\* moves along the lifecycle while no write has failed; it announces a tree
\* only when it publishes it, is DELETED only when the files are gone, and
\* forgets a workspace only when that is gone.
Region(b, rec) ==
    /\ Remember(b, rec) /\ (Saved(b, rec) \/ NotSaved(b, rec))
    /\ UNCHANGED <<tree, workspace>>
    /\ \/ Serving /\ boot' = boot
       \/ /\ Starting /\ Starting' /\ Saved(b, rec) /\ queue' = queue
          /\ memory[b].state \in Active \cup {"DELETING"} /\ rec.state \in Ended
    /\ Carries(rec, memory[b]) /\ Sound(b, rec) /\ rec.state # "ABSENT"
    /\ rec.state \in InProgress => memory[b].state \in InProgress \cup {"ABSENT"}
    /\ active' \in {active, b}
    /\ \/ memory[b].state # "ABSENT" /\ idempotency' = idempotency
       \/ /\ memory[b] = NoRecord /\ rec.key \in Keys /\ idempotency[rec.key] = NoBuild
          /\ idempotency' = [idempotency EXCEPT ![rec.key] = b]
    /\ faults = 0 => rec.state = memory[b].state \/ rec.state \in Successors[memory[b].state]
    /\ \/ rec.hash = memory[b].hash
       \/ memory[b].state = "VERIFYING" /\ rec.state = "REGISTERING"
    /\ rec.state = "DELETED" => /\ rec.hash # NoBuild => tree[b] \in Gone
                                /\ ~Remote => ~workspace[b]
    /\ ~Remote /\ workspace[b] => rec.raw

\* A record in memory is one of its build.
LEMMA InMemory ==
    ASSUME DurableInv, NEW b \in Builds
    PROVE  /\ memory[b] \in Record /\ durable[b] \in Record
           /\ Sound(b, memory[b]) /\ Sound(b, durable[b])
BY DEF DurableInv, IndInv, TypeOK, RecordInv

\* What handlers work on is not in progress any more.
LEMMA HandledHasEnded ==
    ASSUME DurableInv, NEW h \in Handlers, handler[h].pc # "idle"
    PROVE  /\ handler[h].build \in Builds
           /\ memory[handler[h].build].state \notin InProgress \cup {"ABSENT"}
<1> DEFINE b == handler[h].build
<1>1. b \in Builds /\ HandlerOK(h) /\ handler[h].op \in {"ack", "purge"}
  BY ActingHandler DEF DurableInv
<1>2. memory[b] \in Record /\ Sound(b, memory[b])
  BY <1>1, InMemory
<1>3. CASE handler[h].op = "ack"
  BY <1>1, <1>2, <1>3 DEF HandlerOK, Sound, NoRecord
<1>4. CASE handler[h].op = "purge"
  BY <1>1, <1>2, <1>4 DEF HandlerOK, Ended, InProgress, Pending, Active
<1> QED
  BY <1>1, <1>3, <1>4

LEMMA SubmitRegion ==
    ASSUME DurableInv, NEW k \in Keys, NEW r \in Requests, SubmitNew(k, r)
    PROVE  \E b \in Builds, rec \in Record :
              Region(b, rec) /\ memory[b].state = "ABSENT" /\ rec.state \in Pending
<1> DEFINE b == submitted + 1
           waiting == active # NoBuild \/ queue # <<>>
           rec == [NoRecord EXCEPT !.state = IF waiting THEN "QUEUED" ELSE "CREATED",
                                   !.key = k, !.request = r]
<1>1. b \in Builds /\ submitted \in Nat
  BY BoundsAssumption DEF DurableInv, IndInv, TypeOK, SubmitNew, Builds
<1>2. /\ rec \in Record /\ rec.state \in Pending /\ rec.key = k /\ rec.hash = NoBuild
      /\ rec.reg = None
  BY DEF Record, NoRecord, States, Pending, NoBuild
<1>3. memory[b].state = "ABSENT"
  BY <1>1 DEF DurableInv, IndInv, PresenceInv
<1>4. memory[b] = NoRecord
  BY <1>1, <1>3, InMemory DEF Sound
<1>5. /\ Remember(b, rec) /\ (Saved(b, rec) \/ NotSaved(b, rec))
      /\ idempotency' = [idempotency EXCEPT ![k] = b] /\ idempotency[k] = NoBuild
      /\ UNCHANGED <<tree, workspace, boot, active>> /\ Serving
  BY DEF SubmitNew
<1>6. ~Remote => ~workspace[b]
  <2>1. ~NoRecord.raw
    BY DEF NoRecord
  <2> QED
    BY <1>1, <1>4, <1>5, <2>1 DEF DurableInv, OwnedInv, Serving
<1>7. k # None
  BY NoneAssumption
<1> HIDE DEF rec, b
<1>8. Carries(rec, memory[b]) /\ Sound(b, rec)
  BY <1>1, <1>2, <1>4, <1>7 DEF Carries, Sound, NoRecord, Pending
<1>9. rec.hash = memory[b].hash
  BY <1>2, <1>4 DEF NoRecord
<1>10. rec.state \in Successors[memory[b].state]
  BY <1>2, <1>3 DEF Successors
<1>11. Region(b, rec)
  BY <1>2, <1>3, <1>4, <1>5, <1>6, <1>8, <1>9, <1>10 DEF Region, Pending
<1> QED
  BY <1>1, <1>2, <1>3, <1>11

LEMMA AcknowledgeRegion ==
    ASSUME DurableInv, NEW h \in Handlers, NEW b \in Builds, NEW hash \in Builds,
           NEW reg \in RegIds, Acknowledge(h, b, hash, reg)
    PROVE  \E rec \in Record :
              Region(b, rec) /\ memory[b].state = "REGISTERING" /\ rec.state = "READY"
<1> DEFINE rec == [memory[b] EXCEPT !.state = "READY", !.reg = reg]
<1>1. memory[b] \in Record /\ Sound(b, memory[b]) /\ memory[b].state = "REGISTERING"
  BY InMemory DEF Acknowledge
<1>2. /\ rec \in Record /\ rec.state = "READY" /\ rec.reg = reg /\ rec.key = memory[b].key
      /\ rec.request = memory[b].request /\ rec.hash = memory[b].hash
      /\ rec.cmd = memory[b].cmd /\ rec.raw = memory[b].raw
  BY <1>1 DEF Record, States, Visible
<1>3. /\ Remember(b, rec) /\ (Saved(b, rec) \/ NotSaved(b, rec)) /\ Serving
      /\ UNCHANGED <<tree, workspace, boot, active, idempotency>>
  BY DEF Acknowledge
<1>4. ~Remote /\ workspace[b] => memory[b].raw
  BY <1>3 DEF DurableInv, OwnedInv, Serving
<1> HIDE DEF rec
<1>5. Carries(rec, memory[b])
  BY <1>1, <1>2 DEF Carries, Sound
<1>6. Sound(b, rec)
  BY <1>1, <1>2 DEF Sound, InProgress, Pending, Active
<1>7. rec.state \in Successors[memory[b].state]
  BY <1>1, <1>2 DEF Successors
<1>8. Region(b, rec)
  BY <1>1, <1>2, <1>3, <1>4, <1>5, <1>6, <1>7 DEF Region, InProgress, Pending, Active
<1> QED
  BY <1>1, <1>2, <1>8

LEMMA DeprecateRegion ==
    ASSUME DurableInv, NEW b \in Builds, Deprecate(b)
    PROVE  \E rec \in Record :
              Region(b, rec) /\ memory[b].state = "READY" /\ rec.state = "DEPRECATED"
<1> DEFINE rec == [memory[b] EXCEPT !.state = "DEPRECATED"]
<1>1. memory[b] \in Record /\ Sound(b, memory[b]) /\ memory[b].state = "READY"
  BY InMemory DEF Deprecate
<1>2. /\ rec \in Record /\ rec.state = "DEPRECATED" /\ rec.reg = memory[b].reg
      /\ rec.key = memory[b].key /\ rec.request = memory[b].request
      /\ rec.hash = memory[b].hash /\ rec.cmd = memory[b].cmd /\ rec.raw = memory[b].raw
  BY <1>1 DEF Record, States, Visible
<1>3. /\ Remember(b, rec) /\ (Saved(b, rec) \/ NotSaved(b, rec)) /\ Serving
      /\ UNCHANGED <<tree, workspace, boot, active, idempotency>>
  BY DEF Deprecate
<1>4. ~Remote /\ workspace[b] => memory[b].raw
  BY <1>3 DEF DurableInv, OwnedInv, Serving
<1> HIDE DEF rec
<1>5. Carries(rec, memory[b]) /\ Sound(b, rec)
  BY <1>1, <1>2 DEF Carries, Sound, InProgress, Pending, Active
<1>6. rec.state \in Successors[memory[b].state]
  BY <1>1, <1>2 DEF Successors
<1>7. Region(b, rec)
  BY <1>1, <1>2, <1>3, <1>4, <1>5, <1>6 DEF Region, InProgress, Pending, Active
<1> QED
  BY <1>1, <1>2, <1>7

LEMMA PurgeStartRegion ==
    ASSUME DurableInv, NEW h \in Handlers, NEW b \in Builds, NEW cmd \in Commands,
           PurgeStart(h, b, cmd)
    PROVE  \E rec \in Record : /\ Region(b, rec) /\ rec.state = "DELETING"
                               /\ memory[b].state \in {"DEPRECATED", "FAILED"}
                               /\ rec.hash = memory[b].hash
<1> DEFINE rec == [memory[b] EXCEPT !.state = "DELETING", !.cmd = cmd]
<1>1. /\ memory[b] \in Record /\ Sound(b, memory[b]) /\ memory[b].cmd \in {None, cmd}
      /\ memory[b].state \in {"DEPRECATED", "FAILED"}
  BY InMemory DEF PurgeStart, MayPurge
<1>2. /\ rec \in Record /\ rec.state = "DELETING" /\ rec.reg = memory[b].reg
      /\ rec.key = memory[b].key /\ rec.request = memory[b].request
      /\ rec.hash = memory[b].hash /\ rec.cmd = cmd /\ rec.raw = memory[b].raw
  BY <1>1 DEF Record, States, Ended
<1>3. /\ Remember(b, rec) /\ (Saved(b, rec) \/ NotSaved(b, rec)) /\ Serving
      /\ UNCHANGED <<tree, workspace, boot, active, idempotency>>
  BY DEF PurgeStart
<1>4. ~Remote /\ workspace[b] => memory[b].raw
  BY <1>3 DEF DurableInv, OwnedInv, Serving
<1> HIDE DEF rec
<1>5. Carries(rec, memory[b]) /\ Sound(b, rec)
  BY <1>1, <1>2 DEF Carries, Sound, InProgress, Pending, Active
<1>6. rec.state \in Successors[memory[b].state]
  BY <1>1, <1>2 DEF Successors
<1>7. Region(b, rec)
  BY <1>1, <1>2, <1>3, <1>4, <1>5, <1>6 DEF Region, InProgress, Pending, Active
<1> QED
  BY <1>1, <1>2, <1>7

\* The locked end of _cleanup_raw(), when the record still names a workspace.
LEMMA ClearRawRegion ==
    ASSUME DurableInv, NEW h \in Handlers, ClearRaw(h)
    PROVE  \/ UNCHANGED <<memory, durable, faults>>
           \/ \E rec \in Record : /\ Region(handler[h].build, rec)
                                  /\ rec.state = memory[handler[h].build].state
<1> DEFINE b == handler[h].build
           rec == [memory[b] EXCEPT !.raw = FALSE]
<1>0. Serving /\ handler[h].pc = "clear"
  BY DEF ClearRaw, At
<1>1. b \in Builds /\ memory[b].state \notin InProgress \cup {"ABSENT"}
  BY <1>0, HandledHasEnded
<1>2. memory[b] \in Record /\ Sound(b, memory[b])
  BY <1>1, InMemory
<1>3. /\ rec \in Record /\ rec.state = memory[b].state /\ rec.reg = memory[b].reg
      /\ rec.key = memory[b].key /\ rec.request = memory[b].request
      /\ rec.hash = memory[b].hash /\ rec.cmd = memory[b].cmd
  BY <1>2 DEF Record
<1>4. ~Remote => ~workspace[b]
  BY <1>0 DEF DurableInv, OwnedInv
<1>5. rec.state = "DELETED" /\ rec.hash # NoBuild => tree[b] \in Gone
  BY <1>1, <1>3 DEF DurableInv, GoneInv
<1>6. \/ UNCHANGED <<memory, durable, faults>>
      \/ Remember(b, rec) /\ (Saved(b, rec) \/ NotSaved(b, rec))
  BY DEF ClearRaw
<1>7. UNCHANGED <<tree, workspace, boot, active, idempotency>>
  BY DEF ClearRaw, Untouched
<1> HIDE DEF rec
<1>8. Carries(rec, memory[b]) /\ Sound(b, rec)
  BY <1>1, <1>2, <1>3 DEF Carries, Sound
<1>9. Remember(b, rec) /\ (Saved(b, rec) \/ NotSaved(b, rec)) => Region(b, rec)
  BY <1>0, <1>1, <1>3, <1>4, <1>5, <1>7, <1>8 DEF Region
<1> QED
  BY <1>3, <1>6, <1>9

LEMMA PurgeFinishRegion ==
    ASSUME DurableInv, NEW h \in Handlers, PurgeFinish(h)
    PROVE  \E rec \in Record : Region(handler[h].build, rec) /\ rec.state = "DELETED"
<1> DEFINE b == handler[h].build
           rec == [memory[b] EXCEPT !.state = "DELETED"]
<1>0. Serving /\ handler[h].pc = "finish" /\ HandlerOK(h)
  BY DEF PurgeFinish, At, DurableInv, IndInv, HandlerInv
<1>1. b \in Builds /\ memory[b].state \notin InProgress \cup {"ABSENT"}
  BY <1>0, HandledHasEnded
<1>2. memory[b] \in Record /\ Sound(b, memory[b])
  BY <1>1, InMemory
<1>3. /\ rec \in Record /\ rec.state = "DELETED" /\ rec.reg = memory[b].reg
      /\ rec.key = memory[b].key /\ rec.request = memory[b].request
      /\ rec.hash = memory[b].hash /\ rec.cmd = memory[b].cmd
  BY <1>2 DEF Record, States, Ended
<1>4. (~Remote => ~workspace[b]) /\ handler[h].op = "purge"
  BY <1>0 DEF DurableInv, OwnedInv, HandlerOK
<1>5. rec.hash # NoBuild => tree[b] \in Gone
  BY <1>0, <1>3, <1>4 DEF DurableInv, GoneInv, Removed
<1>6. Remember(b, rec) /\ (Saved(b, rec) \/ NotSaved(b, rec))
  BY DEF PurgeFinish
<1>7. UNCHANGED <<tree, workspace, boot, active, idempotency>>
  BY DEF PurgeFinish, Untouched
<1>8. faults = 0 => memory[b].state = "DELETING"
  BY <1>0, <1>4 DEF DurableInv, ActorsInv, Purging
<1> HIDE DEF rec
<1>9. Carries(rec, memory[b]) /\ Sound(b, rec)
  BY <1>1, <1>2, <1>3 DEF Carries, Sound, InProgress, Pending, Active
<1>10. faults = 0 => rec.state \in Successors[memory[b].state]
  BY <1>3, <1>8 DEF Successors
<1>11. Region(b, rec)
  BY <1>0, <1>1, <1>3, <1>4, <1>5, <1>6, <1>7, <1>9, <1>10
  DEF Region, InProgress, Pending, Active
<1> QED
  BY <1>3, <1>11

\* A region of the worker: the build is its own and the workspace stays named.
LEMMA WorkerRegion ==
    ASSUME DurableInv, NEW b \in Builds, NEW rec \in Record, Serving,
           Remember(b, rec), Saved(b, rec) \/ NotSaved(b, rec),
           UNCHANGED <<tree, workspace, boot, idempotency>>, active' = b,
           memory[b].state # "ABSENT", rec.state \in States \ {"DELETED"},
           rec.key = memory[b].key, rec.request = memory[b].request,
           rec.reg = memory[b].reg, rec.cmd = memory[b].cmd,
           memory[b].raw => rec.raw,
           \/ rec.hash = memory[b].hash
           \/ memory[b].state = "VERIFYING" /\ rec.state = "REGISTERING" /\ rec.hash = b,
           rec.state \in InProgress \cup {"REGISTERING"} => memory[b].state \in InProgress,
           faults = 0 => rec.state = memory[b].state \/ rec.state \in Successors[memory[b].state]
    PROVE  Region(b, rec)
<1>1. memory[b] \in Record /\ Sound(b, memory[b])
  BY InMemory
<1>2. Carries(rec, memory[b])
  BY <1>1 DEF Carries, Sound, States, Pending, Active, Visible, Ended
<1>3. Sound(b, rec)
  BY <1>1 DEF Sound, States, Pending, Active, Visible, Ended
<1>4. ~Remote /\ workspace[b] => rec.raw
  BY DEF DurableInv, OwnedInv, Serving
<1>5. rec.state # "ABSENT"
  BY DEF States, Pending, Active, Visible, Ended
<1> QED
  BY <1>2, <1>3, <1>4, <1>5 DEF Region

LEMMA WorkerPopRegion ==
    ASSUME DurableInv, WorkerPop
    PROVE  \E b \in Builds, rec \in Record :
              /\ Region(b, rec) /\ rec.state \in Pending /\ rec.raw /\ active' = b
              /\ worker' = "mkdir" => Saved(b, rec)
<1> DEFINE b == Head(queue)
           rec == Popped(memory[b])
<1>1. /\ queue \in Seq(Builds) /\ queue # <<>> /\ Serving
      /\ UNCHANGED <<tree, workspace, boot, idempotency>> /\ active' = b
      /\ Remember(b, rec) /\ (Saved(b, rec) \/ NotSaved(b, rec))
      /\ worker' = "mkdir" => Saved(b, rec)
  <2>1. Serving
    BY StartingAlone DEF WorkerPop, DurableInv
  <2> QED
    BY <2>1 DEF WorkerPop, Elsewhere, DurableInv, IndInv, TypeOK
<1>2. b = queue[1] /\ 1 \in 1 .. Len(queue)
  BY <1>1
<1>3. b \in Builds /\ memory[b].state \in Pending
  BY <1>2, QueuedIsPending DEF DurableInv
<1>4. memory[b] \in Record
  BY <1>3, InMemory
<1>5. /\ rec \in Record /\ rec.state = memory[b].state /\ rec.key = memory[b].key
      /\ rec.request = memory[b].request /\ rec.hash = memory[b].hash
      /\ rec.reg = memory[b].reg /\ rec.cmd = memory[b].cmd /\ rec.raw = TRUE
  BY <1>4 DEF Popped, Record
<1> HIDE DEF rec, b
<1>6. /\ memory[b].state # "ABSENT" /\ rec.state \in States \ {"DELETED"}
      /\ memory[b].state \in InProgress
  BY <1>3, <1>5 DEF Pending, InProgress, States
<1>7. Region(b, rec)
  BY <1>1, <1>3, <1>5, <1>6, WorkerRegion
<1> QED
  BY <1>1, <1>3, <1>5, <1>7

\* The build in the worker's hands while the pipeline runs.
LEMMA WorkersBuild ==
    ASSUME DurableInv, worker \in {"mkdir", "update", "work", "publish", "except"}
    PROVE  /\ active \in Builds /\ Serving /\ memory[active] \in Record
           /\ memory[active].state # "ABSENT"
           /\ worker # "except" => memory[active].state \in InProgress
<1>1. active \in Builds
  BY DEF DurableInv, IndInv, WorkerInv
<1>2. Serving
  BY StartingAlone DEF DurableInv
<1>3. worker # "except" => memory[active].state \in InProgress
  BY DEF DurableInv, IndInv, WorkerInv, InProgress, Active
<1> QED
  BY <1>1, <1>2, <1>3, InMemory DEF DurableInv, RecordInv

LEMMA WorkerUpdateRegion ==
    ASSUME DurableInv, WorkerUpdate
    PROVE  \E rec \in Record : Region(active, rec) /\ rec.state \in Active
<1> DEFINE b == active
           rec == [memory[b] EXCEPT !.state = NextStage[memory[b].state]]
<1>1. /\ b \in Builds /\ Serving /\ memory[b] \in Record
      /\ memory[b].state \in InProgress /\ memory[b].state # "ABSENT"
  BY WorkersBuild DEF WorkerUpdate
<1>2. /\ UNCHANGED <<tree, workspace, boot, idempotency, active>>
      /\ Remember(b, rec) /\ (Saved(b, rec) \/ NotSaved(b, rec))
  BY DEF WorkerUpdate, Elsewhere
<1>3. memory[b].state \in InProgress \ {"VERIFYING"}
  BY DEF WorkerUpdate, DurableInv, IndInv, WorkerInv
<1>4. /\ NextStage[memory[b].state] \in Active
      /\ NextStage[memory[b].state] \in Successors[memory[b].state]
  BY <1>3 DEF NextStage, Successors, InProgress, Pending, Active
<1>5. /\ rec \in Record /\ rec.state = NextStage[memory[b].state] /\ rec.key = memory[b].key
      /\ rec.request = memory[b].request /\ rec.hash = memory[b].hash
      /\ rec.reg = memory[b].reg /\ rec.cmd = memory[b].cmd /\ rec.raw = memory[b].raw
  BY <1>1, <1>4 DEF Record, States
<1> HIDE DEF rec
<1>6. rec.state \in States \ {"DELETED"}
  BY <1>4, <1>5 DEF States, Active
<1>7. Region(b, rec)
  BY <1>1, <1>2, <1>4, <1>5, <1>6, WorkerRegion
<1> QED
  BY <1>4, <1>5, <1>7

LEMMA WorkerPublishRegion ==
    ASSUME DurableInv, WorkerPublish
    PROVE  \E rec \in Record : Region(active, rec) /\ rec.state = "REGISTERING"
<1> DEFINE b == active
           rec == [memory[b] EXCEPT !.state = "REGISTERING", !.hash = b]
<1>1. /\ b \in Builds /\ Serving /\ memory[b] \in Record
      /\ memory[b].state \in InProgress /\ memory[b].state # "ABSENT"
  BY WorkersBuild DEF WorkerPublish
<1>2. /\ UNCHANGED <<tree, workspace, boot, idempotency, active>>
      /\ Remember(b, rec) /\ (Saved(b, rec) \/ NotSaved(b, rec))
  BY DEF WorkerPublish, Elsewhere
<1>3. memory[b].state = "VERIFYING"
  BY DEF WorkerPublish, DurableInv, IndInv, WorkerInv
<1>5. /\ rec \in Record /\ rec.state = "REGISTERING" /\ rec.key = memory[b].key
      /\ rec.request = memory[b].request /\ rec.hash = b
      /\ rec.reg = memory[b].reg /\ rec.cmd = memory[b].cmd /\ rec.raw = memory[b].raw
  BY <1>1 DEF Record, States, Visible
<1> HIDE DEF rec
<1>6. rec.state \in States \ {"DELETED"} /\ rec.state \in Successors[memory[b].state]
  BY <1>3, <1>5 DEF States, Visible, Successors
<1>7. Region(b, rec)
  BY <1>1, <1>2, <1>3, <1>5, <1>6, WorkerRegion
<1> QED
  BY <1>5, <1>7

LEMMA WorkerExceptRegion ==
    ASSUME DurableInv, WorkerExcept
    PROVE  \E rec \in Record : Region(active, rec) /\ rec.state = "FAILED"
<1> DEFINE b == active
           rec == [memory[b] EXCEPT !.state = "FAILED"]
<1>1. b \in Builds /\ Serving /\ memory[b] \in Record /\ memory[b].state # "ABSENT"
  BY WorkersBuild DEF WorkerExcept
<1>2. /\ UNCHANGED <<tree, workspace, boot, idempotency, active>>
      /\ Remember(b, rec) /\ (Saved(b, rec) \/ NotSaved(b, rec))
  BY DEF WorkerExcept, Elsewhere
<1>3. faults = 0 => memory[b].state \in InProgress
  BY DEF WorkerExcept, DurableInv, ActorsInv
<1>5. /\ rec \in Record /\ rec.state = "FAILED" /\ rec.key = memory[b].key
      /\ rec.request = memory[b].request /\ rec.hash = memory[b].hash
      /\ rec.reg = memory[b].reg /\ rec.cmd = memory[b].cmd /\ rec.raw = memory[b].raw
  BY <1>1 DEF Record, States, Ended
<1> HIDE DEF rec
<1>6. /\ rec.state \in States \ {"DELETED"} /\ rec.state \notin InProgress \cup {"REGISTERING"}
      /\ faults = 0 => rec.state \in Successors[memory[b].state]
  BY <1>3, <1>5 DEF States, Ended, Successors, InProgress, Pending, Active
<1>7. Region(b, rec)
  BY <1>1, <1>2, <1>5, <1>6, WorkerRegion
<1> QED
  BY <1>5, <1>7

\* Where nothing was written since the start, a build that the recovery rewrites
\* is one that it loaded or that it has rewritten before.
LEMMA RecoveryRegion ==
    ASSUME DurableInv, Starting, Starting', NEW b \in Builds, NEW rec \in Record,
           Remember(b, rec), Saved(b, rec),
           UNCHANGED <<idempotency, queue, active, tree, workspace>>,
           memory[b].state \in Active \cup {"DELETING"}, rec.state \in Ended,
           rec.key = memory[b].key, rec.request = memory[b].request,
           rec.hash = memory[b].hash, rec.reg = memory[b].reg, rec.cmd = memory[b].cmd,
           rec.state = memory[b].state \/ rec.state \in Successors[memory[b].state],
           rec.state = "DELETED" => /\ rec.hash # NoBuild => tree[b] \in Gone
                                    /\ ~Remote => ~workspace[b],
           ~Remote /\ workspace[b] => rec.raw
    PROVE  Region(b, rec)
<1>1. memory[b] \in Record /\ Sound(b, memory[b])
  BY InMemory
<1>2. Carries(rec, memory[b])
  BY DEF Carries, Ended
<1>3. Sound(b, rec)
  BY <1>1 DEF Sound, Ended, InProgress, Pending, Active
<1>4. memory[b].state # "ABSENT" /\ rec.state # "ABSENT" /\ rec.state \notin InProgress
  BY DEF Ended, InProgress, Pending, Active
<1> QED
  BY <1>2, <1>3, <1>4 DEF Region

LEMMA FailInterruptedRegion ==
    ASSUME DurableInv, NEW b \in Builds, FailInterrupted(b)
    PROVE  \E rec \in Record : Region(b, rec)
<1> DEFINE rec == [memory[b] EXCEPT !.state = "FAILED"]
<1>1. memory[b] \in Record /\ memory[b].state \in Active /\ Starting /\ Starting'
  BY InMemory DEF FailInterrupted, Starting
<1>2. /\ rec \in Record /\ rec.state = "FAILED" /\ rec.reg = memory[b].reg
      /\ rec.key = memory[b].key /\ rec.request = memory[b].request
      /\ rec.hash = memory[b].hash /\ rec.cmd = memory[b].cmd /\ rec.raw = memory[b].raw
  BY <1>1 DEF Record, States, Ended
<1>3. /\ Remember(b, rec) /\ Saved(b, rec)
      /\ UNCHANGED <<idempotency, queue, active, tree, workspace>>
  BY DEF FailInterrupted
<1>4. ~Remote /\ workspace[b] => memory[b].raw
  BY <1>1 DEF DurableInv, OwnedInv, Starting
<1> HIDE DEF rec
<1>5. rec.state \in Successors[memory[b].state] /\ rec.state \in Ended
  BY <1>1, <1>2 DEF Successors, Active, Ended
<1> QED
  BY <1>1, <1>2, <1>3, <1>4, <1>5, RecoveryRegion

LEMMA RecoverClearRegion ==
    ASSUME DurableInv, RecoverClear
    PROVE  \E rec \in Record : Region(boot.build, rec) /\ boot.build \in Builds
<1> DEFINE b == boot.build
           rec == [memory[b] EXCEPT !.raw = FALSE]
<1>0. boot.pc = "clearing" /\ Starting /\ BootAt("finishing", b)
  BY DEF RecoverClear, Starting
<1>1. b \in Builds /\ memory[b].state = "DELETING" /\ Starting'
  BY <1>0 DEF DurableInv, IndInv, BootInv, BootAt, Starting
<1>2. memory[b] \in Record
  BY <1>1, InMemory
<1>3. /\ rec \in Record /\ rec.state = memory[b].state /\ rec.reg = memory[b].reg
      /\ rec.key = memory[b].key /\ rec.request = memory[b].request
      /\ rec.hash = memory[b].hash /\ rec.cmd = memory[b].cmd
  BY <1>2 DEF Record
<1>4. /\ Remember(b, rec) /\ Saved(b, rec)
      /\ UNCHANGED <<idempotency, queue, active, tree, workspace>>
  BY DEF RecoverClear
<1>5. ~Remote => ~workspace[b]
  BY <1>0 DEF DurableInv, OwnedInv
<1> HIDE DEF rec
<1>6. rec.state \in Ended /\ rec.state # "DELETED"
  BY <1>1, <1>3 DEF Ended
<1> QED
  BY <1>0, <1>1, <1>3, <1>4, <1>5, <1>6, RecoveryRegion

LEMMA RecoverFinishRegion ==
    ASSUME DurableInv, RecoverFinish
    PROVE  \E rec \in Record : Region(boot.build, rec) /\ boot.build \in Builds
<1> DEFINE b == boot.build
           rec == [memory[b] EXCEPT !.state = "DELETED"]
<1>0. boot.pc = "finishing" /\ Starting /\ BootAt("loading", NoBuild)
  BY DEF RecoverFinish, Starting
<1>1. b \in Builds /\ memory[b].state = "DELETING" /\ Starting'
  BY <1>0 DEF DurableInv, IndInv, BootInv, BootAt, Starting
<1>2. memory[b] \in Record
  BY <1>1, InMemory
<1>3. /\ rec \in Record /\ rec.state = "DELETED" /\ rec.reg = memory[b].reg
      /\ rec.key = memory[b].key /\ rec.request = memory[b].request
      /\ rec.hash = memory[b].hash /\ rec.cmd = memory[b].cmd
  BY <1>2 DEF Record, States, Ended
<1>4. /\ Remember(b, rec) /\ Saved(b, rec)
      /\ UNCHANGED <<idempotency, queue, active, tree, workspace>>
  BY DEF RecoverFinish
<1>5. ~Remote => ~workspace[b]
  BY <1>0 DEF DurableInv, OwnedInv
<1>6. rec.hash # NoBuild => tree[b] \in Gone
  BY <1>0, <1>3 DEF DurableInv, GoneInv, Removed
<1> HIDE DEF rec
<1>7. rec.state \in Ended /\ rec.state \in Successors[memory[b].state]
  BY <1>1, <1>3 DEF Ended, Successors
<1> QED
  BY <1>0, <1>1, <1>3, <1>4, <1>5, <1>6, <1>7, RecoveryRegion
-----------------------------------------------------------------------------
(* What a step does to the records                                         *)

\* A step that writes no record and loads none.
Still ==
    /\ UNCHANGED <<memory, durable, idempotency>> /\ active' \in {active, NoBuild}
    /\ Serving' => Serving \/ (Starting /\ Unqueued = {})
    /\ Starting' => Starting /\ queue' = queue

Wrote == \E b \in Builds, rec \in Record : Region(b, rec)

LEMMA UpIsStill ==
    ASSUME UNCHANGED <<memory, durable, idempotency, active, boot, queue>>
    PROVE  Still
BY DEF Still, Serving, Starting

LEMMA CallKind ==
    ASSUME DurableInv, Call
    PROVE  Still \/ Wrote
<1>1. ASSUME NEW k \in Keys, NEW r \in Requests, SubmitNew(k, r)
      PROVE  Wrote
  BY <1>1, SubmitRegion DEF Wrote
<1>2. ASSUME NEW h \in Handlers, NEW b \in Builds, NEW hash \in Builds, NEW reg \in RegIds,
             Acknowledge(h, b, hash, reg)
      PROVE  Wrote
  BY <1>2, AcknowledgeRegion DEF Wrote
<1>3. ASSUME NEW b \in Builds, Deprecate(b)
      PROVE  Wrote
  BY <1>3, DeprecateRegion DEF Wrote
<1>4. ASSUME NEW h \in Handlers, NEW b \in Builds, NEW cmd \in Commands, PurgeStart(h, b, cmd)
      PROVE  Wrote
  BY <1>4, PurgeStartRegion DEF Wrote
<1>5. CASE UNCHANGED <<process, disk>>
  <2>1. UNCHANGED <<memory, durable, idempotency, active, boot, queue>>
    BY <1>5 DEF process, disk
  <2> QED
    BY <2>1, UpIsStill
<1> QED
  BY <1>1, <1>2, <1>3, <1>4, <1>5
  DEF Call, Submit, Rebuild, SubmitReplay, AcknowledgeReplay, DeprecateReplay, PurgeReplay

LEMMA HandlerKind ==
    ASSUME DurableInv, NEW h \in Handlers, HandlerStep(h)
    PROVE  Still \/ Wrote
<1>1. UNCHANGED <<idempotency, active, boot, queue>> /\ handler[h].pc # "idle"
  BY DEF HandlerStep, PurgeStore, PurgeRemove, CleanCheck, RemoveWorkspace, ClearRaw,
     PurgeFinish, Untouched, At
<1>2. handler[h].build \in Builds
  BY <1>1, HandledHasEnded
<1>3. CASE ClearRaw(h)
  BY <1>1, <1>2, <1>3, ClearRawRegion, UpIsStill DEF Wrote
<1>4. CASE PurgeFinish(h)
  BY <1>2, <1>4, PurgeFinishRegion DEF Wrote
<1>5. CASE PurgeStore(h) \/ PurgeRemove(h) \/ CleanCheck(h) \/ RemoveWorkspace(h)
  <2>1. UNCHANGED <<memory, durable>>
    BY <1>5 DEF PurgeStore, PurgeRemove, CleanCheck, RemoveWorkspace, disk
  <2> QED
    BY <1>1, <2>1, UpIsStill
<1> QED
  BY <1>3, <1>4, <1>5 DEF HandlerStep

LEMMA WorkerKind ==
    ASSUME DurableInv, Worker
    PROVE  Still \/ Wrote
<1>1. CASE WorkerPop
  BY <1>1, WorkerPopRegion DEF Wrote
<1>2. CASE WorkerUpdate
  BY <1>2, WorkerUpdateRegion, WorkersBuild DEF Wrote, WorkerUpdate
<1>3. CASE WorkerPublish
  BY <1>3, WorkerPublishRegion, WorkersBuild DEF Wrote, WorkerPublish
<1>4. CASE WorkerExcept
  BY <1>4, WorkerExceptRegion, WorkersBuild DEF Wrote, WorkerExcept
<1>5. CASE WorkerIdle \/ WorkerMkdir \/ WorkerStage \/ WorkerStageRaises \/ WorkerFinally
  <2>1. /\ UNCHANGED <<memory, durable, idempotency, boot, queue>>
        /\ active' \in {active, NoBuild}
    BY <1>5 DEF WorkerIdle, WorkerMkdir, WorkerStage, WorkerStageRaises, WorkerFinally,
       Elsewhere, disk
  <2> QED
    BY <2>1 DEF Still, Serving, Starting
<1> QED
  BY <1>1, <1>2, <1>3, <1>4, <1>5 DEF Worker

LEMMA BootKind ==
    ASSUME DurableInv, Boot
    PROVE  Still \/ Wrote \/ Restart \/ LoseProcess \/ \E b \in Builds : EnqueueNext(b)
<1>1. ASSUME NEW b \in Builds, FailInterrupted(b)
      PROVE  Wrote
  BY <1>1, FailInterruptedRegion DEF Wrote
<1>2. CASE RecoverClear
  BY <1>2, RecoverClearRegion DEF Wrote
<1>3. CASE RecoverFinish
  BY <1>3, RecoverFinishRegion DEF Wrote
<1>4. CASE StartFails
  BY <1>4 DEF StartFails
<1>5. CASE RecoverRemove \/ RecoverClean \/ Serve \/ \E b \in Builds : RecoverDeleting(b)
  <2>1. UNCHANGED <<memory, durable, idempotency, active, queue>> /\ Starting
    BY <1>5 DEF RecoverRemove, RecoverClean, Serve, RecoverDeleting, Booting, disk, Starting
  <2>2. Serving' => Unqueued = {}
    BY <1>5 DEF RecoverRemove, RecoverClean, Serve, RecoverDeleting, BootAt, Serving
  <2> QED
    BY <2>1, <2>2 DEF Still
<1> QED
  BY <1>1, <1>2, <1>3, <1>4, <1>5 DEF Boot

LEMMA StepKind ==
    ASSUME DurableInv, [Next]_vars
    PROVE  Still \/ Wrote \/ Restart \/ LoseProcess \/ \E b \in Builds : EnqueueNext(b)
<1>1. CASE UNCHANGED vars
  BY <1>1, UpIsStill DEF vars
<1>2. CASE Close
  BY <1>2, UpIsStill DEF Close, disk
<1>3. CASE Exit \/ Crash
  BY <1>3 DEF Exit, Crash
<1> QED
  BY <1>1, <1>2, <1>3, CallKind, HandlerKind, WorkerKind, BootKind DEF Next

\* What is true once a region has written the record of b.
LEMMA AfterRegion ==
    ASSUME DurableInv, NEW b \in Builds, NEW rec \in Record, Region(b, rec)
    PROVE  /\ memory'[b] = rec /\ boot.pc # "down"
           /\ \A c \in Builds : c # b => memory'[c] = memory[c] /\ durable'[c] = durable[c]
           /\ durable'[b] \in {durable[b], Serialize(rec)}
           /\ faults' = 0 => durable'[b] = Serialize(rec) /\ faults = 0
           /\ Carries(memory[b], durable[b]) /\ Carries(rec, memory[b])
           /\ Carries(rec, durable'[b]) /\ Carries(durable'[b], durable[b])
           /\ Serialize(rec) \in Record
<1>1. TypeOK
  BY DEF DurableInv, IndInv
<1>2. /\ Remember(b, rec) /\ (Saved(b, rec) \/ NotSaved(b, rec))
      /\ Carries(rec, memory[b]) /\ boot.pc # "down"
  BY DEF Region, Serving, Starting
<1>3. Carries(memory[b], durable[b])
  BY <1>2 DEF DurableInv, RecordInv
<1>4. /\ memory'[b] = rec
      /\ \A c \in Builds : c # b => memory'[c] = memory[c] /\ durable'[c] = durable[c]
      /\ durable'[b] \in {durable[b], Serialize(rec)}
      /\ faults' = 0 => durable'[b] = Serialize(rec) /\ faults = 0
  BY <1>1, <1>2, Stored
<1>5. Carries(rec, durable[b])
  BY <1>2, <1>3, CarriesTransitive
<1>6. Carries(rec, Serialize(rec)) /\ Carries(Serialize(rec), durable[b])
  BY <1>5, CarriesSerialized
<1>7. Carries(durable[b], durable[b])
  BY InMemory, CarriesSerialized
<1> QED
  BY <1>2, <1>3, <1>4, <1>5, <1>6, <1>7, SerializeKeeps

\* A step never makes the durable record of a build forget what it says.
LEMMA DurableCarries ==
    ASSUME DurableInv, [Next]_vars, NEW b \in Builds
    PROVE  Carries(durable'[b], durable[b])
<1>1. durable[b] \in Record /\ Carries(durable[b], durable[b])
  BY InMemory, CarriesSerialized
<1>2. CASE Wrote
  <2>1. PICK c \in Builds, rec \in Record : Region(c, rec)
    BY <1>2 DEF Wrote
  <2> QED
    BY <1>1, <2>1, AfterRegion
<1>3. ASSUME NEW c \in Builds, EnqueueNext(c)
      PROVE  Carries(durable'[b], durable[b])
  <2>1. durable' = [durable EXCEPT ![c] = Serialize(memory[c])] /\ boot.pc # "down"
    BY <1>3 DEF EnqueueNext, Saved
  <2>2. memory[b] \in Record /\ Carries(memory[b], durable[b])
    BY <2>1, InMemory DEF DurableInv, RecordInv
  <2>3. Carries(Serialize(memory[b]), durable[b])
    BY <2>2, CarriesSerialized
  <2> QED
    BY <1>1, <2>1, <2>3 DEF DurableInv, IndInv, TypeOK
<1>4. CASE Still \/ Restart \/ LoseProcess
  BY <1>1, <1>4 DEF Still, Restart, LoseProcess, disk
<1> QED
  BY <1>2, <1>3, <1>4, StepKind

LEMMA RecordInvStep ==
    ASSUME DurableInv, [Next]_vars
    PROVE  RecordInv'
<1>0. TypeOK /\ RecordInv /\ HeldInv
  BY DEF DurableInv, IndInv
<1>1. CASE Wrote
  <2>1. PICK b \in Builds, rec \in Record : Region(b, rec)
    BY <1>1 DEF Wrote
  <2>2. /\ memory'[b] = rec /\ boot.pc # "down"
        /\ \A c \in Builds : c # b => memory'[c] = memory[c] /\ durable'[c] = durable[c]
        /\ durable'[b] \in {durable[b], Serialize(rec)}
        /\ Carries(memory[b], durable[b]) /\ Carries(rec, durable'[b])
    BY <2>1, AfterRegion
  <2>3. Sound(b, rec) /\ Sound(b, Serialize(rec)) /\ Sound(b, durable[b])
    BY <2>1, CarriesSerialized, InMemory DEF Region
  <2>4. (Remote => ~Serialize(rec).raw) /\ Serialize(rec).state = rec.state
    BY SerializeKeeps
  <2>5. /\ rec.state # "ABSENT" /\ active' \in {active, b}
        /\ rec.state \in InProgress => memory[b].state \in InProgress \cup {"ABSENT"}
    BY <2>1 DEF Region
  <2>6. \A c \in Builds : Sound(c, memory'[c]) /\ Sound(c, durable'[c])
    BY <1>0, <2>2, <2>3 DEF RecordInv
  <2>7. Remote => \A c \in Builds : ~durable'[c].raw
    BY <1>0, <2>2, <2>4 DEF RecordInv
  <2>8. active' \in Builds => memory'[active'].state # "ABSENT"
    BY <1>0, <2>2, <2>5 DEF RecordInv
  <2>9. rec.state \in InProgress => durable'[b].state \in InProgress \cup {"ABSENT"}
    <3>1. memory[b].state = "ABSENT" => durable[b].state = "ABSENT"
      BY <2>2 DEF Carries
    <3> QED
      BY <1>0, <2>2, <2>4, <2>5, <3>1 DEF RecordInv
  <2>10. \A c \in Builds :
           /\ Carries(memory'[c], durable'[c])
           /\ memory'[c].state \in InProgress => durable'[c].state \in InProgress \cup {"ABSENT"}
    BY <1>0, <2>2, <2>9 DEF RecordInv
  <2> QED
    BY <2>6, <2>7, <2>8, <2>10 DEF RecordInv
<1>2. ASSUME NEW b \in Builds, EnqueueNext(b)
      PROVE  RecordInv'
  <2>1. /\ durable' = [durable EXCEPT ![b] = Serialize(memory[b])] /\ boot.pc # "down"
        /\ UNCHANGED <<memory, active, boot>>
    BY <1>2 DEF EnqueueNext, Saved
  <2>2. memory[b] \in Record /\ Sound(b, memory[b])
    BY InMemory
  <2>3. /\ Sound(b, Serialize(memory[b])) /\ Carries(memory[b], Serialize(memory[b]))
        /\ Serialize(memory[b]).state = memory[b].state
        /\ Remote => ~Serialize(memory[b]).raw
    BY <2>2, CarriesSerialized, SerializeKeeps
  <2>4. \A c \in Builds : durable'[c] = IF c = b THEN Serialize(memory[b]) ELSE durable[c]
    BY <1>0, <2>1 DEF TypeOK
  <2> QED
    BY <1>0, <2>1, <2>3, <2>4 DEF RecordInv
<1>3. CASE Restart
  <2>1. /\ UNCHANGED <<durable, active>> /\ boot.pc = "down"
        /\ \A b \in Builds : memory'[b] = IF durable[b].state \in Pending
                                THEN [durable[b] EXCEPT !.state = "QUEUED"] ELSE durable[b]
    BY <1>3 DEF Restart, Booting, disk
  <2>2. active \notin Builds
    BY <2>1, StartingAlone DEF DurableInv, Serving, Builds, NoBuild
  <2>3. ASSUME NEW b \in Builds
        PROVE  /\ Sound(b, memory'[b]) /\ Carries(memory'[b], durable[b])
               /\ memory'[b].state \in InProgress => durable[b].state \in InProgress
    <3>1. durable[b] \in Record /\ Sound(b, durable[b])
      BY InMemory
    <3> DEFINE rec == [durable[b] EXCEPT !.state = "QUEUED"]
    <3>2. /\ rec.state = "QUEUED" /\ rec.key = durable[b].key /\ rec.reg = durable[b].reg
          /\ rec.request = durable[b].request /\ rec.hash = durable[b].hash
          /\ rec.cmd = durable[b].cmd
      BY <3>1 DEF Record
    <3> HIDE DEF rec
    <3>3. CASE durable[b].state \in Pending
      <4>1. Sound(b, rec) /\ Carries(rec, durable[b])
        BY <3>1, <3>2, <3>3 DEF Sound, Carries, InProgress, Pending
      <4>2. memory'[b] = rec
        BY <2>1, <3>3 DEF rec
      <4> QED
        BY <3>3, <4>1, <4>2 DEF InProgress
    <3>4. CASE durable[b].state \notin Pending
      BY <2>1, <3>1, <3>4, CarriesSerialized
    <3> QED
      BY <3>3, <3>4
  <2> QED
    BY <1>0, <2>1, <2>2, <2>3 DEF RecordInv
<1>4. CASE LoseProcess
  <2>1. /\ UNCHANGED durable /\ active' = NoBuild /\ boot'.pc = "down"
        /\ \A b \in Builds : memory'[b] = NoRecord
    BY <1>4 DEF LoseProcess
  <2>2. \A b \in Builds : Sound(b, NoRecord)
    BY DEF Sound, NoRecord
  <2> QED
    BY <1>0, <2>1, <2>2 DEF RecordInv, Builds, NoBuild
<1>5. CASE Still
  <2>1. UNCHANGED <<memory, durable>> /\ active' \in {active, NoBuild}
        /\ (boot'.pc # "down" => boot.pc # "down")
    BY <1>5 DEF Still, Serving, Starting
  <2> QED
    BY <1>0, <2>1 DEF RecordInv, Builds, NoBuild
<1> QED
  BY <1>1, <1>2, <1>3, <1>4, <1>5, StepKind

\* Failures are never forgotten.
LEMMA FaultsStay ==
    ASSUME TypeOK, [Next]_vars, faults' = 0
    PROVE  faults = 0
<1>1. faults \in Nat /\ (Fault => faults' # 0)
  BY BoundsAssumption DEF TypeOK, Fault
<1>2. \A b, rec : Saved(b, rec) => faults' = faults
  BY DEF Saved
<1>3. \A b, rec : ~NotSaved(b, rec)
  BY <1>1 DEF NotSaved
<1>4. Call => faults' = faults
  BY <1>2, <1>3 DEF Call, Submit, Rebuild, SubmitNew, SubmitReplay, Acknowledge,
     AcknowledgeReplay, Deprecate, DeprecateReplay, PurgeStart, PurgeReplay
<1>5. \A h \in Handlers : HandlerStep(h) => faults' = faults
  BY <1>1, <1>2, <1>3 DEF HandlerStep, PurgeStore, PurgeRemove, CleanCheck, RemoveWorkspace,
     ClearRaw, PurgeFinish
<1>6. Worker => faults' = faults
  BY <1>1, <1>2, <1>3 DEF Worker, WorkerIdle, WorkerPop, WorkerMkdir, WorkerUpdate,
     WorkerStage, WorkerStageRaises, WorkerPublish, WorkerExcept, WorkerFinally
<1>7. Boot => faults' = faults
  BY <1>1, <1>2 DEF Boot, Restart, FailInterrupted, EnqueueNext, RecoverDeleting,
     RecoverRemove, RecoverClean, RecoverClear, RecoverFinish, StartFails, Serve, Booting
<1>8. Close \/ Exit \/ Crash \/ UNCHANGED vars => faults' = faults
  BY DEF Close, Exit, Crash, vars
<1>9. faults' = faults
  BY <1>4, <1>5, <1>6, <1>7, <1>8 DEF Next
<1> QED
  BY <1>9

LEMMA KeyInvStep ==
    ASSUME DurableInv, [Next]_vars
    PROVE  KeyInv'
<1>0. TypeOK /\ KeyInv /\ RecordInv'
  BY RecordInvStep DEF DurableInv, IndInv
<1> DEFINE Forth == \A k \in Keys : idempotency'[k] # NoBuild => memory'[idempotency'[k]].key = k
           Back == \A b \in Builds : memory'[b].key # None => idempotency'[memory'[b].key] = b
<1>1. CASE Wrote
  <2>1. PICK b \in Builds, rec \in Record : Region(b, rec)
    BY <1>1 DEF Wrote
  <2>2. /\ memory'[b] = rec /\ Carries(rec, memory[b])
        /\ \A c \in Builds : c # b => memory'[c] = memory[c]
    BY <2>1, AfterRegion
  <2>3. b # NoBuild /\ boot'.pc # "down"
    BY <2>1 DEF Builds, NoBuild, Region, Serving, Starting
  <2>4. ASSUME memory[b].state # "ABSENT", idempotency' = idempotency
        PROVE  Forth /\ Back
    <3>1. rec.key = memory[b].key
      BY <2>2, <2>4 DEF Carries
    <3>2. \A c \in Builds : memory'[c].key = memory[c].key
      BY <2>2, <3>1
    <3>3. \A k \in Keys : idempotency[k] \in Builds \cup {NoBuild}
      BY <1>0 DEF TypeOK
    <3> QED
      BY <1>0, <2>4, <3>2, <3>3 DEF KeyInv
  <2>5. ASSUME memory[b] = NoRecord, rec.key \in Keys, idempotency[rec.key] = NoBuild,
               idempotency' = [idempotency EXCEPT ![rec.key] = b]
        PROVE  Forth /\ Back
    <3>1. NoRecord.key = None
      BY DEF NoRecord
    <3>2. \A k \in Keys : idempotency'[k] = IF k = rec.key THEN b ELSE idempotency[k]
      BY <1>0, <2>5 DEF TypeOK
    <3>3. \A k \in Keys : idempotency[k] \in Builds \cup {NoBuild} /\ k # None
      BY <1>0, NoneAssumption DEF TypeOK
    <3>4. \A k \in Keys : idempotency[k] # b
      BY <1>0, <2>3, <2>5, <3>1, <3>3 DEF KeyInv
    <3>5. Forth
      BY <1>0, <2>2, <3>2, <3>3, <3>4 DEF KeyInv
    <3>6. \A c \in Builds : memory[c].key # rec.key
      BY <1>0, <2>3, <2>5, <3>3 DEF KeyInv, Builds, NoBuild
    <3>7. \A c \in Builds : memory[c].key \in Keys \cup {None}
      BY <1>0 DEF TypeOK, Record
    <3>8. Back
      <4> SUFFICES ASSUME NEW c \in Builds, memory'[c].key # None
                   PROVE  idempotency'[memory'[c].key] = c
        OBVIOUS
      <4>1. CASE c = b
        BY <2>2, <2>5, <3>2, <4>1
      <4>2. CASE c # b
        <5>1. memory[c].key \in Keys /\ memory'[c].key = memory[c].key /\ memory[c].key # rec.key
          BY <2>2, <3>6, <3>7, <4>2
        <5>2. idempotency[memory[c].key] = c
          BY <1>0, <5>1, NoneAssumption DEF KeyInv
        <5> QED
          BY <3>2, <5>1, <5>2
      <4> QED
        BY <4>1, <4>2
    <3> QED
      BY <3>5, <3>8
  <2>6. Forth /\ Back
    BY <2>1, <2>4, <2>5 DEF Region
  <2>7. \A c \in Builds : Sound(c, durable'[c]) /\ Carries(memory'[c], durable'[c])
    BY <1>0, <2>3 DEF RecordInv
  <2>8. \A c, d \in Builds : durable'[c].key # None /\ durable'[c].key = durable'[d].key => c = d
    <3>1. \A c \in Builds : durable'[c].key # None => memory'[c].key = durable'[c].key
      <4> SUFFICES ASSUME NEW c \in Builds, durable'[c].key # None
                   PROVE  memory'[c].key = durable'[c].key
        OBVIOUS
      <4>1. durable'[c].state # "ABSENT"
        BY <2>7 DEF Sound, NoRecord
      <4> QED
        BY <2>7, <4>1 DEF Carries
    <3> QED
      BY <2>6, <3>1
  <2> QED
    BY <2>6, <2>8 DEF KeyInv
<1>2. ASSUME NEW b \in Builds, EnqueueNext(b)
      PROVE  KeyInv'
  <2>1. /\ durable' = [durable EXCEPT ![b] = Serialize(memory[b])] /\ boot.pc # "down"
        /\ UNCHANGED <<memory, idempotency, boot>>
    BY <1>2 DEF EnqueueNext, Saved
  <2>2. \A c \in Builds : Sound(c, durable'[c]) /\ Carries(memory'[c], durable'[c])
    BY <1>0, <2>1 DEF RecordInv
  <2>3. \A c \in Builds : durable'[c].key # None => memory'[c].key = durable'[c].key
    <3> SUFFICES ASSUME NEW c \in Builds, durable'[c].key # None
                 PROVE  memory'[c].key = durable'[c].key
      OBVIOUS
    <3>1. durable'[c].state # "ABSENT"
      BY <2>2 DEF Sound, NoRecord
    <3> QED
      BY <2>2, <3>1 DEF Carries
  <2> QED
    BY <1>0, <2>1, <2>3 DEF KeyInv
<1>3. CASE Restart
  <2>1. UNCHANGED durable /\ idempotency' = LoadedKeys
    BY <1>3 DEF Restart, disk
  <2>2. \A b \in Builds : memory'[b].key = durable[b].key
    <3> SUFFICES ASSUME NEW b \in Builds PROVE memory'[b].key = durable[b].key
      OBVIOUS
    <3>1. durable[b] \in Record
      BY <1>0 DEF TypeOK
    <3>2. [durable[b] EXCEPT !.state = "QUEUED"].key = durable[b].key
      BY <3>1 DEF Record
    <3> QED
      BY <1>3, <3>2 DEF Restart
  <2>3. ASSUME NEW b \in Builds, durable[b].key # None
        PROVE  LoadedKeys[durable[b].key] = b
    <3>1. durable[b].key \in Keys
      BY <1>0, <2>3 DEF TypeOK, Record
    <3>2. \A c \in Builds : durable[c].key = durable[b].key => c = b
      BY <1>0, <2>3 DEF KeyInv
    <3>3. (CHOOSE c \in Builds : durable[c].key = durable[b].key) = b
      BY <3>2
    <3> QED
      BY <3>1, <3>3 DEF LoadedKeys
  <2>4. ASSUME NEW k \in Keys, LoadedKeys[k] # NoBuild
        PROVE  LoadedKeys[k] \in Builds /\ durable[LoadedKeys[k]].key = k
    BY <2>4 DEF LoadedKeys
  <2> QED
    BY <1>0, <2>1, <2>2, <2>3, <2>4 DEF KeyInv
<1>4. CASE LoseProcess
  <2>1. /\ UNCHANGED durable /\ idempotency' = [k \in Keys |-> NoBuild]
        /\ \A b \in Builds : memory'[b] = NoRecord
    BY <1>4 DEF LoseProcess
  <2> QED
    BY <1>0, <2>1 DEF KeyInv, NoRecord
<1>5. CASE Still
  BY <1>0, <1>5 DEF Still, KeyInv
<1> QED
  BY <1>1, <1>2, <1>3, <1>4, <1>5, StepKind

LEMMA SyncInvStep ==
    ASSUME DurableInv, [Next]_vars
    PROVE  SyncInv'
<1> SUFFICES ASSUME faults' = 0
             PROVE  /\ Serving' => \A c \in Builds : durable'[c] = Serialize(memory'[c])
                    /\ Starting' => \A c \in Builds :
                          \/ durable'[c] = Serialize(memory'[c])
                          \/ /\ c \in Unqueued' /\ durable'[c].state \in Pending
                             /\ memory'[c] = [durable'[c] EXCEPT !.state = "QUEUED"]
  BY DEF SyncInv, Serialize
<1>0. TypeOK
  BY DEF DurableInv, IndInv
<1>1. /\ Serving => \A c \in Builds : durable[c] = Serialize(memory[c])
      /\ Starting => \A c \in Builds :
              \/ durable[c] = Serialize(memory[c])
              \/ /\ c \in Unqueued /\ durable[c].state \in Pending
                 /\ memory[c] = [durable[c] EXCEPT !.state = "QUEUED"]
  BY <1>0, FaultsStay DEF DurableInv, SyncInv
<1>2. CASE Wrote
  <2>1. PICK b \in Builds, rec \in Record : Region(b, rec)
    BY <1>2 DEF Wrote
  <2>2. /\ memory'[b] = rec /\ durable'[b] = Serialize(rec)
        /\ \A c \in Builds : c # b => memory'[c] = memory[c] /\ durable'[c] = durable[c]
    BY <2>1, AfterRegion
  <2>3. CASE Serving /\ boot' = boot
    BY <1>1, <2>2, <2>3 DEF Serving, Starting
  <2>4. CASE Starting /\ Starting' /\ queue' = queue
    <3>1. Queued' = Queued /\ ~Serving'
      BY <2>4 DEF Queued, Serving, Starting
    <3>2. ASSUME NEW c \in Builds, c # b
          PROVE  \/ durable'[c] = Serialize(memory'[c])
                 \/ /\ c \in Unqueued' /\ durable'[c].state \in Pending
                    /\ memory'[c] = [durable'[c] EXCEPT !.state = "QUEUED"]
      <4>1. memory'[c] = memory[c] /\ durable'[c] = durable[c]
        BY <2>2, <3>2
      <4>2. c \in Unqueued => c \in Unqueued'
        BY <3>1, <4>1 DEF Unqueued
      <4> QED
        BY <1>1, <2>4, <4>1, <4>2
    <3> QED
      BY <2>2, <3>1, <3>2
  <2> QED
    BY <2>1, <2>3, <2>4 DEF Region
<1>3. ASSUME NEW b \in Builds, EnqueueNext(b)
      PROVE  /\ ~Serving' /\ \A c \in Builds :
                    \/ durable'[c] = Serialize(memory'[c])
                    \/ /\ c \in Unqueued' /\ durable'[c].state \in Pending
                       /\ memory'[c] = [durable'[c] EXCEPT !.state = "QUEUED"]
  <2>1. /\ durable' = [durable EXCEPT ![b] = Serialize(memory[b])] /\ boot.pc = "loading"
        /\ UNCHANGED <<memory, boot>> /\ queue' = Append(queue, b)
    BY <1>3 DEF EnqueueNext, Saved
  <2>2. Queued' \subseteq Queued \cup {b}
    <3>1. /\ Len(queue') = Len(queue) + 1 /\ Len(queue) \in Nat
          /\ \A i \in 1 .. Len(queue) : queue'[i] = queue[i]
          /\ queue'[Len(queue) + 1] = b
      BY <1>0, <2>1 DEF TypeOK
    <3> QED
      BY <3>1 DEF Queued
  <2>3. \A c \in Unqueued : c = b \/ c \in Unqueued'
    BY <2>1, <2>2 DEF Unqueued
  <2>4. /\ durable'[b] = Serialize(memory[b])
        /\ \A c \in Builds : c # b => durable'[c] = durable[c]
    BY <1>0, <2>1 DEF TypeOK
  <2> QED
    BY <1>1, <2>1, <2>3, <2>4 DEF Serving, Starting
<1>4. CASE Restart
  <2>1. /\ UNCHANGED durable /\ ~Serving' /\ queue' = <<>>
        /\ \A b \in Builds : memory'[b] = IF durable[b].state \in Pending
                                THEN [durable[b] EXCEPT !.state = "QUEUED"] ELSE durable[b]
    BY <1>4 DEF Restart, disk, Serving, DurableInv, IndInv, BootInv
  <2>2. ASSUME NEW c \in Builds
        PROVE  \/ durable'[c] = Serialize(memory'[c])
               \/ /\ c \in Unqueued' /\ durable'[c].state \in Pending
                  /\ memory'[c] = [durable'[c] EXCEPT !.state = "QUEUED"]
    <3>1. durable[c] \in Record /\ (Remote => ~durable[c].raw)
      BY InMemory DEF DurableInv, RecordInv
    <3>2. CASE durable[c].state \in Pending
      <4>1. memory'[c].state = "QUEUED"
        BY <2>1, <3>1, <3>2 DEF Record
      <4>2. c \notin Queued'
        BY <2>1 DEF Queued
      <4> QED
        BY <2>1, <3>2, <4>1, <4>2 DEF Unqueued
    <3>3. CASE durable[c].state \notin Pending
      <4>1. Serialize(durable[c]) = durable[c]
        <5>1. CASE Remote
          <6>1. /\ Serialize(durable[c]) \in Record /\ ~Serialize(durable[c]).raw
                /\ Serialize(durable[c]).state = durable[c].state
                /\ Serialize(durable[c]).key = durable[c].key
                /\ Serialize(durable[c]).request = durable[c].request
                /\ Serialize(durable[c]).hash = durable[c].hash
                /\ Serialize(durable[c]).reg = durable[c].reg
                /\ Serialize(durable[c]).cmd = durable[c].cmd
            BY <3>1, <5>1, SerializeKeeps
          <6>2. Serialize(durable[c]).raw = durable[c].raw
            BY <3>1, <5>1, <6>1 DEF Record
          <6> QED
            BY <3>1, <6>1, <6>2 DEF Record
        <5> QED
          BY <3>1, <5>1, SerializeKeeps
      <4> QED
        BY <2>1, <3>3, <4>1
    <3> QED
      BY <3>2, <3>3
  <2> QED
    BY <2>1, <2>2
<1>5. CASE LoseProcess
  BY <1>5 DEF LoseProcess, Serving, Starting
<1>6. CASE Still
  <2>1. UNCHANGED <<memory, durable>>
    BY <1>6 DEF Still
  <2>2. ASSUME Serving'
        PROVE  \A c \in Builds : durable'[c] = Serialize(memory'[c])
    BY <1>1, <1>6, <2>1, <2>2 DEF Still
  <2>3. ASSUME Starting'
        PROVE  Starting /\ Unqueued' = Unqueued
    BY <1>6, <2>1, <2>3 DEF Still, Unqueued, Queued
  <2> QED
    BY <1>1, <2>1, <2>2, <2>3
<1> QED
  BY <1>2, <1>3, <1>4, <1>5, <1>6, StepKind
-----------------------------------------------------------------------------
(* Who does it                                                             *)

\* Calls write no record of a build in progress and end none.
LEMMA CallWrites ==
    ASSUME DurableInv, Call
    PROVE  \/ UNCHANGED <<memory, durable>>
           \/ \E b \in Builds, rec \in Record :
                 Region(b, rec) /\ memory[b].state \notin InProgress /\ rec.state # "DELETED"
<1> DEFINE Claim == \E b \in Builds, rec \in Record :
                       /\ Region(b, rec) /\ memory[b].state \notin InProgress
                       /\ rec.state # "DELETED"
<1>0. /\ "ABSENT" \notin InProgress /\ "REGISTERING" \notin InProgress
      /\ "READY" \notin InProgress /\ "DEPRECATED" \notin InProgress
      /\ "FAILED" \notin InProgress /\ "DELETED" \notin Pending
  BY DEF InProgress, Pending, Active
<1>1. ASSUME NEW k \in Keys, NEW r \in Requests, SubmitNew(k, r)
      PROVE  Claim
  <2>1. PICK b \in Builds, rec \in Record :
                Region(b, rec) /\ memory[b].state = "ABSENT" /\ rec.state \in Pending
    BY <1>1, SubmitRegion
  <2> QED
    BY <1>0, <2>1
<1>2. ASSUME NEW h \in Handlers, NEW b \in Builds, NEW hash \in Builds, NEW reg \in RegIds,
             Acknowledge(h, b, hash, reg)
      PROVE  Claim
  <2>1. PICK rec \in Record :
                Region(b, rec) /\ memory[b].state = "REGISTERING" /\ rec.state = "READY"
    BY <1>2, AcknowledgeRegion
  <2> QED
    BY <1>0, <2>1
<1>3. ASSUME NEW b \in Builds, Deprecate(b)
      PROVE  Claim
  <2>1. PICK rec \in Record :
                Region(b, rec) /\ memory[b].state = "READY" /\ rec.state = "DEPRECATED"
    BY <1>3, DeprecateRegion
  <2> QED
    BY <1>0, <2>1
<1>4. ASSUME NEW h \in Handlers, NEW b \in Builds, NEW cmd \in Commands, PurgeStart(h, b, cmd)
      PROVE  Claim
  <2>1. PICK rec \in Record : /\ Region(b, rec) /\ rec.state = "DELETING"
                              /\ memory[b].state \in {"DEPRECATED", "FAILED"}
    BY <1>4, PurgeStartRegion
  <2> QED
    BY <1>0, <2>1
<1>5. CASE UNCHANGED <<process, disk>>
  BY <1>5 DEF process, disk
<1> QED
  BY <1>1, <1>2, <1>3, <1>4, <1>5
  DEF Call, Submit, Rebuild, SubmitReplay, AcknowledgeReplay, DeprecateReplay, PurgeReplay

\* A handler between its regions writes the record of its own build.
LEMMA HandlerWrites ==
    ASSUME DurableInv, NEW h \in Handlers, HandlerStep(h)
    PROVE  \/ UNCHANGED <<memory, durable>>
           \/ \E rec \in Record :
                 /\ Region(handler[h].build, rec)
                 /\ \/ rec.state = memory[handler[h].build].state
                    \/ handler[h].op = "purge" /\ handler[h].pc # "idle" /\ handler'[h] = Idle
<1>1. CASE ClearRaw(h)
  BY <1>1, ClearRawRegion
<1>2. CASE PurgeFinish(h)
  <2>1. handler[h].op = "purge" /\ handler[h].pc = "finish" /\ handler'[h] = Idle
    BY <1>2 DEF PurgeFinish, At, Return, DurableInv, IndInv, TypeOK, HandlerInv, HandlerOK
  <2> QED
    BY <1>2, <2>1, PurgeFinishRegion
<1>3. CASE PurgeStore(h) \/ PurgeRemove(h) \/ CleanCheck(h) \/ RemoveWorkspace(h)
  BY <1>3 DEF PurgeStore, PurgeRemove, CleanCheck, RemoveWorkspace, disk
<1> QED
  BY <1>1, <1>2, <1>3 DEF HandlerStep

\* How a call takes a build in hand.
Begins(h) ==
    LET b == handler'[h].build
    IN  /\ handler[h] = Idle /\ b \in Builds
        /\ \A g \in Handlers : g # h => handler'[g] = handler[g]
        /\ \/ /\ handler'[h].op = "ack" /\ handler'[h].pc = "clean"
              /\ memory'[b].state = "READY"
           \/ /\ handler'[h].op = "purge"
              /\ memory[b].state \in {"DEPRECATED", "FAILED"} /\ memory'[b].state = "DELETING"
              /\ \/ handler'[h].pc = "clean" /\ memory'[b].hash = NoBuild
                 \/ handler'[h].pc = "store" /\ memory'[b].hash # NoBuild

LEMMA CallHandlers ==
    ASSUME DurableInv, Call
    PROVE  handler' = handler \/ \E h \in Handlers : Begins(h)
<1>0. TypeOK
  BY DEF DurableInv, IndInv
<1>1. ASSUME NEW h \in Handlers, NEW b \in Builds, NEW hash \in Builds, NEW reg \in RegIds,
             Acknowledge(h, b, hash, reg)
      PROVE  handler' = handler \/ Begins(h)
  <2>1. \/ handler' = handler
        \/ handler' = [handler EXCEPT ![h] = [pc |-> "clean", op |-> "ack", build |-> b]]
    BY <1>1 DEF Acknowledge
  <2>2. memory'[b].state = "READY" /\ handler[h] = Idle
    <3>1. PICK rec \in Record : Region(b, rec) /\ rec.state = "READY"
      BY <1>1, AcknowledgeRegion
    <3> QED
      BY <1>1, <3>1, AfterRegion DEF Acknowledge
  <2> QED
    BY <1>0, <2>1, <2>2 DEF TypeOK, Begins
<1>2. ASSUME NEW h \in Handlers, NEW b \in Builds, NEW cmd \in Commands, PurgeStart(h, b, cmd)
      PROVE  handler' = handler \/ Begins(h)
  <2> DEFINE next == FirstPurgeStep(memory[b])
  <2>1. \/ handler' = handler
        \/ handler' = [handler EXCEPT ![h] = [pc |-> next, op |-> "purge", build |-> b]]
    BY <1>2 DEF PurgeStart
  <2>2. /\ memory'[b].state = "DELETING" /\ handler[h] = Idle
        /\ memory'[b].hash = memory[b].hash /\ memory[b].state \in {"DEPRECATED", "FAILED"}
    <3>1. PICK rec \in Record : /\ Region(b, rec) /\ rec.state = "DELETING"
                                /\ memory[b].state \in {"DEPRECATED", "FAILED"}
                                /\ rec.hash = memory[b].hash
      BY <1>2, PurgeStartRegion
    <3> QED
      BY <1>2, <3>1, AfterRegion DEF PurgeStart
  <2>3. \/ next = "clean" /\ memory[b].hash = NoBuild
        \/ next = "store" /\ memory[b].hash # NoBuild
    BY DEF FirstPurgeStep
  <2> HIDE DEF next
  <2>4. CASE handler' = [handler EXCEPT ![h] = [pc |-> next, op |-> "purge", build |-> b]]
    <3>1. /\ handler'[h] = [pc |-> next, op |-> "purge", build |-> b]
          /\ \A g \in Handlers : g # h => handler'[g] = handler[g]
      BY <1>0, <2>4 DEF TypeOK
    <3>2. handler'[h].pc = next /\ handler'[h].op = "purge" /\ handler'[h].build = b
      BY <3>1
    <3> QED
      BY <2>2, <2>3, <3>1, <3>2 DEF Begins
  <2> QED
    BY <2>1, <2>4
<1>3. ASSUME NEW k \in Keys, NEW r \in Requests, SubmitNew(k, r)
      PROVE  handler' = handler
  BY <1>3 DEF SubmitNew
<1>4. ASSUME NEW b \in Builds, Deprecate(b)
      PROVE  handler' = handler
  BY <1>4 DEF Deprecate
<1>5. CASE UNCHANGED process
  BY <1>5 DEF process
<1> QED
  BY <1>1, <1>2, <1>3, <1>4, <1>5
  DEF Call, Submit, Rebuild, SubmitReplay, AcknowledgeReplay, DeprecateReplay, PurgeReplay

\* How a handler goes on: it leaves the store for the workspace when the tree
\* is gone, and the workspace for the record when that is gone.
LEMMA HandlerGoesOn ==
    ASSUME DurableInv, NEW h \in Handlers, HandlerStep(h)
    PROVE  LET b == handler[h].build
           IN  /\ handler[h].pc # "idle" /\ Serving /\ boot' = boot
               /\ worker' = worker /\ active' = active
               /\ \A g \in Handlers : g # h => handler'[g] = handler[g]
               /\ \/ handler'[h] = Idle
                  \/ /\ handler'[h].op = handler[h].op /\ handler'[h].build = b
                     /\ handler[h].pc \in {"store", "remove"} =>
                           \/ handler'[h].pc = "remove" /\ memory' = memory
                           \/ handler'[h].pc = "clean" /\ tree'[b] = "absent"
                     /\ handler[h].pc \in {"clean", "rmtree", "clear"} =>
                           /\ handler'[h].pc \in {"rmtree", "clear", "finish"}
                           /\ tree' = tree /\ memory'[b].hash = memory[b].hash
                     /\ handler[h].pc # "finish"
                     /\ ~Remote /\ handler'[h].pc \in {"clear", "finish"} => ~workspace'[b]
<1> DEFINE b == handler[h].build
           Moved == /\ \A g \in Handlers : g # h => handler'[g] = handler[g]
                    /\ handler'[h].op = handler[h].op /\ handler'[h].build = b
           Done == handler'[h] = Idle /\ \A g \in Handlers : g # h => handler'[g] = handler[g]
<1>0. /\ handler[h].pc # "idle" /\ Serving /\ boot' = boot /\ TypeOK
      /\ worker' = worker /\ active' = active
  BY DEF HandlerStep, PurgeStore, PurgeRemove, CleanCheck, RemoveWorkspace, ClearRaw,
     PurgeFinish, At, Untouched, DurableInv, IndInv
<1>1. b \in Builds
  BY <1>0, HandledHasEnded
<1>2. ASSUME NEW pc \in {"remove", "clean", "rmtree", "clear", "finish"}, MoveTo(h, pc)
      PROVE  Moved /\ handler'[h].pc = pc
  <2>1. pc \in HandlerPcs
    BY DEF HandlerPcs
  <2> QED
    BY <1>0, <1>2, <2>1, HandlerMoves
<1>3. ASSUME UNCHANGED handler
      PROVE  Moved /\ handler'[h].pc = handler[h].pc
  BY <1>3
<1>4. Return(h) => Done
  BY <1>0 DEF TypeOK, Return
<1>5. Cleaned(h) => \/ Done
                    \/ Moved /\ handler'[h].pc = "finish"
  BY <1>2, <1>4 DEF Cleaned
<1>6. ~Remote /\ workspace[b] => memory[b].raw
  BY <1>0, <1>1 DEF DurableInv, OwnedInv, Serving
<1>7. tree \in [Builds -> Trees] /\ workspace \in [Builds -> BOOLEAN]
  BY <1>0 DEF TypeOK
<1>8. CASE PurgeStore(h)
  <2>1. handler[h].pc = "store" /\ memory' = memory
    BY <1>8 DEF PurgeStore, At
  <2>2. \/ Done
        \/ MoveTo(h, "clean") /\ tree'[b] = "absent"
        \/ MoveTo(h, "remove")
    BY <1>1, <1>4, <1>7, <1>8 DEF PurgeStore
  <2> QED
    BY <1>0, <1>2, <2>1, <2>2
<1>9. CASE PurgeRemove(h)
  <2>1. handler[h].pc = "remove" /\ memory' = memory
    BY <1>9 DEF PurgeRemove, At
  <2>2. \/ Done
        \/ MoveTo(h, "clean") /\ tree'[b] = "absent"
        \/ UNCHANGED handler
    BY <1>1, <1>4, <1>7, <1>9 DEF PurgeRemove
  <2> QED
    BY <1>0, <1>2, <1>3, <2>1, <2>2
<1>10. CASE CleanCheck(h)
  <2>1. handler[h].pc = "clean" /\ UNCHANGED <<memory, tree, workspace>>
    BY <1>10 DEF CleanCheck, At, disk
  <2>2. \/ ~memory[b].raw /\ Cleaned(h)
        \/ MoveTo(h, "rmtree")
        \/ ~workspace[b] /\ MoveTo(h, "clear")
    BY <1>10 DEF CleanCheck
  <2> QED
    BY <1>0, <1>2, <1>5, <1>6, <2>1, <2>2
<1>11. CASE RemoveWorkspace(h)
  <2>1. handler[h].pc = "rmtree" /\ UNCHANGED <<memory, tree>>
    BY <1>11 DEF RemoveWorkspace, At
  <2>2. \/ Done
        \/ ~workspace'[b] /\ MoveTo(h, "clear")
    BY <1>1, <1>4, <1>7, <1>11 DEF RemoveWorkspace
  <2> QED
    BY <1>0, <1>2, <2>1, <2>2
<1>12. CASE ClearRaw(h)
  <2>1. handler[h].pc = "clear" /\ UNCHANGED <<tree, workspace>>
    BY <1>12 DEF ClearRaw, At
  <2>2. Cleaned(h) \/ Return(h)
    BY <1>12 DEF ClearRaw
  <2>3. memory'[b].hash = memory[b].hash
    <3>1. memory[b] \in Record
      BY <1>1, InMemory
    <3>2. [memory[b] EXCEPT !.raw = FALSE].hash = memory[b].hash
      BY <3>1 DEF Record
    <3> QED
      BY <1>0, <1>1, <1>12, <3>2, Remembered DEF ClearRaw
  <2>4. ~Remote => ~workspace[b]
    BY <2>1 DEF DurableInv, OwnedInv
  <2> QED
    BY <1>0, <1>4, <1>5, <2>1, <2>2, <2>3, <2>4
<1>13. CASE PurgeFinish(h)
  BY <1>0, <1>4, <1>13 DEF PurgeFinish
<1> QED
  BY <1>8, <1>9, <1>10, <1>11, <1>12, <1>13 DEF HandlerStep

LEMMA WorkerWrites ==
    ASSUME DurableInv, Worker
    PROVE  /\ handler' = handler /\ boot' = boot /\ Serving
           /\ \/ UNCHANGED <<memory, durable>>
              \/ \E b \in Builds, rec \in Record : Region(b, rec) /\ rec.state # "DELETED"
<1>0. handler' = handler /\ boot' = boot /\ Serving
  <2>1. worker # "none"
    BY DEF Worker, WorkerIdle, WorkerPop, WorkerMkdir, WorkerUpdate, WorkerStage,
       WorkerStageRaises, WorkerPublish, WorkerExcept, WorkerFinally
  <2>2. Serving
    BY <2>1, StartingAlone DEF DurableInv
  <2> QED
    BY <2>2 DEF Worker, WorkerIdle, WorkerPop, WorkerMkdir, WorkerUpdate, WorkerStage,
       WorkerStageRaises, WorkerPublish, WorkerExcept, WorkerFinally, Elsewhere
<1>1. "DELETED" \notin Pending \cup Active
  BY DEF Pending, Active
<1>2. CASE WorkerPop
  BY <1>0, <1>1, <1>2, WorkerPopRegion
<1>3. CASE WorkerUpdate
  BY <1>0, <1>1, <1>3, WorkerUpdateRegion, WorkersBuild DEF WorkerUpdate
<1>4. CASE WorkerPublish
  BY <1>0, <1>4, WorkerPublishRegion, WorkersBuild DEF WorkerPublish
<1>5. CASE WorkerExcept
  BY <1>0, <1>5, WorkerExceptRegion, WorkersBuild DEF WorkerExcept
<1>6. CASE WorkerIdle \/ WorkerMkdir \/ WorkerStage \/ WorkerStageRaises \/ WorkerFinally
  BY <1>0, <1>6 DEF WorkerIdle, WorkerMkdir, WorkerStage, WorkerStageRaises, WorkerFinally,
     disk
<1> QED
  BY <1>2, <1>3, <1>4, <1>5, <1>6 DEF Worker

\* Where the process starts, ends or is started again no handler is at work.
LEMMA NobodyHandles ==
    ASSUME DurableInv, Boot \/ Exit \/ Crash
    PROVE  (\A h \in Handlers : handler'[h].pc = "idle") /\ worker' \in {"none", "loop"}
<1>1. CASE Boot
  <2>1. ~Serving
    BY <1>1 DEF Boot, Restart, FailInterrupted, EnqueueNext, RecoverDeleting, RecoverRemove,
       RecoverClean, RecoverClear, RecoverFinish, StartFails, Serve, Serving
  <2>2. (\A h \in Handlers : handler[h].pc = "idle") /\ worker = "none"
    BY <2>1, StartingAlone DEF DurableInv
  <2>3. LoseProcess => (\A h \in Handlers : handler'[h].pc = "idle") /\ worker' = "none"
    BY DEF LoseProcess, Idle
  <2>4. LoseProcess \/ (handler' = handler /\ worker' \in {worker, "loop"})
    BY <1>1 DEF Boot, Restart, FailInterrupted, EnqueueNext, RecoverDeleting, RecoverRemove,
       RecoverClean, RecoverClear, RecoverFinish, StartFails, Serve, Booting
  <2> QED
    BY <2>2, <2>3, <2>4
<1>2. CASE Exit \/ Crash
  BY <1>2 DEF Exit, Crash, LoseProcess, Idle
<1> QED
  BY <1>1, <1>2

\* A handler finds its build as it took it in hand, unless it ends it itself.
LEMMA HandledStays ==
    ASSUME DurableInv, faults = 0, NEW h \in Handlers, handler[h].pc # "idle",
           \/ UNCHANGED memory
           \/ \E b \in Builds, rec \in Record :
                 /\ Region(b, rec)
                 /\ \/ rec.state = memory[b].state \/ rec.state # "DELETED"
                    \/ handler[h].op = "purge" => handler[h].build # b
    PROVE  LET c == handler[h].build
           IN  /\ handler[h].op = "ack" => memory'[c].state \in Acknowledged
               /\ handler[h].op = "purge" => memory'[c].state = "DELETING"
<1> DEFINE c == handler[h].build
<1>1. /\ handler[h].op = "ack" => memory[c].state \in Acknowledged
      /\ handler[h].op = "purge" => memory[c].state = "DELETING"
  BY DEF DurableInv, ActorsInv, Purging
<1>2. c \in Builds
  BY HandledHasEnded
<1>3. CASE UNCHANGED memory
  BY <1>1, <1>3
<1>4. ASSUME NEW b \in Builds, NEW rec \in Record, Region(b, rec),
             \/ rec.state = memory[b].state \/ rec.state # "DELETED"
             \/ handler[h].op = "purge" => handler[h].build # b
      PROVE  /\ handler[h].op = "ack" => memory'[c].state \in Acknowledged
             /\ handler[h].op = "purge" => memory'[c].state = "DELETING"
  <2>1. /\ memory'[b] = rec /\ \A d \in Builds : d # b => memory'[d] = memory[d]
    BY <1>4, AfterRegion
  <2>2. rec.state = memory[b].state \/ rec.state \in Successors[memory[b].state]
    BY <1>4 DEF Region
  <2>3. CASE c # b
    BY <1>1, <1>2, <2>1, <2>3
  <2>4. CASE c = b
    <3>1. handler[h].op = "ack" => rec.state \in Acknowledged
      BY <1>1, <2>2, <2>4 DEF Acknowledged, Successors
    <3>2. handler[h].op = "purge" => rec.state = "DELETING"
      BY <1>1, <1>4, <2>2, <2>4 DEF Successors
    <3> QED
      BY <2>1, <2>4, <3>1, <3>2
  <2> QED
    BY <2>3, <2>4
<1> QED
  BY <1>3, <1>4

\* The worker gives up a build only while it is in progress.
LEMMA WorkerGivesUp ==
    ASSUME DurableInv, [Next]_vars, faults' = 0, worker' = "except"
    PROVE  memory'[active'].state \in InProgress
<1>0. faults = 0 /\ TypeOK
  BY FaultsStay DEF DurableInv, IndInv
<1>1. worker = "except" => active \in Builds /\ memory[active].state \in InProgress
  BY <1>0, WorkersBuild DEF DurableInv, ActorsInv
<1>2. ASSUME worker' = worker \/ worker' = Notified, active' = active,
             \/ UNCHANGED memory
             \/ \E b \in Builds, rec \in Record :
                   Region(b, rec) /\ memory[b].state \notin InProgress
      PROVE  memory'[active'].state \in InProgress
  <2>1. worker = "except"
    BY <1>2 DEF Notified
  <2> QED
    BY <1>1, <1>2, <2>1, AfterRegion
<1>3. CASE Call
  <2>1. (worker' = worker \/ worker' = Notified) /\ active' = active
    BY <1>3 DEF Call, Submit, Rebuild, SubmitNew, SubmitReplay, Acknowledge, AcknowledgeReplay,
       Deprecate, DeprecateReplay, PurgeStart, PurgeReplay, process
  <2> QED
    BY <1>2, <1>3, <2>1, CallWrites
<1>4. ASSUME NEW h \in Handlers, HandlerStep(h)
      PROVE  memory'[active'].state \in InProgress
  <2>1. handler[h].pc # "idle" /\ worker' = worker /\ active' = active
    BY <1>4, HandlerGoesOn
  <2>2. handler[h].build \in Builds /\ memory[handler[h].build].state \notin InProgress
    BY <2>1, HandledHasEnded
  <2> QED
    BY <1>2, <1>4, <2>1, <2>2, HandlerWrites
<1>5. CASE Worker
  <2>1. \A b, rec : ~NotSaved(b, rec)
    BY <1>0 DEF NotSaved, Fault
  <2>2. UNCHANGED <<memory, active>> /\ worker \in {"mkdir", "work"}
    BY <1>5, <2>1 DEF Worker, WorkerIdle, WorkerPop, WorkerMkdir, WorkerUpdate, WorkerStage,
       WorkerStageRaises, WorkerPublish, WorkerExcept, WorkerFinally
  <2> QED
    BY <2>2, WorkersBuild
<1>6. CASE Close \/ UNCHANGED vars
  BY <1>2, <1>6 DEF Close, vars
<1>7. CASE Boot \/ Exit \/ Crash
  BY <1>7, NobodyHandles
<1> QED
  BY <1>3, <1>4, <1>5, <1>6, <1>7 DEF Next

LEMMA ActorsInvStep ==
    ASSUME DurableInv, [Next]_vars
    PROVE  ActorsInv'
<1> DEFINE Kept(h) == LET c == handler'[h].build IN
                      /\ handler'[h].op = "ack" => memory'[c].state \in Acknowledged
                      /\ handler'[h].op = "purge" => memory'[c].state = "DELETING"
           Alone(h) == \A g \in Handlers : Purging(g)' /\ g # h
                                              => handler'[g].build # handler'[h].build
<1> SUFFICES ASSUME faults' = 0
             PROVE  /\ worker' = "except" => memory'[active'].state \in InProgress
                    /\ \A h \in Handlers : handler'[h].pc # "idle" => Kept(h)
                    /\ \A h \in Handlers : Purging(h)' => Alone(h)
  BY DEF ActorsInv, Purging
<1>0. faults = 0
  BY FaultsStay DEF DurableInv, IndInv
<1>1. worker' = "except" => memory'[active'].state \in InProgress
  BY WorkerGivesUp
<1>2. \A h, g \in Handlers : Purging(h) /\ Purging(g) /\ g # h
                                => handler[g].build # handler[h].build
  BY <1>0 DEF DurableInv, ActorsInv
<1>3. \A h \in Handlers : Purging(h) => memory[handler[h].build].state = "DELETING"
  BY <1>0 DEF DurableInv, ActorsInv
<1> DEFINE Goal == /\ \A h \in Handlers : handler'[h].pc # "idle" => Kept(h)
                   /\ \A h \in Handlers : Purging(h)' => Alone(h)
<1>4. ASSUME handler' = handler,
             \/ UNCHANGED memory
             \/ \E b \in Builds, rec \in Record : Region(b, rec) /\ rec.state # "DELETED"
      PROVE  Goal
  <2>1. \A h \in Handlers : handler[h].pc # "idle" => Kept(h)
    BY <1>0, <1>4, HandledStays
  <2> QED
    BY <1>2, <1>4, <2>1 DEF Purging
<1>5. CASE Call
  <2>1. \/ UNCHANGED memory
        \/ \E b \in Builds, rec \in Record : Region(b, rec) /\ rec.state # "DELETED"
    BY <1>5, CallWrites
  <2>2. ASSUME NEW h \in Handlers, Begins(h)
        PROVE  Goal
    <3>1. /\ handler[h] = Idle /\ \A g \in Handlers : g # h => handler'[g] = handler[g]
          /\ handler'[h].op = "ack" => memory'[handler'[h].build].state = "READY"
          /\ handler'[h].op = "purge" =>
                /\ memory[handler'[h].build].state \in {"DEPRECATED", "FAILED"}
                /\ memory'[handler'[h].build].state = "DELETING"
      BY <2>2 DEF Begins
    <3>2. \A g \in Handlers : g # h /\ handler[g].pc # "idle" => Kept(g)
      BY <1>0, <2>1, <3>1, HandledStays
    <3>3. Kept(h)
      BY <3>1 DEF Acknowledged
    <3>4. \A g \in Handlers : g # h /\ Purging(g) /\ handler'[h].op = "purge"
                                 => handler[g].build # handler'[h].build
      BY <1>3, <3>1
    <3> QED
      BY <1>2, <3>1, <3>2, <3>3, <3>4 DEF Purging
  <2> QED
    BY <1>1, <1>4, <1>5, <2>1, <2>2, CallHandlers
<1>6. ASSUME NEW h \in Handlers, HandlerStep(h)
      PROVE  Goal
  <2>1. /\ handler[h].pc # "idle"
        /\ \A g \in Handlers : g # h => handler'[g] = handler[g]
        /\ \/ handler'[h] = Idle
           \/ handler'[h].op = handler[h].op /\ handler'[h].build = handler[h].build
    BY <1>6, HandlerGoesOn
  <2>2. handler[h].build \in Builds
    BY <2>1, HandledHasEnded
  <2>3. \/ UNCHANGED memory
        \/ \E rec \in Record :
                 /\ Region(handler[h].build, rec)
                 /\ \/ rec.state = memory[handler[h].build].state
                    \/ Purging(h) /\ handler'[h] = Idle
    BY <1>6, HandlerWrites DEF Purging
  <2>4. ASSUME NEW g \in Handlers, handler'[g].pc # "idle"
        PROVE  Kept(g) /\ handler[g].pc # "idle" /\ handler'[g].op = handler[g].op
                       /\ handler'[g].build = handler[g].build
    <3>1. /\ handler'[g].op = handler[g].op /\ handler'[g].build = handler[g].build
          /\ handler[g].pc # "idle" /\ (g = h => handler'[h] # Idle)
      BY <2>1, <2>4 DEF Idle
    <3>2. \/ UNCHANGED memory
          \/ \E b \in Builds, rec \in Record :
                 /\ Region(b, rec)
                 /\ \/ rec.state = memory[b].state \/ rec.state # "DELETED"
                    \/ handler[g].op = "purge" => handler[g].build # b
      BY <1>2, <2>2, <2>3, <3>1 DEF Purging
    <3> QED
      BY <1>0, <3>1, <3>2, HandledStays
  <2> QED
    BY <1>2, <2>4 DEF Purging
<1>7. CASE Worker
  BY <1>1, <1>4, <1>7, WorkerWrites
<1>8. CASE Close \/ UNCHANGED vars
  BY <1>1, <1>4, <1>8 DEF Close, vars
<1>9. CASE Boot \/ Exit \/ Crash
  BY <1>1, <1>9, NobodyHandles DEF Purging
<1> QED
  BY <1>1, <1>5, <1>6, <1>7, <1>8, <1>9 DEF Next
-----------------------------------------------------------------------------
(* Trees and workspaces                                                    *)

\* Only the worker brings files into being, and only of its own build.
LEMMA FilesStay ==
    ASSUME DurableInv, [Next]_vars, NEW b \in Builds
    PROVE  /\ tree[b] \in Gone => tree'[b] \in Gone \/ memory[b].state \in InProgress
           /\ workspace'[b] => workspace[b] \/ (worker = "mkdir" /\ b = active)
<1>0. tree \in [Builds -> Trees] /\ workspace \in [Builds -> BOOLEAN]
  BY DEF DurableInv, IndInv, TypeOK
<1>1. ASSUME UNCHANGED tree
      PROVE  tree[b] \in Gone => tree'[b] \in Gone
  BY <1>1
<1>2. ASSUME NEW c, NEW t \in Removing(tree[c]) \cup {"absent"}, tree' = [tree EXCEPT ![c] = t]
      PROVE  tree[b] \in Gone => tree'[b] \in Gone
  BY <1>0, <1>2 DEF Removing, Gone
<1>3. ASSUME worker = "work", tree' = [tree EXCEPT ![active] = "complete"]
      PROVE  tree[b] \in Gone => tree'[b] \in Gone \/ memory[b].state \in InProgress
  <2>1. memory[active].state \in InProgress
    BY <1>3, WorkersBuild
  <2> QED
    BY <1>0, <1>3, <2>1
<1>4. CASE Call
  <2>1. UNCHANGED <<tree, workspace>>
    BY <1>4 DEF Call, Submit, Rebuild, SubmitNew, SubmitReplay, Acknowledge,
       AcknowledgeReplay, Deprecate, DeprecateReplay, PurgeStart, PurgeReplay, disk
  <2> QED
    BY <2>1
<1>5. ASSUME NEW h \in Handlers, HandlerStep(h)
      PROVE  /\ tree[b] \in Gone => tree'[b] \in Gone
             /\ workspace'[b] => workspace[b]
  <2>1. \/ UNCHANGED tree
        \/ \E c : \E t \in Removing(tree[c]) \cup {"absent"} : tree' = [tree EXCEPT ![c] = t]
    <3>1. CASE PurgeStore(h)
      BY <3>1 DEF PurgeStore
    <3>2. CASE PurgeRemove(h)
      BY <3>2 DEF PurgeRemove
    <3>3. CASE CleanCheck(h) \/ RemoveWorkspace(h) \/ ClearRaw(h) \/ PurgeFinish(h)
      BY <3>3 DEF CleanCheck, RemoveWorkspace, ClearRaw, PurgeFinish, disk
    <3> QED
      BY <1>5, <3>1, <3>2, <3>3 DEF HandlerStep
  <2>2. UNCHANGED workspace \/ \E c : workspace' = [workspace EXCEPT ![c] = FALSE]
    BY <1>5 DEF HandlerStep, PurgeStore, PurgeRemove, CleanCheck, RemoveWorkspace, ClearRaw,
       PurgeFinish, disk
  <2> QED
    BY <1>0, <1>1, <1>2, <2>1, <2>2
<1>6. CASE Worker
  <2>1. UNCHANGED tree \/ (worker = "work" /\ tree' = [tree EXCEPT ![active] = "complete"])
    BY <1>6 DEF Worker, WorkerIdle, WorkerPop, WorkerMkdir, WorkerUpdate, WorkerStage,
       WorkerStageRaises, WorkerPublish, WorkerExcept, WorkerFinally, disk
  <2>2. \/ UNCHANGED workspace
        \/ worker = "mkdir" /\ workspace' = [workspace EXCEPT ![active] = TRUE]
    BY <1>6 DEF Worker, WorkerIdle, WorkerPop, WorkerMkdir, WorkerUpdate, WorkerStage,
       WorkerStageRaises, WorkerPublish, WorkerExcept, WorkerFinally, disk
  <2> QED
    BY <1>0, <1>1, <1>3, <2>1, <2>2
<1>7. CASE Boot
  <2>1. \/ UNCHANGED tree
        \/ \E c : \E t \in Removing(tree[c]) \cup {"absent"} : tree' = [tree EXCEPT ![c] = t]
    <3>1. CASE \E c \in Builds : RecoverDeleting(c)
      BY <3>1 DEF RecoverDeleting
    <3>2. CASE RecoverRemove
      BY <3>2 DEF RecoverRemove
    <3>3. CASE \/ Restart \/ RecoverClean \/ RecoverClear \/ RecoverFinish \/ StartFails \/ Serve
               \/ \E c \in Builds : FailInterrupted(c) \/ EnqueueNext(c)
      BY <3>3 DEF Restart, RecoverClean, RecoverClear, RecoverFinish, StartFails, Serve,
         FailInterrupted, EnqueueNext, LoseProcess, disk
    <3> QED
      BY <1>7, <3>1, <3>2, <3>3 DEF Boot
  <2>2. \A c \in Builds : workspace'[c] => workspace[c]
    <3>1. CASE RecoverClean
      BY <1>0, <3>1 DEF RecoverClean
    <3>2. CASE \/ Restart \/ RecoverRemove \/ RecoverClear \/ RecoverFinish \/ StartFails \/ Serve
               \/ \E c \in Builds : FailInterrupted(c) \/ EnqueueNext(c) \/ RecoverDeleting(c)
      BY <3>2 DEF Restart, RecoverRemove, RecoverClear, RecoverFinish, StartFails, Serve,
         FailInterrupted, EnqueueNext, RecoverDeleting, disk
    <3> QED
      BY <1>7, <3>1, <3>2 DEF Boot
  <2> QED
    BY <1>1, <1>2, <2>1, <2>2
<1>8. CASE Close \/ Exit \/ Crash \/ UNCHANGED vars
  <2>1. UNCHANGED tree /\ (workspace' = workspace \/ workspace' = [c \in Builds |-> FALSE])
    BY <1>8 DEF Close, Exit, Crash, LoseProcess, vars, disk
  <2> QED
    BY <1>1, <2>1
<1>9. CASE \E h \in Handlers : HandlerStep(h)
  BY <1>5, <1>9
<1> QED
  BY <1>4, <1>6, <1>7, <1>8, <1>9 DEF Next

\* The hash of a build that is not in progress stays, as long as the process
\* that knows it runs.
LEMMA HashStays ==
    ASSUME DurableInv, [Next]_vars, NEW b \in Builds,
           memory[b].state \notin InProgress \cup {"ABSENT"}
    PROVE  memory'[b].hash = memory[b].hash \/ (memory'[b] = NoRecord /\ LoseProcess)
<1>1. CASE Wrote
  <2>1. PICK c \in Builds, rec \in Record : Region(c, rec)
    BY <1>1 DEF Wrote
  <2>2. memory'[c] = rec /\ \A d \in Builds : d # c => memory'[d] = memory[d]
    BY <2>1, AfterRegion
  <2>3. rec.hash = memory[c].hash \/ memory[c].state = "VERIFYING"
    BY <2>1 DEF Region
  <2> QED
    BY <2>2, <2>3 DEF InProgress, Active
<1>2. CASE LoseProcess
  BY <1>2 DEF LoseProcess
<1>3. CASE Restart
  BY <1>3 DEF Restart, DurableInv, IndInv, BootInv, NoRecord
<1>4. CASE Still \/ \E c \in Builds : EnqueueNext(c)
  BY <1>4 DEF Still, EnqueueNext
<1> QED
  BY <1>1, <1>2, <1>3, <1>4, StepKind

HandlerGone(h) ==
    /\ handler[h].op = "purge" /\ handler[h].pc \in {"clean", "rmtree", "clear", "finish"}
         => Removed(handler[h].build)
    /\ handler[h].pc \in {"store", "remove"} => memory[handler[h].build].hash # NoBuild
HandlerOwned(h) == handler[h].pc \in {"clear", "finish"} => ~workspace[handler[h].build]

\* A handler that does not move finds what it left.
LEMMA WaitingHandler ==
    ASSUME DurableInv, [Next]_vars, NEW h \in Handlers, handler'[h] = handler[h]
    PROVE  HandlerGone(h)' /\ (~Remote => HandlerOwned(h)')
<1> DEFINE b == handler[h].build
<1>1. CASE handler[h].pc = "idle"
  BY <1>1 DEF HandlerGone, HandlerOwned
<1>2. CASE handler[h].pc # "idle"
  <2>1. b \in Builds /\ memory[b].state \notin InProgress \cup {"ABSENT"}
    BY <1>2, HandledHasEnded
  <2>2. LoseProcess => handler'[h].pc = "idle"
    BY DEF LoseProcess, Idle
  <2>3. memory'[b].hash = memory[b].hash
    BY <1>2, <2>1, <2>2, HashStays
  <2>4. tree[b] \in Gone => tree'[b] \in Gone
    BY <2>1, FilesStay
  <2>5. worker = "mkdir" => b # active
    BY <2>1, WorkersBuild
  <2>6. workspace'[b] => workspace[b]
    BY <2>1, <2>5, FilesStay
  <2> QED
    BY <2>3, <2>4, <2>6 DEF DurableInv, GoneInv, OwnedInv, HandlerGone, HandlerOwned, Removed
<1> QED
  BY <1>1, <1>2

\* A handler that goes on leaves behind what its next step relies on.
LEMMA HandlersKept ==
    ASSUME DurableInv, [Next]_vars, NEW h \in Handlers
    PROVE  HandlerGone(h)' /\ (~Remote => HandlerOwned(h)')
<1>0. "absent" \in Gone /\ "clean" \notin {"store", "remove"}
  BY DEF Gone
<1>1. ASSUME handler'[h].pc = "idle"
      PROVE  HandlerGone(h)' /\ HandlerOwned(h)'
  BY <1>1 DEF HandlerGone, HandlerOwned
<1>2. ASSUME NEW g \in Handlers, Begins(g)
      PROVE  HandlerGone(h)' /\ (~Remote => HandlerOwned(h)')
  <2>1. CASE g = h
    BY <1>2, <2>1 DEF Begins, HandlerGone, HandlerOwned, Removed
  <2>2. CASE g # h
    BY <1>2, <2>2, WaitingHandler DEF Begins
  <2> QED
    BY <2>1, <2>2
<1>3. ASSUME NEW g \in Handlers, HandlerStep(g)
      PROVE  HandlerGone(h)' /\ (~Remote => HandlerOwned(h)')
  <2>1. CASE g # h
    BY <1>3, <2>1, HandlerGoesOn, WaitingHandler
  <2>2. CASE g = h
    <3> DEFINE b == handler[h].build
    <3>1. /\ handler[h].pc # "idle"
          /\ \/ handler'[h] = Idle
             \/ /\ handler'[h].op = handler[h].op /\ handler'[h].build = b
                /\ handler[h].pc \in {"store", "remove"} =>
                      \/ handler'[h].pc = "remove" /\ memory' = memory
                      \/ handler'[h].pc = "clean" /\ tree'[b] = "absent"
                /\ handler[h].pc \in {"clean", "rmtree", "clear"} =>
                      /\ handler'[h].pc \in {"rmtree", "clear", "finish"}
                      /\ tree' = tree /\ memory'[b].hash = memory[b].hash
                /\ handler[h].pc # "finish"
                /\ ~Remote /\ handler'[h].pc \in {"clear", "finish"} => ~workspace'[b]
      BY <1>3, <2>2, HandlerGoesOn
    <3>2. handler[h].pc \in HandlerPcs
      BY <3>1, ActingHandler DEF DurableInv
    <3>3. HandlerGone(h)
      BY DEF DurableInv, GoneInv, HandlerGone
    <3>4. CASE handler'[h] = Idle
      BY <1>1, <3>4 DEF Idle
    <3>5. CASE handler[h].pc \in {"store", "remove"} /\ handler'[h] # Idle
      <4>1. CASE handler'[h].pc = "remove" /\ memory' = memory
        BY <3>1, <3>3, <3>5, <4>1 DEF HandlerGone, HandlerOwned
      <4>2. CASE handler'[h].pc = "clean" /\ tree'[b] = "absent"
        BY <1>0, <3>1, <3>5, <4>2 DEF HandlerGone, HandlerOwned, Removed, Gone
      <4> QED
        BY <3>1, <3>5, <4>1, <4>2
    <3>6. CASE handler[h].pc \in {"clean", "rmtree", "clear"} /\ handler'[h] # Idle
      BY <3>1, <3>3, <3>6 DEF HandlerGone, HandlerOwned, Removed, Gone
    <3> QED
      BY <3>1, <3>2, <3>4, <3>5, <3>6 DEF HandlerPcs
  <2> QED
    BY <2>1, <2>2
<1>4. CASE handler' = handler
  BY <1>4, WaitingHandler
<1>5. CASE Call
  BY <1>2, <1>4, <1>5, CallHandlers
<1>6. CASE Worker
  BY <1>4, <1>6, WorkerWrites
<1>7. CASE Boot \/ Exit \/ Crash
  BY <1>1, <1>7, NobodyHandles
<1>8. CASE Close \/ UNCHANGED vars
  BY <1>4, <1>8 DEF Close, vars
<1> QED
  BY <1>3, <1>5, <1>6, <1>7, <1>8 DEF Next

BootGone ==
    /\ boot.pc \in {"cleaning", "clearing", "finishing"} => Removed(boot.build)
    /\ boot.pc = "removing" => memory[boot.build].hash # NoBuild
BootOwned == boot.pc \in {"clearing", "finishing"} => ~workspace[boot.build]

\* So does the recovery.
LEMMA BootKept ==
    ASSUME DurableInv, [Next]_vars
    PROVE  BootGone' /\ (~Remote => BootOwned')
<1> DEFINE b == boot.build
           Elsewhere1 == boot'.pc \notin {"removing", "cleaning", "clearing", "finishing"}
<1>0. /\ BootGone /\ (~Remote => BootOwned) /\ TypeOK /\ boot \in BootRecord
      /\ boot.pc \in {"removing", "cleaning", "clearing", "finishing"} =>
            b \in Builds /\ memory[b].state = "DELETING"
  BY DEF DurableInv, IndInv, BootInv, GoneInv, OwnedInv, BootGone, BootOwned, TypeOK, BootRecord
<1>1. ASSUME boot' = boot
      PROVE  BootGone' /\ (~Remote => BootOwned')
  <2>1. CASE boot.pc \in {"removing", "cleaning", "clearing", "finishing"}
    <3>1. b \in Builds /\ memory[b].state \notin InProgress \cup {"ABSENT"}
      BY <1>0, <2>1 DEF InProgress, Pending, Active
    <3>2. ~LoseProcess
      BY <1>1, <2>1 DEF LoseProcess
    <3>3. memory'[b].hash = memory[b].hash
      BY <3>1, <3>2, HashStays
    <3>4. /\ tree[b] \in Gone => tree'[b] \in Gone
          /\ workspace'[b] => workspace[b]
      BY <3>1, FilesStay, WorkersBuild
    <3> QED
      BY <1>0, <1>1, <3>3, <3>4 DEF BootGone, BootOwned, Removed
  <2>2. CASE boot.pc \notin {"removing", "cleaning", "clearing", "finishing"}
    BY <1>1, <2>2 DEF BootGone, BootOwned
  <2> QED
    BY <2>1, <2>2
<1>2. ASSUME Elsewhere1
      PROVE  BootGone' /\ BootOwned'
  BY <1>2 DEF BootGone, BootOwned
<1>3. ASSUME NEW c \in Builds, RecoverDeleting(c)
      PROVE  BootGone' /\ BootOwned'
  <2>1. memory' = memory /\ boot'.build = c
    BY <1>3 DEF RecoverDeleting, BootAt
  <2>2. \/ /\ boot'.pc = "cleaning"
           /\ memory[c].hash = NoBuild \/ tree'[c] \in Gone
        \/ boot'.pc = "removing" /\ memory[c].hash # NoBuild
    BY <1>0, <1>3 DEF RecoverDeleting, BootAt, Gone, TypeOK
  <2> QED
    BY <2>1, <2>2 DEF BootGone, BootOwned, Removed, Gone
<1>4. CASE RecoverRemove
  <2>1. memory' = memory /\ boot.pc = "removing"
    BY <1>4 DEF RecoverRemove
  <2>2. \/ boot' = boot
        \/ boot'.pc = "cleaning" /\ boot'.build = b /\ tree'[b] = "absent"
    BY <1>0, <1>4, <2>1 DEF RecoverRemove, BootAt, TypeOK
  <2>3. "absent" \in Gone
    BY DEF Gone
  <2> QED
    BY <1>1, <2>1, <2>2, <2>3 DEF BootGone, BootOwned, Removed, Gone
<1>5. CASE RecoverClean
  <2>1. /\ UNCHANGED <<memory, tree>> /\ boot.pc = "cleaning" /\ boot'.build = b
        /\ boot'.pc \in {"clearing", "finishing"}
        /\ workspace' = [workspace EXCEPT ![b] = workspace[b] /\ ~memory[b].raw]
    BY <1>5 DEF RecoverClean, BootAt
  <2>2. b \in Builds /\ (~Remote /\ workspace[b] => memory[b].raw)
    BY <1>0, <2>1 DEF DurableInv, OwnedInv
  <2>3. ~Remote => ~workspace'[b]
    BY <1>0, <2>1, <2>2 DEF TypeOK
  <2> QED
    BY <1>0, <2>1, <2>3 DEF BootGone, BootOwned, Removed, Gone
<1>6. CASE RecoverClear
  <2>1. /\ UNCHANGED <<tree, workspace>> /\ boot.pc = "clearing" /\ boot'.build = b
        /\ boot'.pc = "finishing" /\ boot'.pc # "down"
    BY <1>6 DEF RecoverClear, BootAt
  <2>2. b \in Builds /\ memory[b].state \notin InProgress \cup {"ABSENT"} /\ ~LoseProcess
    BY <1>0, <2>1 DEF InProgress, Pending, Active, LoseProcess
  <2>3. memory'[b].hash = memory[b].hash
    BY <2>2, HashStays
  <2> QED
    BY <1>0, <2>1, <2>3 DEF BootGone, BootOwned, Removed, Gone
<1>7. CASE RecoverFinish \/ Restart \/ StartFails \/ Serve \/ Exit \/ Crash
  BY <1>2, <1>7 DEF RecoverFinish, Restart, StartFails, Serve, Exit, Crash, LoseProcess, BootAt
<1>8. CASE \E c \in Builds : FailInterrupted(c) \/ EnqueueNext(c)
  BY <1>1, <1>8 DEF FailInterrupted, EnqueueNext
<1>9. CASE Call
  BY <1>1, <1>9 DEF Call, Submit, Rebuild, SubmitNew, SubmitReplay, Acknowledge,
     AcknowledgeReplay, Deprecate, DeprecateReplay, PurgeStart, PurgeReplay, process
<1>10. CASE \E h \in Handlers : HandlerStep(h)
  BY <1>1, <1>10, HandlerGoesOn
<1>11. CASE Worker
  BY <1>1, <1>11, WorkerWrites
<1>12. CASE Close \/ UNCHANGED vars
  BY <1>1, <1>12 DEF Close, vars
<1> QED
  BY <1>3, <1>4, <1>5, <1>6, <1>7, <1>8, <1>9, <1>10, <1>11, <1>12 DEF Next, Boot

\* A build that is DELETED stays without its files.
LEMMA DeletedKept ==
    ASSUME DurableInv, [Next]_vars, NEW b \in Builds,
           NEW rec \in {memory'[b], durable'[b]}, rec.state = "DELETED"
    PROVE  /\ rec.hash # NoBuild => tree'[b] \in Gone
           /\ ~Remote => ~workspace'[b]
<1>0. \A old \in {memory[b], durable[b]} : old.state = "DELETED" =>
         /\ old.hash # NoBuild => tree[b] \in Gone
         /\ ~Remote => ~workspace[b]
  BY DEF DurableInv, GoneInv
<1>1. CASE Wrote
  <2>1. PICK c \in Builds, new \in Record : Region(c, new)
    BY <1>1 DEF Wrote
  <2>2. /\ memory'[c] = new /\ durable'[c] \in {durable[c], Serialize(new)}
        /\ \A d \in Builds : d # c => memory'[d] = memory[d] /\ durable'[d] = durable[d]
    BY <2>1, AfterRegion
  <2>3. /\ UNCHANGED <<tree, workspace>>
        /\ new.state = "DELETED" => /\ new.hash # NoBuild => tree[c] \in Gone
                                    /\ ~Remote => ~workspace[c]
    BY <2>1 DEF Region
  <2>4. Serialize(new).state = new.state /\ Serialize(new).hash = new.hash
    BY SerializeKeeps
  <2>5. CASE rec \in {memory[b], durable[b]}
    BY <1>0, <2>3, <2>5
  <2>6. CASE b = c /\ rec \in {new, Serialize(new)}
    BY <2>3, <2>4, <2>6
  <2> QED
    BY <2>2, <2>5, <2>6
<1>2. ASSUME rec \in {memory[b], durable[b]}
      PROVE  /\ rec.hash # NoBuild => tree'[b] \in Gone
             /\ ~Remote => ~workspace'[b]
  <2>1. memory[b].state \notin InProgress
    <3>1. "DELETED" \notin InProgress \cup {"ABSENT"} /\ "ABSENT" \notin InProgress
      BY DEF InProgress, Pending, Active
    <3>2. CASE boot.pc = "down"
      BY <3>1, <3>2 DEF DurableInv, IndInv, BootInv, NoRecord
    <3>3. CASE boot.pc # "down"
      BY <1>2, <3>1, <3>3 DEF DurableInv, RecordInv
    <3> QED
      BY <3>2, <3>3
  <2>2. /\ tree[b] \in Gone => tree'[b] \in Gone
        /\ workspace'[b] => workspace[b]
    BY <2>1, FilesStay, WorkersBuild
  <2> QED
    BY <1>0, <1>2, <2>2
<1>3. ASSUME NEW c \in Builds, EnqueueNext(c)
      PROVE  rec \in {memory[b], durable[b]}
  <2>1. /\ memory' = memory /\ durable' = [durable EXCEPT ![c] = Serialize(memory[c])]
        /\ memory[c].state = "QUEUED" /\ durable \in [Builds -> Record]
    BY <1>3 DEF EnqueueNext, Saved, Unqueued, DurableInv, IndInv, TypeOK
  <2>2. Serialize(memory[c]).state = "QUEUED"
    BY <2>1, InMemory, SerializeKeeps
  <2> QED
    BY <2>1, <2>2
<1>4. CASE Restart
  <2>1. durable' = durable /\ durable[b] \in Record
        /\ memory'[b] = IF durable[b].state \in Pending
                        THEN [durable[b] EXCEPT !.state = "QUEUED"] ELSE durable[b]
    BY <1>4, InMemory DEF Restart, disk
  <2>2. [durable[b] EXCEPT !.state = "QUEUED"].state = "QUEUED"
    BY <2>1 DEF Record
  <2>3. rec = durable[b]
    BY <2>1, <2>2
  <2> QED
    BY <1>2, <2>3
<1>5. CASE LoseProcess
  <2>1. durable' = durable /\ memory'[b].state = "ABSENT"
    BY <1>5 DEF LoseProcess, NoRecord
  <2> QED
    BY <1>2, <2>1
<1>6. CASE Still
  BY <1>2, <1>6 DEF Still
<1> QED
  BY <1>1, <1>2, <1>3, <1>4, <1>5, <1>6, StepKind

LEMMA GoneInvStep ==
    ASSUME DurableInv, [Next]_vars
    PROVE  GoneInv'
<1>1. \A h \in Handlers : HandlerGone(h)'
  BY HandlersKept
<1>2. BootGone'
  BY BootKept
<1>3. \A b \in Builds : \A rec \in {memory'[b], durable'[b]} : rec.state = "DELETED" =>
         /\ rec.hash # NoBuild => tree'[b] \in Gone
         /\ ~Remote => ~workspace'[b]
  BY DeletedKept
<1> QED
  BY <1>1, <1>2, <1>3 DEF GoneInv, HandlerGone, BootGone, Gone, Removed

\* The workspace that the worker is about to create is named by the record
\* that it has just saved.
LEMMA MkdirIsNamed ==
    ASSUME DurableInv, [Next]_vars, ~Remote, worker' = "mkdir"
    PROVE  durable'[active'].raw /\ memory'[active'].raw
<1>0. TypeOK
  BY DEF DurableInv, IndInv
<1>1. worker = "mkdir" => /\ durable[active].raw /\ memory[active].raw
                          /\ active \in Builds /\ memory[active].state \in InProgress
  BY WorkersBuild DEF DurableInv, OwnedInv
<1>2. ASSUME worker' = worker \/ worker' = Notified, active' = active,
             \/ UNCHANGED <<memory, durable>>
             \/ \E b \in Builds, rec \in Record :
                   Region(b, rec) /\ memory[b].state \notin InProgress
      PROVE  durable'[active'].raw /\ memory'[active'].raw
  <2>1. worker = "mkdir"
    BY <1>2 DEF Notified
  <2> QED
    BY <1>1, <1>2, <2>1, AfterRegion
<1>3. CASE Call
  <2>1. (worker' = worker \/ worker' = Notified) /\ active' = active
    BY <1>3 DEF Call, Submit, Rebuild, SubmitNew, SubmitReplay, Acknowledge, AcknowledgeReplay,
       Deprecate, DeprecateReplay, PurgeStart, PurgeReplay, process
  <2> QED
    BY <1>2, <1>3, <2>1, CallWrites
<1>4. ASSUME NEW h \in Handlers, HandlerStep(h)
      PROVE  durable'[active'].raw /\ memory'[active'].raw
  <2>1. handler[h].pc # "idle" /\ worker' = worker /\ active' = active
    BY <1>4, HandlerGoesOn
  <2>2. handler[h].build \in Builds /\ memory[handler[h].build].state \notin InProgress
    BY <2>1, HandledHasEnded
  <2> QED
    BY <1>2, <1>4, <2>1, <2>2, HandlerWrites
<1>5. CASE Worker
  <2>1. WorkerPop
    BY <1>5 DEF Worker, WorkerIdle, WorkerPop, WorkerMkdir, WorkerUpdate, WorkerStage,
       WorkerStageRaises, WorkerPublish, WorkerExcept, WorkerFinally
  <2>2. PICK b \in Builds, rec \in Record :
                /\ Region(b, rec) /\ rec.raw /\ active' = b /\ Saved(b, rec)
    BY <2>1, WorkerPopRegion
  <2>3. memory'[b] = rec /\ durable'[b] = Serialize(rec)
    BY <1>0, <2>2, AfterRegion, SerializeKeeps DEF Saved, TypeOK
  <2> QED
    BY <2>2, <2>3, SerializeKeeps
<1>6. CASE Close \/ UNCHANGED vars
  BY <1>2, <1>6 DEF Close, vars, disk
<1>7. CASE Boot \/ Exit \/ Crash
  BY <1>7, NobodyHandles
<1> QED
  BY <1>3, <1>4, <1>5, <1>6, <1>7 DEF Next

LEMMA WorkspaceIsNamed ==
    ASSUME DurableInv, [Next]_vars, ~Remote, NEW b \in Builds, workspace'[b]
    PROVE  durable'[b].raw /\ (boot'.pc # "down" => memory'[b].raw)
<1>1. workspace[b] \/ (worker = "mkdir" /\ b = active)
  BY FilesStay
<1>2. durable[b].raw /\ (boot.pc # "down" => memory[b].raw)
  <2>1. worker = "mkdir" => durable[active].raw /\ memory[active].raw
    BY DEF DurableInv, OwnedInv
  <2> QED
    BY <1>1, <2>1 DEF DurableInv, OwnedInv
<1>3. CASE Wrote
  <2>1. PICK c \in Builds, rec \in Record : Region(c, rec)
    BY <1>3 DEF Wrote
  <2>2. /\ memory'[c] = rec /\ durable'[c] \in {durable[c], Serialize(rec)}
        /\ \A d \in Builds : d # c => memory'[d] = memory[d] /\ durable'[d] = durable[d]
        /\ boot.pc # "down"
    BY <2>1, AfterRegion
  <2>3. workspace'[c] => rec.raw
    BY <2>1 DEF Region
  <2>4. Serialize(rec) = rec
    BY SerializeKeeps
  <2> QED
    BY <1>2, <2>2, <2>3, <2>4
<1>4. ASSUME NEW c \in Builds, EnqueueNext(c)
      PROVE  durable'[b].raw /\ memory'[b].raw
  <2>1. /\ memory' = memory /\ durable' = [durable EXCEPT ![c] = Serialize(memory[c])]
        /\ durable \in [Builds -> Record] /\ boot.pc # "down"
    BY <1>4 DEF EnqueueNext, Saved, DurableInv, IndInv, TypeOK
  <2>2. Serialize(memory[c]) = memory[c]
    BY InMemory, SerializeKeeps
  <2> QED
    BY <1>2, <2>1, <2>2
<1>5. CASE Restart
  <2>1. durable' = durable /\ durable[b] \in Record
        /\ memory'[b] = IF durable[b].state \in Pending
                        THEN [durable[b] EXCEPT !.state = "QUEUED"] ELSE durable[b]
    BY <1>5, InMemory DEF Restart, disk
  <2>2. [durable[b] EXCEPT !.state = "QUEUED"].raw = durable[b].raw
    BY <2>1 DEF Record
  <2> QED
    BY <1>2, <2>1, <2>2
<1>6. CASE LoseProcess
  BY <1>2, <1>6 DEF LoseProcess
<1>7. CASE Still
  BY <1>2, <1>7 DEF Still, Serving, Starting
<1> QED
  BY <1>3, <1>4, <1>5, <1>6, <1>7, StepKind

LEMMA OwnedInvStep ==
    ASSUME DurableInv, [Next]_vars
    PROVE  OwnedInv'
<1> SUFFICES ASSUME ~Remote
             PROVE  /\ \A b \in Builds :
                         workspace'[b] => durable'[b].raw /\ (boot'.pc # "down" => memory'[b].raw)
                    /\ worker' = "mkdir" => durable'[active'].raw /\ memory'[active'].raw
                    /\ \A h \in Handlers : HandlerOwned(h)'
                    /\ BootOwned'
  BY DEF OwnedInv, HandlerOwned, BootOwned, Remote
<1> QED
  BY WorkspaceIsNamed, MkdirIsNamed, HandlersKept, BootKept

LEMMA DurableInvInit == Init => DurableInv
<1> SUFFICES ASSUME Init PROVE DurableInv
  OBVIOUS
<1>1. IndInv
  BY InitEstablishes
<1>2. HeldInv
  BY DEF Init, HeldInv, NothingStranded, Serving, Starting
<1>3. \A b \in Builds : memory[b] = NoRecord /\ durable[b] = NoRecord
  BY DEF Init
<1>4. /\ NoRecord.state = "ABSENT" /\ NoRecord.key = None /\ NoRecord.hash = NoBuild
      /\ NoRecord.reg = None /\ NoRecord.raw = FALSE
  BY DEF NoRecord
<1>5. boot.pc = "down" /\ worker = "none" /\ active \notin Builds
  BY DEF Init, Builds, NoBuild
<1>6. RecordInv
  BY <1>3, <1>4, <1>5 DEF RecordInv, Sound
<1>7. KeyInv
  BY <1>3, <1>4 DEF Init, KeyInv
<1>8. \A h \in Handlers : handler[h].pc = "idle" /\ handler[h].op = "none"
  BY DEF Init, Idle
<1>9. SyncInv /\ ActorsInv
  BY <1>5, <1>8 DEF SyncInv, ActorsInv, Serving, Starting, Purging
<1>10. GoneInv
  BY <1>3, <1>4, <1>5, <1>8 DEF GoneInv
<1>11. OwnedInv
  BY <1>5, <1>8 DEF Init, OwnedInv
<1> QED
  BY <1>1, <1>2, <1>6, <1>7, <1>9, <1>10, <1>11 DEF DurableInv

LEMMA DurableInvStep ==
    ASSUME DurableInv, [Next]_vars
    PROVE  DurableInv'
<1>1. IndInv'
  BY NextPreserves DEF DurableInv
<1>2. HeldInv'
  BY NextHolds DEF DurableInv
<1> QED
  BY <1>1, <1>2, RecordInvStep, KeyInvStep, SyncInvStep, ActorsInvStep, GoneInvStep, OwnedInvStep
  DEF DurableInv

\* The invariant of memory and durable records holds in every reachable state,
\* whatever callers, threads, failing writes and crashes do.
THEOREM DurableInvariance == Spec => []DurableInv
<1>1. DurableInv /\ [Next]_vars => DurableInv'
  BY DurableInvStep
<1> QED
  BY <1>1, DurableInvInit, PTL DEF Spec

\* A raw workspace on a local disk is named by the durable record of its build,
\* whatever fails and however often the process stops.
THEOREM WorkspacesAreOwned == Spec => []WorkspaceIsOwned
<1>1. DurableInv => WorkspaceIsOwned
  BY DEF DurableInv, OwnedInv, WorkspaceIsOwned
<1> QED
  BY <1>1, DurableInvariance, PTL

\* A tree is left half removed only under a hash that is durable: handlers and
\* recovery remove a tree only by it.
HalfInv ==
    /\ \A b \in Builds : tree[b] \in {"damaged", "headless"} => durable[b].hash # NoBuild
    /\ \A h \in Handlers :
         handler[h].pc \in {"store", "remove"} => durable[handler[h].build].hash # NoBuild
    /\ Starting => \A b \in Builds : memory[b].hash = durable[b].hash

LEMMA HashLasts ==
    ASSUME DurableInv, [Next]_vars, NEW b \in Builds, durable[b].hash # NoBuild
    PROVE  durable'[b].hash # NoBuild
BY DurableCarries DEF Carries

\* A handler that begins a removal has persisted the record with the hash; one
\* that goes on with it began so.
LEMMA RemoversNameTheTree ==
    ASSUME DurableInv, HalfInv, [Next]_vars, NEW h \in Handlers,
           handler'[h].pc \in {"store", "remove"}
    PROVE  durable'[handler'[h].build].hash # NoBuild
<1>1. ASSUME handler[h].pc \in {"store", "remove"}, handler'[h].build = handler[h].build
      PROVE  durable'[handler'[h].build].hash # NoBuild
  <2>1. handler[h].build \in Builds
    BY <1>1, HandledHasEnded
  <2> QED
    BY <1>1, <2>1, HashLasts DEF HalfInv
<1>2. CASE handler'[h] = handler[h]
  BY <1>1, <1>2
<1>3. CASE Call
  <2>1. CASE \E g \in Handlers, b \in Builds, cmd \in Commands : PurgeStart(g, b, cmd)
    <3>1. PICK g \in Handlers, b \in Builds, cmd \in Commands : PurgeStart(g, b, cmd)
      BY <2>1
    <3> DEFINE rec == [memory[b] EXCEPT !.state = "DELETING", !.cmd = cmd]
    <3>2. CASE g = h /\ handler' # handler
      <4>1. /\ Saved(b, rec)
            /\ handler' = [handler EXCEPT
                 ![h] = [pc |-> FirstPurgeStep(memory[b]), op |-> "purge", build |-> b]]
        BY <3>1, <3>2 DEF PurgeStart
      <4>2. handler'[h] = [pc |-> FirstPurgeStep(memory[b]), op |-> "purge", build |-> b]
        BY <4>1 DEF DurableInv, IndInv, TypeOK
      <4>3. memory[b].hash # NoBuild
        BY <4>2 DEF FirstPurgeStep
      <4>4. memory[b] \in Record /\ rec.hash = memory[b].hash
        BY InMemory DEF Record
      <4>5. Serialize(rec).hash = memory[b].hash
        BY <4>4 DEF Serialize, Record
      <4>6. durable' = [durable EXCEPT ![b] = Serialize(rec)] /\ durable \in [Builds -> Record]
        BY <4>1 DEF Saved, DurableInv, IndInv, TypeOK
      <4> QED
        BY <4>2, <4>3, <4>5, <4>6
    <3>3. CASE g # h \/ handler' = handler
      <4>1. handler \in [Handlers -> HandlerStates]
        BY DEF DurableInv, IndInv, TypeOK
      <4>2. \/ handler' = handler
            \/ handler' = [handler EXCEPT
                  ![g] = [pc |-> FirstPurgeStep(memory[b]), op |-> "purge", build |-> b]]
        BY <3>1 DEF PurgeStart
      <4>3. handler'[h] = handler[h]
        BY <3>3, <4>1, <4>2
      <4> QED
        BY <1>2, <4>3
    <3> QED
      BY <3>2, <3>3
  <2>2. CASE ~\E g \in Handlers, b \in Builds, cmd \in Commands : PurgeStart(g, b, cmd)
    <3>1. \/ handler' = handler
          \/ \E g \in Handlers, c \in Builds : handler' = [handler EXCEPT
                                  ![g] = [pc |-> "clean", op |-> "ack", build |-> c]]
      BY <1>3, <2>2 DEF Call, Submit, Rebuild, SubmitNew, SubmitReplay, Acknowledge,
         AcknowledgeReplay, Deprecate, DeprecateReplay, PurgeReplay, process
    <3>2. handler'[h] = handler[h] \/ handler'[h].pc = "clean"
      BY <3>1 DEF DurableInv, IndInv, TypeOK
    <3> QED
      BY <1>2, <3>2
  <2> QED
    BY <2>1, <2>2
<1>4. ASSUME NEW g \in Handlers, HandlerStep(g)
      PROVE  durable'[handler'[h].build].hash # NoBuild
  <2>1. CASE g # h
    BY <1>2, <1>4, <2>1, HandlerGoesOn
  <2>2. CASE g = h
    <3>1. /\ handler[h].pc # "idle" /\ handler'[h].build = handler[h].build
          /\ handler[h].pc \notin {"clean", "rmtree", "clear", "finish"}
      BY <1>4, <2>2, HandlerGoesOn DEF Idle
    <3>2. handler[h].pc \in HandlerPcs
      BY <3>1, ActingHandler DEF DurableInv
    <3> QED
      BY <1>1, <3>1, <3>2 DEF HandlerPcs
  <2> QED
    BY <2>1, <2>2
<1>5. CASE Worker
  BY <1>2, <1>5, WorkerWrites
<1>6. CASE Close \/ UNCHANGED vars
  BY <1>2, <1>6 DEF Close, vars
<1>7. CASE Boot \/ Exit \/ Crash
  BY <1>7, NobodyHandles
<1> QED
  BY <1>3, <1>4, <1>5, <1>6, <1>7 DEF Next

\* A start works with the hashes that it read.
LEMMA StartKnowsHashes ==
    ASSUME DurableInv, HalfInv, [Next]_vars, Starting', NEW b \in Builds
    PROVE  memory'[b].hash = durable'[b].hash
<1>1. CASE Wrote
  <2>1. PICK c \in Builds, rec \in Record : Region(c, rec)
    BY <1>1 DEF Wrote
  <2>2. Starting /\ Saved(c, rec)
    BY <2>1 DEF Region, Serving, Starting
  <2>3. /\ memory'[c] = rec /\ durable'[c] = Serialize(rec)
        /\ \A d \in Builds : d # c => memory'[d] = memory[d] /\ durable'[d] = durable[d]
    BY <2>1, <2>2, AfterRegion DEF Saved, DurableInv, IndInv, TypeOK
  <2> QED
    BY <2>2, <2>3, SerializeKeeps DEF HalfInv
<1>2. ASSUME NEW c \in Builds, EnqueueNext(c)
      PROVE  memory'[b].hash = durable'[b].hash
  <2>1. /\ memory' = memory /\ durable' = [durable EXCEPT ![c] = Serialize(memory[c])]
        /\ durable \in [Builds -> Record] /\ Starting
    BY <1>2 DEF EnqueueNext, Saved, DurableInv, IndInv, TypeOK, Starting
  <2>2. Serialize(memory[c]).hash = memory[c].hash
    BY InMemory, SerializeKeeps
  <2> QED
    BY <2>1, <2>2 DEF HalfInv
<1>3. CASE Restart
  <2>1. durable' = durable /\ durable[b] \in Record
        /\ memory'[b] = IF durable[b].state \in Pending
                        THEN [durable[b] EXCEPT !.state = "QUEUED"] ELSE durable[b]
    BY <1>3, InMemory DEF Restart, disk
  <2>2. [durable[b] EXCEPT !.state = "QUEUED"].hash = durable[b].hash
    BY <2>1 DEF Record
  <2> QED
    BY <2>1, <2>2
<1>4. CASE LoseProcess
  BY <1>4 DEF LoseProcess, Starting
<1>5. CASE Still
  BY <1>5 DEF Still, HalfInv
<1> QED
  BY <1>1, <1>2, <1>3, <1>4, <1>5, StepKind

\* A step that leaves a tree half removed is a removal by its hash.
LEMMA HalfRemoved ==
    ASSUME DurableInv, HalfInv, [Next]_vars, NEW b \in Builds,
           tree'[b] \in {"damaged", "headless"}
    PROVE  durable[b].hash # NoBuild
<1>0. tree \in [Builds -> Trees]
  BY DEF DurableInv, IndInv, TypeOK
<1>1. ASSUME NEW c, NEW t \in {"absent", "complete"},
             UNCHANGED tree \/ tree' = [tree EXCEPT ![c] = t]
      PROVE  durable[b].hash # NoBuild
  BY <1>0, <1>1 DEF HalfInv
<1>2. ASSUME NEW c \in Builds, durable[c].hash # NoBuild,
             \E t \in Removing(tree[c]) : tree' = [tree EXCEPT ![c] = t]
      PROVE  durable[b].hash # NoBuild
  BY <1>0, <1>2 DEF HalfInv
<1>3. CASE Call
  <2>1. UNCHANGED tree
    BY <1>3 DEF Call, Submit, Rebuild, SubmitNew, SubmitReplay, Acknowledge,
       AcknowledgeReplay, Deprecate, DeprecateReplay, PurgeStart, PurgeReplay, disk
  <2> QED
    BY <1>1, <2>1
<1>4. ASSUME NEW h \in Handlers, HandlerStep(h)
      PROVE  durable[b].hash # NoBuild
  <2>1. CASE PurgeRemove(h)
    <3>1. handler[h].pc = "remove"
      BY <2>1 DEF PurgeRemove, At
    <3>2. handler[h].build \in Builds /\ durable[handler[h].build].hash # NoBuild
      BY <3>1, HandledHasEnded DEF HalfInv
    <3>3. \/ UNCHANGED tree
          \/ \E t \in Removing(tree[handler[h].build]) :
                tree' = [tree EXCEPT ![handler[h].build] = t]
      BY <2>1 DEF PurgeRemove
    <3> QED
      BY <1>1, <1>2, <3>2, <3>3
  <2>2. CASE ~PurgeRemove(h)
    <3>1. UNCHANGED tree \/ \E c : tree' = [tree EXCEPT ![c] = "absent"]
      BY <1>4, <2>2 DEF HandlerStep, PurgeStore, CleanCheck, RemoveWorkspace, ClearRaw,
         PurgeFinish, disk
    <3> QED
      BY <1>1, <3>1
  <2> QED
    BY <2>1, <2>2
<1>5. CASE Worker
  <2>1. UNCHANGED tree \/ tree' = [tree EXCEPT ![active] = "complete"]
    BY <1>5 DEF Worker, WorkerIdle, WorkerPop, WorkerMkdir, WorkerUpdate, WorkerStage,
       WorkerStageRaises, WorkerPublish, WorkerExcept, WorkerFinally, disk
  <2> QED
    BY <1>1, <2>1
<1>6. CASE Boot
  <2>1. CASE RecoverRemove
    <3>1. boot.pc = "removing" /\ Starting
      BY <2>1 DEF RecoverRemove, Starting
    <3>2. boot.build \in Builds /\ memory[boot.build].hash # NoBuild
      BY <3>1 DEF DurableInv, IndInv, BootInv, GoneInv
    <3>3. \E t \in Removing(tree[boot.build]) : tree' = [tree EXCEPT ![boot.build] = t]
      BY <2>1 DEF RecoverRemove
    <3> QED
      BY <1>2, <3>1, <3>2, <3>3 DEF HalfInv
  <2>2. CASE \E c \in Builds : RecoverDeleting(c)
    <3>1. UNCHANGED tree \/ \E c : tree' = [tree EXCEPT ![c] = "absent"]
      BY <2>2 DEF RecoverDeleting
    <3> QED
      BY <1>1, <3>1
  <2>3. CASE \/ Restart \/ RecoverClean \/ RecoverClear \/ RecoverFinish \/ StartFails \/ Serve
             \/ \E c \in Builds : FailInterrupted(c) \/ EnqueueNext(c)
    <3>1. UNCHANGED tree
      BY <2>3 DEF Restart, RecoverClean, RecoverClear, RecoverFinish, StartFails, Serve,
         FailInterrupted, EnqueueNext, LoseProcess, disk
    <3> QED
      BY <1>1, <3>1
  <2> QED
    BY <1>6, <2>1, <2>2, <2>3 DEF Boot
<1>7. CASE Close \/ Exit \/ Crash \/ UNCHANGED vars
  <2>1. UNCHANGED tree
    BY <1>7 DEF Close, Exit, Crash, LoseProcess, vars, disk
  <2> QED
    BY <1>1, <2>1
<1> QED
  BY <1>3, <1>4, <1>5, <1>6, <1>7 DEF Next

\* A local tree that a purge left half removed stands under a durable record that names
\* its hash, whatever fails or crashes: no removal begins without one.
THEOREM HalfRemovedIsNamed == Spec => []HalfInv
<1>1. Init => HalfInv
  <2> SUFFICES ASSUME Init PROVE HalfInv
    OBVIOUS
  <2>1. /\ \A b \in Builds : tree[b] = "absent"
        /\ \A h \in Handlers : handler[h].pc = "idle"
        /\ ~Starting
    BY DEF Init, Idle, Starting
  <2> QED
    BY <2>1 DEF HalfInv
<1>2. DurableInv /\ HalfInv /\ [Next]_vars => HalfInv'
  <2> SUFFICES ASSUME DurableInv, HalfInv, [Next]_vars PROVE HalfInv'
    OBVIOUS
  <2>1. \A b \in Builds : tree'[b] \in {"damaged", "headless"} => durable'[b].hash # NoBuild
    BY HalfRemoved, HashLasts
  <2>2. \A h \in Handlers : handler'[h].pc \in {"store", "remove"}
                               => durable'[handler'[h].build].hash # NoBuild
    BY RemoversNameTheTree
  <2>3. Starting' => \A b \in Builds : memory'[b].hash = durable'[b].hash
    BY StartKnowsHashes
  <2> QED
    BY <2>1, <2>2, <2>3 DEF HalfInv
<1> QED
  BY <1>1, <1>2, DurableInvariance, PTL DEF Spec

\* What DELETED says of the files of a build, even when two purges, a purge and a
\* restart, or failing calls meet: a tree whose hash is durable was removed, all of
\* it remotely, at least its root manifest locally; a tree whose hash the record never
\* got is absent or whole, for no deletion touches it, so that it may still be opened;
\* and a local deployment has no raw workspace of the build.
THEOREM DeletionRemovesTheNamedTree == Spec => []DeletedIsGone
<1>1. DurableInv /\ HalfInv => DeletedIsGone
  <2> SUFFICES ASSUME DurableInv, HalfInv, NEW b \in Builds, durable[b].state = "DELETED"
               PROVE  /\ tree[b] \in IF durable[b].hash = NoBuild THEN {"absent", "complete"}
                                     ELSE IF Remote THEN {"absent"} ELSE {"absent", "headless"}
                      /\ ~Remote => ~workspace[b]
    BY DEF DeletedIsGone
  <2>1. /\ durable[b].hash # NoBuild => tree[b] \in Gone
        /\ ~Remote => ~workspace[b]
    BY DEF DurableInv, GoneInv
  <2>2. tree[b] \in Trees
    BY DEF DurableInv, IndInv, TypeOK
  <2>3. durable[b].hash = NoBuild => tree[b] \in {"absent", "complete"}
    BY <2>2 DEF HalfInv, Trees
  <2> QED
    BY <2>1, <2>3 DEF Gone
<1> QED
  BY <1>1, DurableInvariance, HalfRemovedIsNamed, PTL

\* A build's key, request, manifest hash, registration and purge command, once
\* durable, are never replaced or lost, whatever fails.
THEOREM IdentitiesAreFrozen == Spec => IdentityIsFrozen
<1>1. DurableInv /\ [Next]_vars =>
        [\A b \in Builds :
          /\ durable[b].state # "ABSENT" => /\ durable'[b].key = durable[b].key
                                            /\ durable'[b].request = durable[b].request
          /\ durable[b].hash # NoBuild => durable'[b].hash = durable[b].hash
          /\ durable[b].reg # None => durable'[b].reg = durable[b].reg
          /\ durable[b].cmd # None => durable'[b].cmd = durable[b].cmd]_durable
  BY DurableCarries DEF Carries
<1> QED
  BY <1>1, DurableInvariance, PTL DEF Spec, IdentityIsFrozen
-----------------------------------------------------------------------------
(* While no write has failed                                               *)

\* One record moves: one edge along the lifecycle, and its hash is set when it
\* is published.
Moves(b) ==
    /\ UNCHANGED tree
    /\ \A c \in Builds : c # b => durable'[c] = durable[c]
    /\ \/ /\ durable'[b].state = durable[b].state
          /\ durable'[b].hash = durable[b].hash
       \/ /\ durable'[b].state \in Successors[durable[b].state]
          /\ \/ durable'[b].hash = durable[b].hash
             \/ durable[b].state = "VERIFYING" /\ durable'[b].state = "REGISTERING"

LEMMA DurableMoves ==
    ASSUME DurableInv, [Next]_vars, faults' = 0
    PROVE  UNCHANGED durable \/ \E b \in Builds : Moves(b)
<1>0. faults = 0 /\ TypeOK
  BY FaultsStay DEF DurableInv, IndInv
<1>1. CASE Wrote
  <2>1. PICK b \in Builds, rec \in Record : Region(b, rec)
    BY <1>1 DEF Wrote
  <2>2. /\ durable'[b] = Serialize(rec) /\ UNCHANGED tree
        /\ \A c \in Builds : c # b => durable'[c] = durable[c]
    BY <2>1, AfterRegion DEF Region
  <2>3. durable[b] = Serialize(memory[b])
    <3>1. CASE Serving
      BY <1>0, <3>1 DEF DurableInv, SyncInv
    <3>2. CASE Starting /\ memory[b].state \in Active \cup {"DELETING"}
      <4>1. b \notin Unqueued
        BY <3>2 DEF Unqueued, Active
      <4> QED
        BY <1>0, <3>2, <4>1 DEF DurableInv, SyncInv
    <3> QED
      BY <2>1, <3>1, <3>2 DEF Region
  <2>4. /\ durable[b].state = memory[b].state /\ durable[b].hash = memory[b].hash
        /\ durable'[b].state = rec.state /\ durable'[b].hash = rec.hash
    BY <2>2, <2>3, InMemory, SerializeKeeps
  <2>5. /\ rec.state = memory[b].state \/ rec.state \in Successors[memory[b].state]
        /\ \/ rec.hash = memory[b].hash
           \/ memory[b].state = "VERIFYING" /\ rec.state = "REGISTERING"
    BY <1>0, <2>1 DEF Region
  <2>6. "REGISTERING" \in Successors["VERIFYING"]
    BY DEF Successors
  <2> QED
    BY <2>2, <2>4, <2>5, <2>6 DEF Moves
<1>2. ASSUME NEW b \in Builds, EnqueueNext(b)
      PROVE  Moves(b)
  <2>1. /\ durable' = [durable EXCEPT ![b] = Serialize(memory[b])] /\ UNCHANGED tree
        /\ memory[b].state = "QUEUED" /\ Starting
    BY <1>2 DEF EnqueueNext, Saved, Unqueued, Starting
  <2>2. /\ durable'[b] = Serialize(memory[b])
        /\ \A c \in Builds : c # b => durable'[c] = durable[c]
    BY <1>0, <2>1 DEF TypeOK
  <2>3. durable'[b].state = "QUEUED" /\ durable'[b].hash = memory[b].hash
    BY <2>1, <2>2, InMemory, SerializeKeeps
  <2>4. CASE durable[b] = Serialize(memory[b])
    BY <2>1, <2>2, <2>4 DEF Moves
  <2>5. CASE durable[b].state \in Pending /\ memory[b] = [durable[b] EXCEPT !.state = "QUEUED"]
    <3>1. memory[b].hash = durable[b].hash
      BY <2>5, InMemory DEF Record
    <3>2. "QUEUED" = durable[b].state \/ "QUEUED" \in Successors[durable[b].state]
      BY <2>5 DEF Pending, Successors
    <3> QED
      BY <2>1, <2>2, <2>3, <3>1, <3>2 DEF Moves
  <2> QED
    BY <1>0, <2>1, <2>4, <2>5 DEF DurableInv, SyncInv
<1>3. CASE Still \/ Restart \/ LoseProcess
  BY <1>3 DEF Still, Restart, LoseProcess, disk
<1> QED
  BY <1>1, <1>2, <1>3, StepKind

\* Whatever handlers, worker, crashes and recovery do, the durable state of a
\* build only follows the lifecycle, one edge at a time, while no write fails.
THEOREM DurableRecordsFollow ==
    ASSUME MaxFaults = 0
    PROVE  Spec => DurableFollowsLifecycle
<1>1. DurableInv /\ [Next]_vars =>
        [\A b \in Builds : durable'[b].state # durable[b].state
                             => durable'[b].state \in Successors[durable[b].state]]_durable
  <2> SUFFICES ASSUME DurableInv, [Next]_vars, NEW b \in Builds,
                      durable'[b].state # durable[b].state
               PROVE  durable'[b].state \in Successors[durable[b].state]
    OBVIOUS
  <2>1. IndInv'
    BY NextPreserves DEF DurableInv
  <2>2. faults' = 0
    BY <2>1 DEF IndInv, TypeOK
  <2> QED
    BY <2>2, DurableMoves DEF Moves
<1> QED
  BY <1>1, DurableInvariance, PTL DEF Spec, DurableFollowsLifecycle

\* What an answer says of the record of its build.
PromisedBy(a, rec) ==
    /\ a.op = "submit" => rec.key = a.key /\ rec.request = a.request
    /\ a.op = "ack" => rec.reg = a.reg /\ rec.hash = a.hash /\ rec.state \in Acknowledged
    /\ a.op = "deprecate" => rec.state \in {"DEPRECATED", "DELETING", "DELETED"}
    /\ a.op = "purge" => rec.state = "DELETED" /\ rec.cmd = a.cmd

AnswersInv == faults = 0 => \A a \in answered : PromisedBy(a, durable[a.build])

\* What an answer is, by the call that gave it.
LEMMA AnswerFields ==
    ASSUME NEW a \in Answers
    PROVE  /\ a.op \in {"submit", "ack", "deprecate", "purge"} /\ a.build \in Builds
           /\ a.op = "submit" => /\ a.key \in Keys /\ a.request \in Requests
                                 /\ a = SubmitAnswer(a.build, a.key, a.request)
           /\ a.op = "ack" => /\ a.hash \in Builds /\ a.reg \in RegIds
                              /\ a = AckAnswer(a.build, a.hash, a.reg)
           /\ a.op = "purge" => a.cmd \in Commands
BY DEF Answers, SubmitAnswer, AckAnswer

\* What was promised stays promised.
LEMMA PromiseStays ==
    ASSUME DurableInv, [Next]_vars, faults' = 0, NEW a \in Answers,
           PromisedBy(a, durable[a.build])
    PROVE  PromisedBy(a, durable'[a.build])
<1> DEFINE b == a.build
<1>1. /\ a.op \in {"submit", "ack", "deprecate", "purge"} /\ b \in Builds
      /\ a.op = "submit" => a.key \in Keys
      /\ a.op = "ack" => a.hash \in Builds /\ a.reg \in RegIds
      /\ a.op = "purge" => a.cmd \in Commands
  BY AnswerFields
<1>2. Carries(durable'[b], durable[b]) /\ Sound(b, durable[b])
  BY <1>1, DurableCarries, InMemory
<1>3. durable'[b].state = durable[b].state \/ durable'[b].state \in Successors[durable[b].state]
  BY <1>1, DurableMoves DEF Moves
<1>4. CASE a.op = "submit"
  <2>1. durable[b].key # None
    BY <1>1, <1>4, NoneAssumption DEF PromisedBy
  <2>2. durable[b].state # "ABSENT"
    BY <1>2, <2>1 DEF Sound, NoRecord
  <2> QED
    BY <1>2, <1>4, <2>2 DEF PromisedBy, Carries
<1>5. CASE a.op = "ack"
  <2>1. durable[b].reg # None /\ durable[b].hash # NoBuild
    BY <1>1, <1>5, NoneAssumption DEF PromisedBy, Builds, NoBuild
  <2>2. durable'[b].state \in Acknowledged
    BY <1>3, <1>5 DEF PromisedBy, Acknowledged, Successors
  <2> QED
    BY <1>2, <1>5, <2>1, <2>2 DEF PromisedBy, Carries
<1>6. CASE a.op = "deprecate"
  BY <1>3, <1>6 DEF PromisedBy, Successors
<1>7. CASE a.op = "purge"
  <2>1. durable[b].cmd # None
    BY <1>1, <1>7, NoneAssumption DEF PromisedBy
  <2>2. durable'[b].state = "DELETED"
    BY <1>3, <1>7 DEF PromisedBy, Successors
  <2> QED
    BY <1>2, <1>7, <2>1, <2>2 DEF PromisedBy, Carries
<1> QED
  BY <1>1, <1>4, <1>5, <1>6, <1>7

\* Calls answer what memory says, now or after their write.
LEMMA CallPromises ==
    ASSUME DurableInv, Call, faults' = 0, NEW a \in answered', a \notin answered
    PROVE  a.build \in Builds /\ PromisedBy(a, memory'[a.build]) /\ Serving'
<1>0. TypeOK /\ KeyInv
  BY DEF DurableInv, IndInv
<1>1. \A b, rec : ~NotSaved(b, rec)
  BY <1>0, BoundsAssumption DEF TypeOK, NotSaved, Fault
<1>2. ASSUME NEW k \in Keys, NEW r \in Requests, SubmitNew(k, r)
      PROVE  a.build \in Builds /\ PromisedBy(a, memory'[a.build]) /\ Serving'
  <2> DEFINE b == submitted + 1
             rec == [NoRecord EXCEPT !.state = IF active # NoBuild \/ queue # <<>>
                                               THEN "QUEUED" ELSE "CREATED",
                                     !.key = k, !.request = r]
  <2>1. /\ a = SubmitAnswer(b, k, r) /\ Remember(b, rec) /\ b \in Builds /\ Serving'
    BY <1>0, <1>1, <1>2, BoundsAssumption
    DEF SubmitNew, Answer, TypeOK, Builds, Serving
  <2>2. rec.key = k /\ rec.request = r
    BY DEF NoRecord
  <2>3. memory'[b] = rec
    BY <1>0, <2>1, Remembered
  <2> HIDE DEF b, rec
  <2> QED
    BY <2>1, <2>2, <2>3 DEF SubmitAnswer, PromisedBy
<1>3. ASSUME NEW k \in Keys, NEW r \in Requests, SubmitReplay(k, r)
      PROVE  a.build \in Builds /\ PromisedBy(a, memory'[a.build]) /\ Serving'
  <2> DEFINE b == idempotency[k]
  <2>1. /\ a = SubmitAnswer(b, k, r) /\ b \in Builds /\ Serving' /\ memory' = memory
        /\ memory[b].request = r /\ b # NoBuild
    BY <1>0, <1>3 DEF SubmitReplay, Answer, TypeOK, Serving, process
  <2>2. memory[b].key = k
    BY <1>0, <2>1 DEF KeyInv
  <2> QED
    BY <2>1, <2>2 DEF SubmitAnswer, PromisedBy
<1>4. ASSUME NEW h \in Handlers, NEW b \in Builds, NEW hash \in Builds, NEW reg \in RegIds,
             Acknowledge(h, b, hash, reg)
      PROVE  FALSE
  BY <1>4 DEF Acknowledge
<1>5. ASSUME NEW b \in Builds, NEW hash \in Builds, NEW reg \in RegIds,
             AcknowledgeReplay(b, hash, reg)
      PROVE  a.build \in Builds /\ PromisedBy(a, memory'[a.build]) /\ Serving'
  <2>1. /\ a = AckAnswer(b, hash, reg) /\ Serving' /\ memory' = memory
        /\ memory[b].hash = hash /\ memory[b].reg = reg /\ memory[b].state = "READY"
    BY <1>5 DEF AcknowledgeReplay, Matches, Answer, Serving, process
  <2> QED
    BY <2>1 DEF AckAnswer, PromisedBy, Acknowledged
<1>6. ASSUME NEW b \in Builds, Deprecate(b)
      PROVE  a.build \in Builds /\ PromisedBy(a, memory'[a.build]) /\ Serving'
  <2>1. a = [op |-> "deprecate", build |-> b] /\ Serving'
    BY <1>6 DEF Deprecate, Answer, Serving
  <2>2. PICK rec \in Record : Region(b, rec) /\ rec.state = "DEPRECATED"
    BY <1>6, DeprecateRegion
  <2>3. memory'[b].state = "DEPRECATED"
    BY <2>2, AfterRegion
  <2> QED
    BY <2>1, <2>3 DEF PromisedBy
<1>7. ASSUME NEW b \in Builds, DeprecateReplay(b)
      PROVE  a.build \in Builds /\ PromisedBy(a, memory'[a.build]) /\ Serving'
  <2>1. /\ a = [op |-> "deprecate", build |-> b] /\ Serving' /\ memory' = memory
        /\ memory[b].state = "DEPRECATED"
    BY <1>7 DEF DeprecateReplay, Answer, Serving, process
  <2> QED
    BY <2>1 DEF PromisedBy
<1>8. ASSUME NEW h \in Handlers, NEW b \in Builds, NEW cmd \in Commands, PurgeStart(h, b, cmd)
      PROVE  FALSE
  BY <1>8 DEF PurgeStart
<1>9. ASSUME NEW b \in Builds, NEW cmd \in Commands, PurgeReplay(b, cmd)
      PROVE  a.build \in Builds /\ PromisedBy(a, memory'[a.build]) /\ Serving'
  <2>1. /\ a = [op |-> "purge", build |-> b, cmd |-> cmd] /\ Serving' /\ memory' = memory
        /\ memory[b].state = "DELETED" /\ memory[b].cmd = cmd
    BY <1>9 DEF PurgeReplay, Answer, Serving, process
  <2> QED
    BY <2>1 DEF PromisedBy
<1> QED
  BY <1>2, <1>3, <1>4, <1>5, <1>6, <1>7, <1>8, <1>9 DEF Call, Submit, Rebuild

\* So do the handlers that finish an acknowledgement or a purge.
LEMMA HandlerPromises ==
    ASSUME DurableInv, NEW h \in Handlers, HandlerStep(h), faults' = 0, faults = 0,
           NEW a \in answered', a \notin answered
    PROVE  a.build \in Builds /\ PromisedBy(a, memory'[a.build]) /\ Serving'
<1> DEFINE b == handler[h].build
<1>0. TypeOK /\ handler[h].pc # "idle" /\ Serving'
  BY HandlerGoesOn DEF DurableInv, IndInv, Serving
<1>1. b \in Builds
  BY <1>0, HandledHasEnded
<1>2. memory[b] \in Record
  BY <1>1, InMemory
<1>3. ASSUME Cleaned(h), memory'[b].hash = memory[b].hash, memory'[b].reg = memory[b].reg,
             memory'[b].state = memory[b].state
      PROVE  a.build \in Builds /\ PromisedBy(a, memory'[a.build])
  <2>1. a = AckAnswer(b, memory[b].hash, memory[b].reg) /\ handler[h].op = "ack"
    BY <1>3 DEF Cleaned, Answer
  <2>2. memory[b].state \in Acknowledged
    BY <1>0, <2>1 DEF DurableInv, ActorsInv
  <2> QED
    BY <1>1, <1>3, <2>1, <2>2 DEF AckAnswer, PromisedBy
<1>4. CASE CleanCheck(h)
  BY <1>0, <1>3, <1>4 DEF CleanCheck
<1>5. CASE ClearRaw(h)
  <2> DEFINE rec == [memory[b] EXCEPT !.raw = FALSE]
  <2>1. Cleaned(h) /\ (memory' = memory \/ Remember(b, rec))
    BY <1>5 DEF ClearRaw
  <2>2. rec.hash = memory[b].hash /\ rec.reg = memory[b].reg /\ rec.state = memory[b].state
    BY <1>2 DEF Record
  <2> HIDE DEF rec
  <2>3. Remember(b, rec) => memory'[b] = rec
    BY <1>0, <1>1, Remembered
  <2> QED
    BY <1>0, <1>3, <2>1, <2>2, <2>3
<1>6. CASE PurgeFinish(h)
  <2> DEFINE rec == [memory[b] EXCEPT !.state = "DELETED"]
  <2>1. a = [op |-> "purge", build |-> b, cmd |-> memory[b].cmd] /\ Remember(b, rec)
    BY <1>6 DEF PurgeFinish, Answer
  <2>2. rec.state = "DELETED" /\ rec.cmd = memory[b].cmd
    BY <1>2 DEF Record
  <2> HIDE DEF rec
  <2>3. memory'[b] = rec
    BY <1>0, <1>1, <2>1, Remembered
  <2> QED
    BY <1>0, <1>1, <2>1, <2>2, <2>3 DEF PromisedBy
<1>7. CASE PurgeStore(h) \/ PurgeRemove(h) \/ RemoveWorkspace(h)
  BY <1>7 DEF PurgeStore, PurgeRemove, RemoveWorkspace
<1> QED
  BY <1>4, <1>5, <1>6, <1>7 DEF HandlerStep

LEMMA AnswersInvStep ==
    ASSUME DurableInv, AnswersInv, [Next]_vars
    PROVE  AnswersInv'
<1> SUFFICES ASSUME faults' = 0, NEW a \in answered'
             PROVE  PromisedBy(a, durable'[a.build])
  BY DEF AnswersInv, PromisedBy
<1>0. faults = 0 /\ TypeOK
  BY FaultsStay DEF DurableInv, IndInv
<1>1. CASE a \in answered
  BY <1>0, <1>1, PromiseStays DEF AnswersInv, TypeOK
<1>2. CASE a \notin answered
  <2>1. ASSUME a.build \in Builds, PromisedBy(a, memory'[a.build]), Serving'
        PROVE  PromisedBy(a, durable'[a.build])
    <3>1. DurableInv'
      BY DurableInvStep
    <3>2. durable'[a.build] = Serialize(memory'[a.build]) /\ memory'[a.build] \in Record
      BY <2>1, <3>1 DEF DurableInv, SyncInv, Serialize, IndInv, TypeOK
    <3>3. /\ durable'[a.build].state = memory'[a.build].state
          /\ durable'[a.build].key = memory'[a.build].key
          /\ durable'[a.build].request = memory'[a.build].request
          /\ durable'[a.build].hash = memory'[a.build].hash
          /\ durable'[a.build].reg = memory'[a.build].reg
          /\ durable'[a.build].cmd = memory'[a.build].cmd
      BY <3>2, SerializeKeeps
    <3> QED
      BY <2>1, <3>3 DEF PromisedBy
  <2>2. CASE Call
    BY <1>2, <2>1, <2>2, CallPromises
  <2>3. CASE \E h \in Handlers : HandlerStep(h)
    BY <1>0, <1>2, <2>1, <2>3, HandlerPromises
  <2>4. CASE Worker \/ Boot \/ Close \/ Exit \/ Crash \/ UNCHANGED vars
    BY <1>2, <2>4 DEF Worker, WorkerIdle, WorkerPop, WorkerMkdir, WorkerUpdate, WorkerStage,
       WorkerStageRaises, WorkerPublish, WorkerExcept, WorkerFinally, Elsewhere, Boot, Restart,
       FailInterrupted, EnqueueNext, RecoverDeleting, RecoverRemove, RecoverClean, RecoverClear,
       RecoverFinish, StartFails, Serve, Booting, LoseProcess, Close, Exit, Crash, vars
  <2> QED
    BY <2>2, <2>3, <2>4 DEF Next
<1> QED
  BY <1>1, <1>2

\* The inductive invariant behind the answers: while no write has failed, the
\* durable record of a build carries what each caller was told of it.
THEOREM AnswersInvariance == Spec => [](DurableInv /\ AnswersInv)
<1>1. Init => AnswersInv
  BY DEF Init, AnswersInv
<1>2. DurableInv /\ AnswersInv /\ [Next]_vars => (DurableInv /\ AnswersInv)'
  BY DurableInvStep, AnswersInvStep
<1> QED
  BY <1>1, <1>2, DurableInvInit, PTL DEF Spec

\* While no write failed, an answer the service gave survives every later step,
\* restart and crash: the durable record carries what the caller was told.
THEOREM AnswersStayDurable == Spec => []AnswersAreDurable
<1>1. DurableInv /\ AnswersInv => AnswersAreDurable
  <2> SUFFICES ASSUME DurableInv, AnswersInv, faults = 0, NEW a \in answered
               PROVE  LET rec == durable[a.build]
                      IN  CASE a.op = "submit" -> rec.key = a.key /\ rec.request = a.request
                            [] a.op = "ack" ->
                                  /\ rec.reg = a.reg /\ rec.hash = a.hash
                                  /\ rec.state \in {"READY", "DEPRECATED", "DELETING", "DELETED"}
                            [] a.op = "deprecate" ->
                                  rec.state \in {"DEPRECATED", "DELETING", "DELETED"}
                            [] a.op = "purge" -> rec.state = "DELETED" /\ rec.cmd = a.cmd
    BY DEF AnswersAreDurable
  <2>1. a \in Answers
    BY DEF DurableInv, IndInv, TypeOK
  <2>2. a.op \in {"submit", "ack", "deprecate", "purge"}
    BY <2>1, AnswerFields
  <2>3. PromisedBy(a, durable[a.build])
    BY DEF AnswersInv
  <2> QED
    BY <2>2, <2>3 DEF PromisedBy, Acknowledged
<1> QED
  BY <1>1, AnswersInvariance, PTL

\* Two submissions answered under one Idempotency-Key are the same build of the
\* same request, also when a restart or another caller came between them.
THEOREM KeysNameOneBuild == Spec => []OneBuildPerKey
<1>1. DurableInv /\ AnswersInv => OneBuildPerKey
  <2> SUFFICES ASSUME DurableInv, AnswersInv, faults = 0, NEW x \in answered, NEW y \in answered,
                      x.op = "submit", y.op = "submit", x.key = y.key
               PROVE  x = y
    BY DEF OneBuildPerKey
  <2>1. x \in Answers /\ y \in Answers
    BY DEF DurableInv, IndInv, TypeOK
  <2>2. /\ x.build \in Builds /\ x.key \in Keys
        /\ x = SubmitAnswer(x.build, x.key, x.request)
        /\ y.build \in Builds
        /\ y = SubmitAnswer(y.build, y.key, y.request)
    BY <2>1, AnswerFields
  <2>3. /\ durable[x.build].key = x.key /\ durable[x.build].request = x.request
        /\ durable[y.build].key = y.key /\ durable[y.build].request = y.request
    BY DEF AnswersInv, PromisedBy
  <2>4. x.build = y.build
    BY <2>2, <2>3, NoneAssumption DEF DurableInv, KeyInv
  <2> QED
    BY <2>2, <2>3, <2>4
<1> QED
  BY <1>1, AnswersInvariance, PTL

\* An acknowledged build has one registration, and it is of the tree that the
\* build published.
THEOREM BuildsAreRegisteredOnce == Spec => []OneRegistration
<1>1. DurableInv /\ AnswersInv => OneRegistration
  <2> SUFFICES ASSUME DurableInv, AnswersInv, faults = 0, NEW x \in answered, NEW y \in answered,
                      x.op = "ack", y.op = "ack", x.build = y.build
               PROVE  x = y /\ x.hash = x.build
    BY DEF OneRegistration
  <2>1. x \in Answers /\ y \in Answers
    BY DEF DurableInv, IndInv, TypeOK
  <2>2. /\ x.build \in Builds /\ x.hash \in Builds
        /\ x = AckAnswer(x.build, x.hash, x.reg) /\ y = AckAnswer(y.build, y.hash, y.reg)
    BY <2>1, AnswerFields
  <2>3. /\ durable[x.build].reg = x.reg /\ durable[x.build].hash = x.hash
        /\ durable[y.build].reg = y.reg /\ durable[y.build].hash = y.hash
    BY DEF AnswersInv, PromisedBy
  <2>4. durable[x.build].hash \in {NoBuild, x.build}
    BY <2>2, InMemory DEF Sound
  <2>5. x.hash # NoBuild
    BY <2>2 DEF Builds, NoBuild
  <2> QED
    BY <2>2, <2>3, <2>4, <2>5
<1> QED
  BY <1>1, AnswersInvariance, PTL
-----------------------------------------------------------------------------
(* The refinement of the lifecycle                                         *)

\* A step that changes a tree while no call fails changes no record: the whole
\* tree of a build appears while it materializes, and that of one being deleted
\* stops being complete.
TreeMoves(b) ==
    /\ UNCHANGED durable
    /\ \/ durable[b].state = "MATERIALIZING" /\ tree' = [tree EXCEPT ![b] = "complete"]
       \/ /\ durable[b].state = "DELETING" /\ durable[b].hash # NoBuild
          /\ \E t \in Trees \ {"complete"} : tree' = [tree EXCEPT ![b] = t]

LEMMA MovingTree ==
    ASSUME DurableInv, [Next]_vars, faults' = 0
    PROVE  UNCHANGED tree \/ \E b \in Builds : TreeMoves(b)
<1>0. faults = 0 /\ TypeOK /\ SyncInv
  BY FaultsStay DEF DurableInv, IndInv
<1>1. \A t \in Trees : Removing(t) \subseteq Trees \ {"complete"}
  BY DEF Removing, Trees
<1>2. ASSUME NEW b \in Builds, Serving \/ Starting
      PROVE  /\ durable[b].hash = memory[b].hash
             /\ memory[b].state \in {"MATERIALIZING", "DELETING"}
                  => durable[b].state = memory[b].state
  <2>1. CASE durable[b] = Serialize(memory[b])
    BY <2>1, InMemory, SerializeKeeps
  <2>2. CASE memory[b] = [durable[b] EXCEPT !.state = "QUEUED"]
    BY <2>2, InMemory DEF Record
  <2> QED
    BY <1>0, <1>2, <2>1, <2>2 DEF SyncInv
<1>3. ASSUME NEW h \in Handlers, PurgeStore(h) \/ PurgeRemove(h)
      PROVE  UNCHANGED tree \/ \E b \in Builds : TreeMoves(b)
  <2> DEFINE b == handler[h].build
  <2>1. /\ UNCHANGED durable /\ Serving /\ handler[h].pc \in {"store", "remove"}
        /\ \/ UNCHANGED tree
           \/ \E t \in Removing(tree[b]) \cup {"absent"} : tree' = [tree EXCEPT ![b] = t]
    BY <1>3 DEF PurgeStore, PurgeRemove, At
  <2>2. b \in Builds /\ HandlerOK(h)
    BY <2>1, ActingHandler DEF DurableInv
  <2>3. memory[b].state = "DELETING" /\ memory[b].hash # NoBuild
    BY <1>0, <2>1, <2>2 DEF DurableInv, ActorsInv, GoneInv, Purging, HandlerOK
  <2>4. tree[b] \in Trees
    BY <1>0, <2>2 DEF TypeOK
  <2> HIDE DEF b
  <2> QED
    BY <1>1, <1>2, <2>1, <2>2, <2>3, <2>4 DEF TreeMoves, Trees
<1>4. CASE WorkerStage \/ WorkerStageRaises
  <2>1. /\ UNCHANGED durable /\ worker = "work"
        /\ \/ UNCHANGED tree
           \/ /\ memory[active].state = "MATERIALIZING"
              /\ tree' = [tree EXCEPT ![active] = "complete"]
    BY <1>4 DEF WorkerStage, WorkerStageRaises
  <2>2. active \in Builds /\ Serving
    BY <2>1, WorkersBuild
  <2> QED
    BY <1>2, <2>1, <2>2 DEF TreeMoves
<1>5. ASSUME NEW b \in Builds, RecoverDeleting(b)
      PROVE  UNCHANGED tree \/ TreeMoves(b)
  <2>1. /\ UNCHANGED durable /\ Starting /\ memory[b].state = "DELETING"
        /\ \/ UNCHANGED tree
           \/ memory[b].hash # NoBuild /\ tree' = [tree EXCEPT ![b] = "absent"]
    BY <1>5 DEF RecoverDeleting, Deleting, Starting
  <2> QED
    BY <1>2, <2>1 DEF TreeMoves, Trees
<1>6. CASE RecoverRemove
  <2> DEFINE b == boot.build
  <2>1. /\ UNCHANGED durable /\ Starting /\ boot.pc = "removing"
        /\ \E t \in Removing(tree[b]) : tree' = [tree EXCEPT ![b] = t]
    BY <1>6 DEF RecoverRemove, Booting, Starting
  <2>2. b \in Builds /\ memory[b].state = "DELETING" /\ memory[b].hash # NoBuild
    BY <2>1 DEF DurableInv, IndInv, BootInv, GoneInv
  <2>3. tree[b] \in Trees
    BY <1>0, <2>2 DEF TypeOK
  <2> HIDE DEF b
  <2> QED
    BY <1>1, <1>2, <2>1, <2>2, <2>3 DEF TreeMoves
<1>7. CASE Call \/ Close \/ Exit \/ Crash \/ UNCHANGED vars
  BY <1>7 DEF Call, Submit, Rebuild, SubmitNew, SubmitReplay, Acknowledge, AcknowledgeReplay,
     Deprecate, DeprecateReplay, PurgeStart, PurgeReplay, disk, Close, Exit, Crash, LoseProcess,
     vars
<1>8. ASSUME NEW h \in Handlers,
             CleanCheck(h) \/ RemoveWorkspace(h) \/ ClearRaw(h) \/ PurgeFinish(h)
      PROVE  UNCHANGED tree
  BY <1>8 DEF CleanCheck, RemoveWorkspace, ClearRaw, PurgeFinish, disk
<1>9. CASE WorkerIdle \/ WorkerPop \/ WorkerMkdir \/ WorkerUpdate \/ WorkerPublish
           \/ WorkerExcept \/ WorkerFinally
  BY <1>9 DEF WorkerIdle, WorkerPop, WorkerMkdir, WorkerUpdate, WorkerPublish, WorkerExcept,
     WorkerFinally, disk
<1>10. CASE \/ Restart \/ \E b \in Builds : FailInterrupted(b) \/ EnqueueNext(b)
            \/ RecoverClean \/ RecoverClear \/ RecoverFinish \/ StartFails \/ Serve
  BY <1>10 DEF Restart, FailInterrupted, EnqueueNext, RecoverClean, RecoverClear, RecoverFinish,
     StartFails, Serve, LoseProcess, disk
<1> QED
  BY <1>3, <1>4, <1>5, <1>6, <1>7, <1>8, <1>9, <1>10 DEF Next, HandlerStep, Worker, Boot

\* The phase of each state.
LEMMA PhaseOf ==
    /\ Phase("ABSENT") = "none"
    /\ \A s \in Pending : Phase(s) = "pending"
    /\ \A s \in Active : Phase(s) = "building"
    /\ Phase("REGISTERING") = "registering" /\ Phase("READY") = "ready"
    /\ Phase("DEPRECATED") = "deprecated" /\ Phase("FAILED") = "failed"
    /\ Phase("DELETING") = "deleting" /\ Phase("DELETED") = "deleted"
BY DEF Phase, Pending, Active

\* A record that moves moves its build's phase, and no other's.
LEMMA LifeMove ==
    ASSUME NEW b \in Builds, NEW from, NEW to,
           \A c \in Builds : c # b => durable'[c] = durable[c],
           Phase(durable[b].state) \in from, Phase(durable'[b].state) = to
    PROVE  Lifecycle!Move(b, from, to)
BY DEF Lifecycle!Move

\* One write of a record is at most one step of the lifecycle.
LEMMA RecordMovesLife ==
    ASSUME DurableInv, DurableInv', faults' = 0, NEW b \in Builds, Moves(b)
    PROVE  Lifecycle!Next \/ UNCHANGED Lifecycle!lifeVars
<1> DEFINE from == durable[b].state
           to == durable'[b].state
           Announced == {c \in Builds : durable[c].hash # NoBuild}
           Whole == {c \in Builds : tree[c] = "complete"}
<1>1. \A c \in Builds : c # b => durable'[c] = durable[c]
  BY DEF Moves
<1>2. from \in States \cup {"ABSENT"} /\ Whole' = Whole
  BY InMemory DEF Record, Moves
<1>3. ASSUME durable'[b].hash = durable[b].hash
      PROVE  Announced' = Announced
  BY <1>1, <1>3
<1>4. CASE to = from
  <2>1. durable'[b].hash = durable[b].hash
    BY <1>4 DEF Moves, Successors
  <2>2. \A c \in Builds : Phase(durable'[c].state) = Phase(durable[c].state)
    BY <1>1, <1>4
  <2> QED
    BY <1>2, <1>3, <2>1, <2>2 DEF Lifecycle!lifeVars
<1>5. CASE from = "VERIFYING" /\ to = "REGISTERING"
  <2>1. tree'[b] = "complete" /\ durable'[b].hash = b
    BY <1>5 DEF DurableInv, IndInv, VisibleIsComplete, Visible
  <2>2. b \in Whole /\ Announced' = Announced \cup {b}
    BY <1>1, <1>2, <2>1 DEF Builds, NoBuild
  <2>3. Lifecycle!Move(b, {"building"}, "registering")
    BY <1>1, <1>5, PhaseOf, LifeMove DEF Active
  <2>4. Lifecycle!Publish(b)
    BY <1>2, <2>2, <2>3 DEF Lifecycle!Publish
  <2> QED
    BY <2>4 DEF Lifecycle!Next
<1>6. CASE to # from /\ ~(from = "VERIFYING" /\ to = "REGISTERING")
  <2>1. to \in Successors[from] /\ Announced' = Announced
    BY <1>3, <1>6 DEF Moves
  <2>2. CASE from = "ABSENT"
    <3>1. Lifecycle!Move(b, {"none"}, "pending")
      BY <1>1, <2>1, <2>2, PhaseOf, LifeMove DEF Successors
    <3> QED
      BY <1>2, <2>1, <3>1 DEF Lifecycle!Next, Lifecycle!Submit
  <2>3. CASE from \in Pending /\ to \in Pending
    <3>1. \A c \in Builds : Phase(durable'[c].state) = Phase(durable[c].state)
      BY <1>1, <2>3, PhaseOf
    <3> QED
      BY <1>2, <2>1, <3>1 DEF Lifecycle!lifeVars
  <2>4. CASE from \in Pending /\ to = "IMPORTING"
    <3>1. Lifecycle!Move(b, {"pending"}, "building")
      BY <1>1, <2>4, PhaseOf, LifeMove DEF Active
    <3> QED
      BY <1>2, <2>1, <3>1 DEF Lifecycle!Next, Lifecycle!Start
  <2>5. CASE from \in InProgress /\ to = "FAILED"
    <3>1. Lifecycle!Move(b, {"pending", "building"}, "failed")
      BY <1>1, <2>5, PhaseOf, LifeMove DEF InProgress
    <3> QED
      BY <1>2, <2>1, <3>1 DEF Lifecycle!Next, Lifecycle!Fail
  <2>6. CASE from \in Active /\ to \in Active
    <3>1. \A c \in Builds : Phase(durable'[c].state) = Phase(durable[c].state)
      BY <1>1, <2>6, PhaseOf
    <3> QED
      BY <1>2, <2>1, <3>1 DEF Lifecycle!lifeVars
  <2>7. CASE from = "REGISTERING" /\ to = "READY"
    <3>1. Lifecycle!Move(b, {"registering"}, "ready")
      BY <1>1, <2>7, PhaseOf, LifeMove
    <3> QED
      BY <1>2, <2>1, <3>1 DEF Lifecycle!Next, Lifecycle!Acknowledge
  <2>8. CASE from = "READY" /\ to = "DEPRECATED"
    <3>1. Lifecycle!Move(b, {"ready"}, "deprecated")
      BY <1>1, <2>8, PhaseOf, LifeMove
    <3> QED
      BY <1>2, <2>1, <3>1 DEF Lifecycle!Next, Lifecycle!Deprecate
  <2>9. CASE from \in {"FAILED", "DEPRECATED"} /\ to = "DELETING"
    <3>1. Lifecycle!Move(b, {"failed", "deprecated"}, "deleting")
      BY <1>1, <2>9, PhaseOf, LifeMove
    <3> QED
      BY <1>2, <2>1, <3>1 DEF Lifecycle!Next, Lifecycle!BeginPurge
  <2>10. CASE from = "DELETING" /\ to = "DELETED"
    <3>1. Lifecycle!Move(b, {"deleting"}, "deleted")
      BY <1>1, <2>10, PhaseOf, LifeMove
    <3>2. b \in Announced' => b \notin Whole'
      BY <2>10 DEF DurableInv, GoneInv, Gone
    <3>3. Lifecycle!EndPurge(b)
      BY <1>2, <2>1, <3>1, <3>2 DEF Lifecycle!EndPurge
    <3> QED
      BY <3>3 DEF Lifecycle!Next
  <2> QED
    BY <1>2, <1>6, <2>1, <2>2, <2>3, <2>4, <2>5, <2>6, <2>7, <2>8, <2>9, <2>10
    DEF Successors, States, Pending, Active, Visible, Ended, InProgress
<1> QED
  BY <1>4, <1>5, <1>6

LEMMA TreeMovesLife ==
    ASSUME DurableInv, NEW b \in Builds, TreeMoves(b)
    PROVE  Lifecycle!Next \/ UNCHANGED Lifecycle!lifeVars
<1> DEFINE Whole == {c \in Builds : tree[c] = "complete"}
<1>1. /\ UNCHANGED durable
      /\ [c \in Builds |-> Phase(durable'[c].state)] = [c \in Builds |-> Phase(durable[c].state)]
      /\ {c \in Builds : durable'[c].hash # NoBuild} = {c \in Builds : durable[c].hash # NoBuild}
  BY DEF TreeMoves
<1>2. tree \in [Builds -> Trees]
  BY DEF DurableInv, IndInv, TypeOK
<1>3. CASE durable[b].state = "MATERIALIZING" /\ tree' = [tree EXCEPT ![b] = "complete"]
  <2>1. Whole' = Whole \cup {b}
    BY <1>2, <1>3
  <2>2. Phase(durable[b].state) = "building"
    BY <1>3, PhaseOf DEF Active
  <2>3. CASE b \in Whole
    BY <1>1, <2>1, <2>3 DEF Lifecycle!lifeVars
  <2>4. CASE b \notin Whole
    <3>1. Lifecycle!Materialize(b)
      BY <1>1, <2>1, <2>2, <2>4 DEF Lifecycle!Materialize
    <3> QED
      BY <3>1 DEF Lifecycle!Next
  <2> QED
    BY <2>3, <2>4
<1>4. ASSUME durable[b].state = "DELETING", durable[b].hash # NoBuild,
             NEW t \in Trees \ {"complete"}, tree' = [tree EXCEPT ![b] = t]
      PROVE  Lifecycle!Next
  <2>1. Whole' = Whole \ {b}
    BY <1>2, <1>4
  <2>2. Phase(durable[b].state) = "deleting"
    BY <1>4, PhaseOf
  <2>3. Lifecycle!Remove(b)
    BY <1>1, <1>4, <2>1, <2>2 DEF Lifecycle!Remove
  <2> QED
    BY <2>3 DEF Lifecycle!Next
<1> QED
  BY <1>3, <1>4 DEF TreeMoves

LEMMA StepMovesLife ==
    ASSUME DurableInv, [Next]_vars, faults' = 0
    PROVE  [Lifecycle!Next]_(Lifecycle!lifeVars)
<1>1. DurableInv'
  BY DurableInvStep
<1>2. ASSUME NEW b \in Builds, Moves(b)
      PROVE  Lifecycle!Next \/ UNCHANGED Lifecycle!lifeVars
  BY <1>1, <1>2, RecordMovesLife
<1>3. ASSUME NEW b \in Builds, TreeMoves(b)
      PROVE  Lifecycle!Next \/ UNCHANGED Lifecycle!lifeVars
  BY <1>3, TreeMovesLife
<1>4. CASE UNCHANGED <<durable, tree>>
  BY <1>4 DEF Lifecycle!lifeVars
<1> QED
  BY <1>2, <1>3, <1>4, DurableMoves, MovingTree DEF Moves

\* As long as no write fails, the service with its threads, queue, memory,
\* crashes and recovery does nothing that the lifecycle does not allow: every
\* step of it is one of the lifecycle, or invisible to its callers.
THEOREM ServiceImplementsLifecycle ==
    ASSUME MaxFaults = 0
    PROVE  Spec => ImplementsLifecycle
<1>1. Init => Lifecycle!Init
  <2> SUFFICES ASSUME Init PROVE Lifecycle!Init
    OBVIOUS
  <2>1. \A b \in Builds : /\ durable[b].state = "ABSENT" /\ durable[b].hash = NoBuild
                          /\ tree[b] # "complete"
    BY DEF Init, NoRecord
  <2> QED
    BY <2>1, PhaseOf DEF Lifecycle!Init
<1>2. DurableInv /\ [Next]_vars => [Lifecycle!Next]_(Lifecycle!lifeVars)
  <2> SUFFICES ASSUME DurableInv, [Next]_vars
               PROVE  [Lifecycle!Next]_(Lifecycle!lifeVars)
    OBVIOUS
  <2>1. IndInv'
    BY NextPreserves DEF DurableInv
  <2>2. faults' = 0
    BY <2>1 DEF IndInv, TypeOK
  <2> QED
    BY <2>2, StepMovesLife
<1> QED
  BY <1>1, <1>2, DurableInvariance, PTL DEF Spec, ImplementsLifecycle, Lifecycle!Spec
=============================================================================
