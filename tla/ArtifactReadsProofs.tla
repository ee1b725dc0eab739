------------------------ MODULE ArtifactReadsProofs ------------------------
(***************************************************************************)
(* For any set of readers and any bounds: one reader downloads a file, the *)
(* Hugging Face store serves what the manifest pins, a purge that met no   *)
(* request leaves only what its removal could not remove, and no request   *)
(* is refused without cause.                                               *)
(***************************************************************************)
EXTENDS ArtifactReads, TLAPS

Pcs == {"idle", "lock", "check", "parse", "fetch", "write", "open", "done"}
Results == {"none", "good", "bad", "refused"}
Requested == [pc : Pcs, want : Files, at : 1 .. 4, result : Results,
              excused : BOOLEAN, tainted : BOOLEAN]

\* The shape of the state, without the bound of "at".
Shape == /\ reader \in [Readers -> Requested]
         /\ cache \in [Files -> {"absent", "good", "bad"}]

\* A request that reads a manifest has a further file.
AtFile == \A r \in Readers :
    /\ reader[r].at <= Len(Chain(reader[r].want))
    /\ reader[r].pc = "parse" => reader[r].at < Len(Chain(reader[r].want))

\* Whoever looks at the cache with the intention to fetch holds the lock.
Locked == \A r \in Readers :
    /\ reader[r].pc \in {"lock", "fetch", "write"} => Remote
    /\ Remote /\ reader[r].pc \in {"check", "fetch", "write"} => lock = r
    /\ InsideLock(r) /\ reader[r].pc = "parse" => lock = r

\* What is about to be opened is what the manifest pins.
OpensPinned == \A r \in Readers :
    reader[r].pc = "open" /\ ~reader[r].tainted => cache[File(r)] # "bad"

\* A purge that met no request is alone until the restart of the service.
Purging ==
    /\ purger # "idle" => state = "DELETING"
    /\ state \in {"DELETING", "DELETED"} /\ ~overlapped => \A r \in Readers : ~Active(r)
    /\ purger = "local" /\ ~overlapped =>
         \A f \in Files \ listed : cache[f] = "absent" \/ f \in kept
    /\ LeftoverHasCause

LEMMA ChainFiles ==
    ASSUME NEW want \in Files, NEW at \in 1 .. 4, at <= Len(Chain(want))
    PROVE  /\ Chain(want)[at] \in Files
           /\ at < Len(Chain(want)) => at + 1 \in 1 .. 4
  BY DEF Chain, Files


\* What a step to another point of its request does to the readers.
LEMMA GotoEffect ==
    ASSUME Shape, NEW r \in Readers, NEW pc \in Pcs, Goto(r, pc)
    PROVE  /\ reader' \in [Readers -> Requested]
           /\ reader'[r] = [reader[r] EXCEPT !.pc = pc]
           /\ \A q \in Readers \ {r} : reader'[q] = reader[q]
  BY DEF Shape, Goto, Requested

LEMMA GotoFields ==
    ASSUME Shape, NEW r \in Readers, NEW pc \in Pcs, Goto(r, pc)
    PROVE  /\ reader'[r].pc = pc /\ reader'[r].at = reader[r].at
           /\ reader'[r].want = reader[r].want /\ reader'[r].result = reader[r].result
<1>1. reader'[r] = [reader[r] EXCEPT !.pc = pc]  BY GotoEffect
<1>2. reader[r] \in Requested  BY DEF Shape
<1> QED  BY <1>1, <1>2 DEF Requested

LEMMA ResolvedFields ==
    ASSUME Shape, NEW r \in Readers, Resolved(r)
    PROVE  /\ reader'[r].pc \in {"open", "parse"} /\ reader'[r].at = reader[r].at
           /\ reader'[r].want = reader[r].want
<1>1. (IF IsLast(r) THEN "open" ELSE "parse") \in Pcs  BY DEF Pcs
<1> QED  BY <1>1, GotoFields DEF Resolved

LEMMA EndsEffect ==
    ASSUME Shape, NEW r \in Readers, NEW result \in Results, Ends(r, result)
    PROVE  /\ reader' \in [Readers -> Requested]
           /\ reader'[r] = [reader[r] EXCEPT !.pc = "done", !.result = result]
           /\ \A q \in Readers \ {r} : reader'[q] = reader[q]
<1>1. reader[r] \in Requested  BY DEF Shape
<1>2. [reader[r] EXCEPT !.pc = "done", !.result = result] \in Requested
  BY <1>1 DEF Requested, Pcs
<1>3. reader' = [reader EXCEPT ![r] = [reader[r] EXCEPT !.pc = "done", !.result = result]]
  BY DEF Ends
<1> QED  BY <1>2, <1>3 DEF Shape

\* Every step leaves the state in shape.
LEMMA ShapeStep ==
    ASSUME Shape, AtFile, [Next]_vars
    PROVE  Shape'
<1>1. CASE UNCHANGED vars
  BY <1>1 DEF Shape, vars, store, build
<1>2. ASSUME NEW r \in Readers, Begin(r) PROVE Shape'
  <2>1. PICK want \in Files : reader' = [reader EXCEPT ![r] =
          IF state \notin Gate(want)
          THEN [Request("done", want) EXCEPT !.result = "refused", !.excused = TRUE]
          ELSE Request(IF Remote THEN "lock" ELSE "check", want)]
    BY <1>2 DEF Begin
  <2>2. Request("done", want) \in Requested /\ Request("lock", want) \in Requested
        /\ Request("check", want) \in Requested
    BY DEF Request, Requested, Pcs, Results
  <2>3. [Request("done", want) EXCEPT !.result = "refused", !.excused = TRUE] \in Requested
    BY <2>2 DEF Requested, Results
  <2> QED  BY <1>2, <2>1, <2>2, <2>3 DEF Shape, Begin, store
<1>3. ASSUME NEW r \in Readers, Acquire(r) PROVE Shape'
  BY <1>3, GotoEffect DEF Acquire, Shape, Pcs
<1>4. ASSUME NEW r \in Readers, Parse(r) PROVE Shape'
  <2>1. reader[r] \in Requested /\ reader[r].at < Len(Chain(reader[r].want))
    BY <1>4 DEF Parse, Shape, AtFile
  <2>2. reader[r].at + 1 \in 1 .. 4  BY <2>1, ChainFiles DEF Requested
  <2>3. (IF Remote /\ lock # r THEN "lock" ELSE "check") \in Pcs  BY DEF Pcs
  <2>4. reader' \in [Readers -> Requested]
    BY <1>4, <2>1, <2>2, <2>3 DEF Parse, Shape, Requested
  <2>5. cache' = cache  BY <1>4 DEF Parse, store
  <2> QED  BY <2>4, <2>5 DEF Shape
<1>5. ASSUME NEW r \in Readers, ReadFails(r) PROVE Shape'
  BY <1>5, EndsEffect DEF ReadFails, Refuse, Shape, Results
<1>6. ASSUME NEW r \in Readers, UseCache(r) PROVE Shape'
  BY <1>6, GotoEffect DEF UseCache, Resolved, Shape, Pcs
<1>7. ASSUME NEW r \in Readers, Miss(r) PROVE Shape'
  <2>1. cache' \in [Files -> {"absent", "good", "bad"}]  BY <1>7 DEF Miss, Shape
  <2>2. CASE Remote  BY <1>7, <2>1, <2>2, GotoEffect DEF Miss, Shape, Pcs
  <2>3. CASE ~Remote  BY <1>7, <2>1, <2>3, EndsEffect DEF Miss, Refuse, Shape, Results
  <2> QED  BY <2>2, <2>3
<1>8. ASSUME NEW r \in Readers, Fetch(r) PROVE Shape'
  <2>1. CASE uploaded  BY <1>8, <2>1, GotoEffect DEF Fetch, Shape, Pcs
  <2>2. CASE ~uploaded  BY <1>8, <2>2, EndsEffect DEF Fetch, Refuse, Shape, Results
  <2> QED  BY <2>1, <2>2
<1>9. ASSUME NEW r \in Readers, FetchFails(r) PROVE Shape'
  <2>1. [reader[r] EXCEPT !.pc = "done", !.result = "refused", !.excused = TRUE] \in Requested
    BY DEF Shape, Requested, Pcs, Results
  <2>2. reader' = [reader EXCEPT ![r] =
          [reader[r] EXCEPT !.pc = "done", !.result = "refused", !.excused = TRUE]]
    BY <1>9 DEF FetchFails, Shape
  <2> QED  BY <1>9, <2>1, <2>2 DEF Shape, FetchFails
<1>21. ASSUME NEW r \in Readers, WriteRaces(r) PROVE Shape'
  BY <1>21, EndsEffect DEF WriteRaces, Refuse, Shape, Results
<1>10. ASSUME NEW r \in Readers, Write(r) PROVE Shape'
  <2>1. cache' \in [Files -> {"absent", "good", "bad"}]  BY <1>10 DEF Write, Shape
  <2> QED  BY <1>10, <2>1, GotoEffect DEF Write, Resolved, Shape, Pcs
<1>11. ASSUME NEW r \in Readers, Open(r) PROVE Shape'
  <2>1. cache[File(r)] \in {"absent", "good", "bad"}
    BY ChainFiles DEF Shape, AtFile, File, Requested
  <2> QED  BY <1>11, <2>1, EndsEffect DEF Open, Shape, Results, store
<1>12. CASE Acknowledge
  BY <1>12 DEF Shape, Requested, Pcs, Results, Acknowledge, store, build, Request, NoRequest
<1>13. CASE Deprecate
  BY <1>13 DEF Shape, Requested, Pcs, Results, Deprecate, store, build, Request, NoRequest
<1>14. CASE BeginPurge
  BY <1>14 DEF Shape, Requested, Pcs, Results, BeginPurge, store, build, Request, NoRequest
<1>15. CASE PurgeTree
  BY <1>15 DEF Shape, Requested, Pcs, Results, PurgeTree, store, build, Request, NoRequest
<1>16. CASE PurgeFails
  BY <1>16 DEF Shape, Requested, Pcs, Results, PurgeFails, store, build, Request, NoRequest
<1>17. CASE EndPurge
  BY <1>17 DEF Shape, Requested, Pcs, Results, EndPurge, store, build, Request, NoRequest
<1>18. CASE Restart
  <2>1. NoRequest \in Requested  BY DEF NoRequest, Request, Requested, Pcs, Files, Results
  <2>2. reader' \in [Readers -> Requested]  BY <1>18, <2>1 DEF Restart
  <2>3. cache' \in [Files -> {"absent", "good", "bad"}]  BY <1>18 DEF Restart, Shape
  <2> QED  BY <2>2, <2>3 DEF Shape
<1>19. ASSUME NEW f \in Files, PurgeFile(f) PROVE Shape'
  BY <1>19 DEF Shape, Requested, Pcs, Results, PurgeFile, build
<1>20. ASSUME NEW f \in Files, Damage(f) PROVE Shape'
  BY <1>20 DEF Shape, Requested, Pcs, Results, Damage, build
<1> QED
  BY <1>1, <1>2, <1>3, <1>4, <1>5, <1>6, <1>7, <1>8, <1>9, <1>10, <1>11, <1>12, <1>13,
     <1>14, <1>15, <1>16, <1>17, <1>18, <1>19, <1>20, <1>21 DEF Next, Step, Purge

\* Only a running request steps, and only an idle reader begins one.
LEMMA StepIsActive ==
    ASSUME NEW r \in Readers, Step(r)
    PROVE  Active(r) /\ ~Begin(r)
<1>1. Active(r)
  BY DEF Step, Active, Acquire, Parse, ReadFails, UseCache, Miss, Fetch, FetchFails, WriteRaces, Write,
         Open, NeedsRoot
<1> QED  BY <1>1 DEF Begin

\* A step of a request touches that request only, and its wanted file stays.
LEMMA OneRequestMoves ==
    ASSUME Shape, AtFile, NEW r \in Readers, Begin(r) \/ Step(r)
    PROVE  /\ \A q \in Readers \ {r} : reader'[q] = reader[q]
           /\ \/ Begin(r) /\ reader'[r].pc \in {"done", "lock", "check"}
                 /\ (reader'[r].pc = "lock" => Remote) /\ (reader'[r].pc = "check" => ~Remote)
                 /\ (reader'[r].pc # "done" => state \notin {"DELETING", "DELETED"})
                 /\ reader'[r].at = 1 /\ reader'[r].result # "bad"
              \/ Step(r) /\ Active(r) /\ reader'[r].want = reader[r].want
                 /\ reader'[r].at = reader[r].at + (IF Parse(r) THEN 1 ELSE 0)
                 /\ reader'[r].tainted = reader[r].tainted
                 /\ (reader'[r].result # reader[r].result => reader'[r].pc = "done")
<1>1. CASE Begin(r)
  <2>1. PICK want \in Files : reader' = [reader EXCEPT ![r] =
          IF state \notin Gate(want)
          THEN [Request("done", want) EXCEPT !.result = "refused", !.excused = TRUE]
          ELSE Request(IF Remote THEN "lock" ELSE "check", want)]
    BY <1>1 DEF Begin
  <2>2. /\ \A q \in Readers \ {r} : reader'[q] = reader[q]
        /\ reader'[r] = IF state \notin Gate(want)
             THEN [Request("done", want) EXCEPT !.result = "refused", !.excused = TRUE]
             ELSE Request(IF Remote THEN "lock" ELSE "check", want)
    BY <2>1 DEF Shape
  <2>3. state \in Gate(want) => state \notin {"DELETING", "DELETED"}
    BY DEF Gate
  <2>4. CASE state \notin Gate(want)
    BY <1>1, <2>2, <2>4 DEF Request
  <2>5. CASE state \in Gate(want) /\ Remote
    <3>1. reader'[r] = Request("lock", want)  BY <2>2, <2>5
    <3>2. /\ reader'[r].pc = "lock" /\ reader'[r].at = 1 /\ reader'[r].result # "bad"
      BY <3>1 DEF Request
    <3> QED  BY <1>1, <2>2, <2>3, <2>5, <3>2
  <2>6. CASE state \in Gate(want) /\ ~Remote
    <3>1. reader'[r] = Request("check", want)  BY <2>2, <2>6
    <3>2. /\ reader'[r].pc = "check" /\ reader'[r].at = 1 /\ reader'[r].result # "bad"
      BY <3>1 DEF Request
    <3> QED  BY <1>1, <2>2, <2>3, <2>6, <3>2
  <2> QED  BY <2>4, <2>5, <2>6
<1>2. CASE Parse(r)
  BY <1>2 DEF Shape, Requested, Parse, Active, Step
<1>3. CASE Step(r) /\ ~Parse(r)
  <2>1. /\ \/ \E pc \in Pcs : reader'[r] = [reader[r] EXCEPT !.pc = pc]
           \/ \E result \in Results :
                reader'[r] = [reader[r] EXCEPT !.pc = "done", !.result = result]
           \/ reader'[r] = [reader[r] EXCEPT !.pc = "done", !.result = "refused", !.excused = TRUE]
        /\ \A q \in Readers \ {r} : reader'[q] = reader[q]
    <3>1. CASE Acquire(r)  BY <3>1, GotoEffect DEF Acquire, Pcs
    <3>2. CASE ReadFails(r) \/ WriteRaces(r)
      BY <3>2, EndsEffect DEF ReadFails, WriteRaces, Refuse, Results
    <3>3. CASE UseCache(r)  BY <3>3, GotoEffect DEF UseCache, Resolved, Pcs
    <3>4. CASE Miss(r)
      BY <3>4, GotoEffect, EndsEffect DEF Miss, Refuse, Pcs, Results
    <3>5. CASE Fetch(r)
      BY <3>5, GotoEffect, EndsEffect DEF Fetch, Refuse, Pcs, Results
    <3>6. CASE FetchFails(r)  BY <3>6 DEF FetchFails, Shape
    <3>7. CASE Write(r)  BY <3>7, GotoEffect DEF Write, Resolved, Pcs
    <3>8. CASE Open(r)
      <4>1. cache[File(r)] \in {"absent", "good", "bad"}
        BY ChainFiles DEF Shape, AtFile, File, Requested
      <4> QED  BY <3>8, <4>1, EndsEffect DEF Open, Results
    <3> QED  BY <1>3, <3>1, <3>2, <3>3, <3>4, <3>5, <3>6, <3>7, <3>8 DEF Step
  <2>2. Active(r)  BY <1>3, StepIsActive
  <2>3. reader[r] \in Requested  BY DEF Shape
  <2>4. /\ reader'[r].want = reader[r].want /\ reader'[r].at = reader[r].at
        /\ reader'[r].tainted = reader[r].tainted
        /\ (reader'[r].result # reader[r].result => reader'[r].pc = "done")
    BY <2>1, <2>3 DEF Requested
  <2>5. reader[r].at + 0 = reader[r].at  BY <2>3 DEF Requested
  <2> QED  BY <1>3, <2>1, <2>2, <2>4, <2>5
<1> QED  BY <1>1, <1>2, <1>3

\* Steps of others leave every request where it is.
LEMMA RequestsStay ==
    ASSUME Shape, BeginPurge \/ (\E f \in Files : Damage(f)) \/ Acknowledge \/ Deprecate
                  \/ Purge \/ PurgeFails \/ UNCHANGED vars
    PROVE  \A r \in Readers :
             /\ reader'[r].pc = reader[r].pc /\ reader'[r].want = reader[r].want
             /\ reader'[r].at = reader[r].at /\ reader'[r].result = reader[r].result
             /\ reader[r].tainted => reader'[r].tainted
<1>1. CASE BeginPurge
  <2> SUFFICES ASSUME NEW r \in Readers
               PROVE  reader'[r] = [reader[r] EXCEPT !.excused = @ \/ Active(r)]
    BY DEF Shape, Requested
  <2> QED  BY <1>1 DEF BeginPurge
<1>2. ASSUME NEW f \in Files, Damage(f)
      PROVE  \A r \in Readers :
               /\ reader'[r].pc = reader[r].pc /\ reader'[r].want = reader[r].want
               /\ reader'[r].at = reader[r].at /\ reader'[r].result = reader[r].result
               /\ reader[r].tainted => reader'[r].tainted
  <2> SUFFICES ASSUME NEW r \in Readers
               PROVE  reader'[r] = [reader[r] EXCEPT !.excused = @ \/ Active(r),
                                                     !.tainted = @ \/ Active(r)]
    BY DEF Shape, Requested
  <2> QED  BY <1>2 DEF Damage
<1>3. CASE Acknowledge \/ Deprecate \/ Purge \/ PurgeFails \/ UNCHANGED vars
  <2>1. reader' = reader
    BY <1>3 DEF Acknowledge, Deprecate, Purge, PurgeTree, PurgeFails, PurgeFile, EndPurge,
                vars
  <2> QED  BY <2>1
<1> QED  BY <1>1, <1>2, <1>3

\* The bound of "at".
LEMMA AtStep ==
    ASSUME Shape, AtFile, [Next]_vars
    PROVE  AtFile'
<1>1. CASE BeginPurge \/ (\E f \in Files : Damage(f)) \/ Acknowledge \/ Deprecate
           \/ Purge \/ PurgeFails \/ UNCHANGED vars
  BY <1>1, RequestsStay DEF AtFile
<1>2. CASE Restart
  <2>1. \A r \in Readers : reader'[r] = NoRequest  BY <1>2 DEF Restart
  <2> QED  BY <2>1 DEF AtFile, NoRequest, Request, Chain
<1>3. ASSUME NEW r \in Readers, Begin(r) \/ Step(r) PROVE AtFile'
  <2>1. CASE Begin(r)
    <3>1. reader'[r].want \in Files
      BY <1>3, ShapeStep DEF Shape, Requested, Next
    <3>2. reader'[r].at = 1 /\ reader'[r].pc # "parse"
      BY <1>3, <2>1, OneRequestMoves DEF Begin, Step, Active
    <3>3. 1 <= Len(Chain(reader'[r].want))  BY <3>1 DEF Chain, Files
    <3> QED  BY <1>3, <3>2, <3>3, OneRequestMoves DEF AtFile
  <2>2. CASE Step(r) /\ ~Parse(r)
    <3>1. reader'[r].pc = "parse" => ~IsLast(r)
      <4>1. CASE Acquire(r)  BY <4>1, GotoEffect DEF Acquire, Pcs, Shape, Requested
      <4>2. CASE UseCache(r) \/ Write(r)
        BY <4>2, GotoEffect DEF UseCache, Write, Resolved, Pcs, Shape, Requested
      <4>3. CASE ReadFails(r) \/ WriteRaces(r) \/ Open(r)
        BY <4>3 DEF ReadFails, WriteRaces, Refuse, Open, Ends, Shape, Requested
      <4>4. CASE Miss(r) \/ Fetch(r)
        BY <4>4 DEF Miss, Fetch, Refuse, Ends, Goto, Shape, Requested
      <4>5. CASE FetchFails(r)  BY <4>5 DEF FetchFails, Shape, Requested
      <4> QED  BY <2>2, <4>1, <4>2, <4>3, <4>4, <4>5 DEF Step
    <3>2. /\ reader'[r].at = reader[r].at /\ reader'[r].want = reader[r].want
          /\ \A q \in Readers \ {r} : reader'[q] = reader[q]
      <4>1. ~Begin(r)  BY <2>2, StepIsActive
      <4>2. reader[r].at + 0 = reader[r].at  BY DEF Shape, Requested
      <4> QED  BY <2>2, <4>1, <4>2, OneRequestMoves
    <3>3. reader[r].want \in Files /\ reader[r].at \in 1 .. 4  BY DEF Shape, Requested
    <3>4. Len(Chain(reader[r].want)) \in Nat  BY <3>3 DEF Chain, Files
    <3> QED  BY <3>1, <3>2, <3>3, <3>4 DEF AtFile, IsLast
  <2>3. CASE Parse(r)
    <3>1. /\ reader'[r].at = reader[r].at + 1 /\ reader'[r].want = reader[r].want
          /\ reader'[r].pc # "parse" /\ \A q \in Readers \ {r} : reader'[q] = reader[q]
      BY <2>3 DEF Parse, Shape, Requested
    <3>2. reader[r].want \in Files /\ reader[r].at \in 1 .. 4  BY DEF Shape, Requested
    <3>3. Len(Chain(reader[r].want)) \in Nat  BY <3>2 DEF Chain, Files
    <3>4. reader[r].at < Len(Chain(reader[r].want))  BY <2>3 DEF AtFile, Parse
    <3> QED  BY <3>1, <3>2, <3>3, <3>4 DEF AtFile
  <2> QED  BY <1>3, <2>1, <2>2, <2>3
<1> QED  BY <1>1, <1>2, <1>3 DEF Next

\* Whoever fetches holds the lock, and what it fetches is not cached.
LEMMA FetchStep ==
    ASSUME Shape, AtFile, Locked, NothingFetchedTwice, [Next]_vars
    PROVE  Locked' /\ NothingFetchedTwice'
<1>1. CASE BeginPurge \/ (\E f \in Files : Damage(f)) \/ Acknowledge \/ Deprecate
           \/ Purge \/ PurgeFails \/ UNCHANGED vars
  <2>1. /\ lock' = lock /\ Shape'
        /\ \A f \in Files : cache'[f] = "good" => cache[f] = "good"
    BY <1>1, ShapeStep DEF Shape, BeginPurge, Damage, Acknowledge, Deprecate, Purge, PurgeTree,
                PurgeFails, PurgeFile, EndPurge, vars, store, build
  <2>2. \A r \in Readers : File(r)' = File(r) /\ File(r) \in Files
    BY <1>1, RequestsStay, ChainFiles DEF File, Shape, AtFile, Requested
  <2> QED  BY <1>1, <2>1, <2>2, RequestsStay DEF Locked, NothingFetchedTwice, InsideLock
<1>2. CASE Restart
  <2>1. \A r \in Readers : reader'[r].pc = "idle"  BY <1>2 DEF Restart, NoRequest, Request
  <2> QED  BY <2>1 DEF Locked, NothingFetchedTwice
<1>3. ASSUME NEW r \in Readers, Begin(r) PROVE Locked' /\ NothingFetchedTwice'
  <2>1. /\ reader'[r].pc \in {"done", "lock", "check"} /\ lock' = lock /\ cache' = cache
        /\ (reader'[r].pc = "lock" => Remote) /\ (reader'[r].pc = "check" => ~Remote)
        /\ \A q \in Readers \ {r} : reader'[q] = reader[q]
    BY <1>3, OneRequestMoves DEF Begin, store, Active
  <2> QED  BY <2>1 DEF Locked, NothingFetchedTwice, InsideLock, File
<1>4. ASSUME NEW r \in Readers, Step(r) PROVE Locked' /\ NothingFetchedTwice'
  <2>1. /\ \A q \in Readers \ {r} : reader'[q] = reader[q]
        /\ reader'[r].want = reader[r].want
    BY <1>4, StepIsActive, OneRequestMoves
  <2>2. reader[r] \in Requested /\ reader'[r] \in Requested
    BY <1>4, ShapeStep DEF Shape, Next
  <2>3. CASE Acquire(r)
    <3>1. reader'[r].pc = "check" /\ lock = Nobody /\ lock' = r /\ cache' = cache
      BY <2>3, GotoFields DEF Acquire, LockFree, Pcs
    <3>2. Remote  BY <2>3 DEF Acquire, Locked
    <3>3. Locked'
      BY <2>1, <3>1, <3>2, ReadersAssumption DEF Locked, InsideLock
    <3>4. NothingFetchedTwice'
      BY <2>1, <3>1 DEF NothingFetchedTwice, File
    <3> QED  BY <3>3, <3>4
  <2>4. CASE Parse(r)
    <3>1. /\ reader'[r].pc = IF Remote /\ lock # r THEN "lock" ELSE "check"
          /\ lock' = lock /\ cache' = cache
      BY <2>4, <2>2 DEF Parse, store, Shape, Requested
    <3>2. reader'[r].pc \in {"lock", "check"} /\ (reader'[r].pc = "lock" => Remote)
          /\ (reader'[r].pc = "check" /\ Remote => lock = r)
      BY <3>1
    <3> QED  BY <2>1, <3>1, <3>2 DEF Locked, NothingFetchedTwice, File, InsideLock
  <2>5. CASE ReadFails(r) \/ Open(r) \/ FetchFails(r) \/ WriteRaces(r)
    <3>1. reader'[r].pc = "done" /\ cache' = cache
      BY <2>5 DEF ReadFails, Open, FetchFails, WriteRaces, Refuse, Ends, store, Shape, Requested
    <3>2. lock' = lock \/ (lock = r /\ lock' = Nobody)
      BY <2>5 DEF ReadFails, Open, FetchFails, WriteRaces, Refuse, UnlockOnError, store
    <3> QED  BY <2>1, <3>1, <3>2 DEF Locked, NothingFetchedTwice, File, InsideLock
  <2>6. CASE UseCache(r)
    <3>1. /\ reader'[r].pc \in {"open", "parse"} /\ cache' = cache
          /\ reader'[r].at = reader[r].at
      BY <2>6, ResolvedFields DEF UseCache
    <3>2. lock' = IF lock = r /\ ~InsideLock(r) THEN Nobody ELSE lock
      BY <2>6 DEF UseCache, Resolved
    <3>3. InsideLock(r) => lock = r  BY <2>6 DEF Locked, UseCache, InsideLock
    <3> QED  BY <2>1, <3>1, <3>2, <3>3 DEF Locked, NothingFetchedTwice, File, InsideLock
  <2>7. CASE Miss(r)
    <3>1. CASE ~Remote
      <4>1. reader'[r].pc = "done" /\ cache' = cache
        BY <2>7, <3>1 DEF Miss, Refuse, Ends, Shape, Requested
      <4>2. lock' = lock \/ (lock = r /\ lock' = Nobody)
        BY <2>7, <3>1 DEF Miss, Refuse, UnlockOnError
      <4> QED  BY <2>1, <4>1, <4>2 DEF Locked, NothingFetchedTwice, File, InsideLock
    <3>2. CASE Remote
      <4>1. /\ reader'[r].pc = "fetch" /\ lock' = lock /\ lock = r
            /\ reader'[r].at = reader[r].at
        BY <2>7, <3>2, GotoFields DEF Miss, Locked, Pcs
      <4>2. File(r) \in Files  BY <2>2, ChainFiles DEF File, AtFile, Requested
      <4>3. /\ cache'[File(r)] # "good"
            /\ \A f \in Files : cache'[f] = "good" => cache[f] = "good"
        BY <2>7, <3>2, <4>2 DEF Miss, Hit, Shape
      <4>4. \A q \in Readers : File(q) \in Files
        BY ChainFiles DEF File, AtFile, Shape, Requested
      <4> QED  BY <2>1, <3>2, <4>1, <4>3, <4>4 DEF Locked, NothingFetchedTwice, File, InsideLock
    <3> QED  BY <3>1, <3>2
  <2>8. CASE Fetch(r)
    <3>1. /\ reader'[r].pc \in {"write", "done"} /\ cache' = cache
          /\ reader'[r].at = reader[r].at
      BY <2>8 DEF Fetch, Goto, Refuse, Ends, Shape, Requested
    <3>2. \/ lock' = lock
          \/ lock = r /\ lock' = Nobody /\ reader'[r].pc = "done"
      BY <2>8 DEF Fetch, Refuse, Ends, UnlockOnError, Shape, Requested
    <3>3. reader[r].pc = "fetch"  BY <2>8 DEF Fetch
    <3> QED  BY <2>1, <3>1, <3>2, <3>3 DEF Locked, NothingFetchedTwice, File, InsideLock
  <2>9. CASE Write(r)
    <3>1. reader'[r].pc \in {"open", "parse"} /\ reader'[r].at = reader[r].at
      BY <2>9, ResolvedFields DEF Write
    <3>2. lock' = IF lock = r /\ ~InsideLock(r) THEN Nobody ELSE lock
      BY <2>9 DEF Write, Resolved
    <3>3. Remote /\ lock = r  BY <2>9 DEF Locked, Write
    <3>4. \A q \in Readers \ {r} : reader[q].pc \notin {"fetch", "write"}
      BY <3>3 DEF Locked
    <3> QED  BY <2>1, <3>1, <3>2, <3>3, <3>4 DEF Locked, NothingFetchedTwice, InsideLock
  <2> QED  BY <1>4, <2>3, <2>4, <2>5, <2>6, <2>7, <2>8, <2>9 DEF Step
<1> QED  BY <1>1, <1>2, <1>3, <1>4 DEF Next

\* What a request of the Hugging Face store opens is what the manifest pins.
LEMMA PinStep ==
    ASSUME Remote, Shape, AtFile, Locked, NothingFetchedTwice, OpensPinned, ServedIsPinned,
           [Next]_vars
    PROVE  OpensPinned' /\ ServedIsPinned'
<1> USE DEF OpensPinned, ServedIsPinned
<1> \A q \in Readers : File(q) \in Files
  BY ChainFiles DEF File, AtFile, Shape, Requested
<1>1. CASE BeginPurge \/ Acknowledge \/ Deprecate \/ Purge \/ PurgeFails \/ UNCHANGED vars
  <2>1. \A f \in Files : cache'[f] = "bad" => cache[f] = "bad"
    BY <1>1 DEF Shape, BeginPurge, Acknowledge, Deprecate, Purge, PurgeTree, PurgeFails,
                PurgeFile, EndPurge, vars, store, build
  <2>2. \A r \in Readers : File(r)' = File(r)  BY <1>1, RequestsStay DEF File
  <2> QED  BY <1>1, <2>1, <2>2, RequestsStay
<1>2. ASSUME NEW f \in Files, Damage(f) PROVE OpensPinned' /\ ServedIsPinned'
  <2>1. \A r \in Readers : reader[r].pc = "open" => reader'[r].tainted
    BY <1>2 DEF Damage, Shape, Requested, Active
  <2> QED  BY <1>2, <2>1, RequestsStay
<1>3. CASE Restart
  <2>1. \A r \in Readers : reader'[r].pc = "idle" /\ reader'[r].result = "none"
    BY <1>3 DEF Restart, NoRequest, Request
  <2> QED  BY <2>1
<1>4. ASSUME NEW r \in Readers, Begin(r) PROVE OpensPinned' /\ ServedIsPinned'
  <2>1. /\ reader'[r].pc # "open" /\ reader'[r].result # "bad" /\ cache' = cache
        /\ \A q \in Readers \ {r} : reader'[q] = reader[q]
    BY <1>4, OneRequestMoves DEF Begin, store, Active
  <2> QED  BY <2>1 DEF File
<1>5. ASSUME NEW r \in Readers, Step(r) PROVE OpensPinned' /\ ServedIsPinned'
  <2>1. /\ \A q \in Readers \ {r} : reader'[q] = reader[q]
        /\ reader'[r].want = reader[r].want /\ reader'[r].tainted = reader[r].tainted
    BY <1>5, StepIsActive, OneRequestMoves
  <2>2. reader[r] \in Requested /\ reader'[r] \in Requested
    BY <1>5, ShapeStep DEF Shape, Next
  <2>3. \A f \in Files : cache'[f] = "bad" => cache[f] = "bad"
    BY <1>5 DEF Step, Acquire, Parse, ReadFails, UseCache, Miss, Fetch, FetchFails, WriteRaces, Write, Open,
                store, Shape
  <2>4. reader'[r].pc = "open" => File(r)' = File(r) /\ cache'[File(r)] = "good"
    <3>1. CASE UseCache(r)
      BY <3>1, ResolvedFields DEF UseCache, Hit, File
    <3>2. CASE Write(r)
      BY <3>2, ResolvedFields DEF Write, Shape, File
    <3>3. CASE ~UseCache(r) /\ ~Write(r)
      BY <1>5, <2>2, <3>3
         DEF Step, Acquire, Parse, ReadFails, Miss, Fetch, FetchFails, WriteRaces, Open, Refuse, Ends, Goto,
             Shape, Requested
    <3> QED  BY <3>1, <3>2, <3>3
  <2>5. reader'[r].result = "bad" => reader[r].tainted
    <3>1. CASE Open(r)
      BY <3>1 DEF Open, Ends, Shape, Requested
    <3>2. CASE ~Open(r)
      BY <1>5, <3>2
         DEF Step, Acquire, Parse, ReadFails, UseCache, Miss, Fetch, FetchFails, WriteRaces, Write, Resolved,
             Refuse, Ends, Goto, Shape, Requested
    <3> QED  BY <3>1, <3>2
  <2> QED  BY <2>1, <2>3, <2>4, <2>5 DEF File
<1> QED  BY <1>1, <1>2, <1>3, <1>4, <1>5 DEF Next

\* A purge that met no request removes every file, and nobody writes one again.
LEMMA PurgeStep ==
    ASSUME Shape, AtFile, Purging, [Next]_vars
    PROVE  Purging'
<1> USE DEF Purging, LeftoverHasCause
<1>1. ASSUME NEW r \in Readers, Begin(r) PROVE Purging'
  <2>1. /\ UNCHANGED <<state, purger, listed, kept, overlapped, cache>>
        /\ \A q \in Readers \ {r} : reader'[q] = reader[q]
        /\ state \in {"DELETING", "DELETED"} => reader'[r].pc = "done"
    BY <1>1, StepIsActive, OneRequestMoves DEF Begin, store, build
  <2> QED  BY <1>1, <2>1 DEF Begin, Active
<1>2. ASSUME NEW r \in Readers, Step(r) PROVE Purging'
  <2>1. UNCHANGED <<state, purger, listed, kept, overlapped>>
    BY <1>2 DEF Step, Acquire, Parse, ReadFails, UseCache, Miss, Fetch, FetchFails, WriteRaces, Write, Open,
                store, build
  <2>2. state \in {"DELETING", "DELETED"} => overlapped  BY <1>2, StepIsActive
  <2> QED  BY <2>1, <2>2
<1>3. CASE Acknowledge \/ Deprecate
  BY <1>3 DEF Acknowledge, Deprecate, Active
<1>4. CASE BeginPurge
  <2>1. \A r \in Readers : Active(r)' = Active(r)  BY <1>4, RequestsStay DEF Active
  <2> QED  BY <1>4, <2>1 DEF BeginPurge
<1>5. CASE PurgeTree
  BY <1>5 DEF PurgeTree, CleansCache, Active
<1>6. CASE PurgeFails
  BY <1>6 DEF PurgeFails, Active
<1>7. ASSUME NEW f \in Files, PurgeFile(f) PROVE Purging'
  BY <1>7 DEF PurgeFile, Active, Shape
<1>8. CASE EndPurge
  BY <1>8 DEF EndPurge, Active
<1>9. CASE Restart
  <2>1. \A r \in Readers : ~Active(r)'  BY <1>9 DEF Restart, NoRequest, Request, Active
  <2>2. \A f \in Files : cache[f] = "absent" => cache'[f] = "absent"
    BY <1>9 DEF Restart, Shape
  <2>3. state' = state /\ kept' = kept
        /\ (purger' # "idle" => purger' = "recover" /\ state = "DELETING")
        /\ (state = "DELETED" /\ ~overlapped' => ~overlapped)
    BY <1>9 DEF Restart
  <2> QED  BY <2>1, <2>2, <2>3
<1>10. ASSUME NEW f \in Files, Damage(f) PROVE Purging'
  <2>1. \A r \in Readers : Active(r)' = Active(r)  BY <1>10, RequestsStay DEF Active
  <2>2. UNCHANGED <<state, purger, listed, kept, overlapped>>  BY <1>10 DEF Damage, build
  <2>3. \A g \in Files : cache[g] = "absent" => cache'[g] = "absent"
    BY <1>10 DEF Damage, Shape
  <2> QED  BY <2>1, <2>2, <2>3
<1>11. CASE UNCHANGED vars
  BY <1>11 DEF vars, store, build, Active
<1> QED  BY <1>1, <1>2, <1>3, <1>4, <1>5, <1>6, <1>7, <1>8, <1>9, <1>10, <1>11
         DEF Next, Purge

-----------------------------------------------------------------------------
(* Refusals.  Nobody takes from a running request what it has read, but a  *)
(* purge or a damage, which excuse it.                                     *)

\* A build that nobody purges is complete, on the hub or on an undamaged disk.
Standing ==
    /\ damage \in Nat
    /\ state \notin {"DELETING", "DELETED"} =>
         /\ purger = "idle"
         /\ Remote => uploaded
         /\ ~Remote /\ MaxDamage = 0 => \A f \in Files : cache[f] = "good"

\* What a request without excuse has read, it can read again.
HasRead == \A r \in Readers :
    Active(r) /\ ~reader[r].excused =>
      /\ state \notin {"DELETING", "DELETED"}
      /\ reader[r].at > 1 => cache["root"] = "good"
      /\ reader[r].pc \in {"parse", "open"} => cache[File(r)] = "good"

LEMMA StandingStep ==
    ASSUME Shape, AtFile, Locked, Standing, [Next]_vars
    PROVE  Standing'
<1> USE DEF Standing
<1>1. CASE \E r \in Readers : Begin(r) \/ Step(r)
  <2>1. PICK r \in Readers : Begin(r) \/ Step(r)  BY <1>1
  <2>2. UNCHANGED <<state, purger, uploaded, damage>>
    BY <2>1 DEF Begin, Step, Acquire, Parse, ReadFails, UseCache, Miss, Fetch, FetchFails, WriteRaces, Write,
                Open, store, build, counters
  <2>3. ~Remote => \A f \in Files : cache[f] = "good" => cache'[f] = "good"
    BY <2>1 DEF Begin, Step, Acquire, Parse, ReadFails, UseCache, Miss, Fetch, FetchFails, WriteRaces, Write,
                Open, store, Shape
  <2> QED  BY <2>2, <2>3
<1>2. CASE Acknowledge \/ Deprecate \/ BeginPurge
  BY <1>2 DEF Acknowledge, Deprecate, BeginPurge, counters
<1>3. CASE Purge \/ PurgeFails
  <2>1. CASE Purge
    BY <2>1 DEF Purge, PurgeTree, PurgeFile, EndPurge, counters
  <2>2. CASE PurgeFails  BY <2>2 DEF PurgeFails
  <2> QED  BY <1>3, <2>1, <2>2
<1>4. CASE Restart
  <2>1. UNCHANGED <<state, uploaded, damage>> /\ (state # "DELETING" => purger' = "idle")
    BY <1>4 DEF Restart
  <2>2. ~Remote => cache' = cache  BY <1>4 DEF Restart, Shape
  <2> QED  BY <2>1, <2>2
<1>5. CASE \E f \in Files : Damage(f)
  <2>1. /\ UNCHANGED <<state, uploaded, purger>> /\ damage' = damage + 1 /\ damage < MaxDamage
    BY <1>5 DEF Damage, build
  <2> QED  BY <2>1, BoundsAssumption
<1>6. CASE UNCHANGED vars  BY <1>6 DEF vars, store, build, counters
<1> QED  BY <1>1, <1>2, <1>3, <1>4, <1>5, <1>6 DEF Next

\* What a step of a request does to its own excuse and result.
LEMMA StepRefuses ==
    ASSUME Remote \/ MaxDamage = 0, Shape, AtFile, Locked, Purging, Standing, HasRead,
           NEW r \in Readers, Step(r)
    PROVE  /\ \A f \in Files : cache[f] = "good" => cache'[f] = "good"
           /\ reader[r].excused => reader'[r].excused
           /\ reader'[r].pc \in {"parse", "open"} /\ ~reader[r].excused =>
                reader'[r].at = reader[r].at /\ cache'[File(r)] = "good"
           /\ reader'[r].at > 1 /\ ~reader[r].excused => cache'["root"] = "good"
           /\ reader'[r].result = "refused" /\ reader[r].result # "refused"
                => reader'[r].excused
<1>1. reader[r] \in Requested /\ File(r) \in Files /\ "root" \in Files
  BY ChainFiles DEF Shape, AtFile, File, Requested, Files
<1>2. Active(r)  BY StepIsActive
<1>3. ~reader[r].excused =>
        /\ uploaded \/ ~Remote
        /\ ~Remote => \A f \in Files : cache[f] = "good"
        /\ reader[r].at > 1 => cache["root"] = "good"
        /\ reader[r].pc \in {"parse", "open"} => cache[File(r)] = "good"
  BY <1>2 DEF HasRead, Standing
<1>4. CASE Acquire(r)
  BY <1>1, <1>3, <1>4 DEF Acquire, Goto, Shape, Requested
<1>5. CASE Parse(r)
  <2>1. /\ reader'[r] = [reader[r] EXCEPT !.at = @ + 1,
                            !.pc = IF Remote /\ lock # r THEN "lock" ELSE "check"]
        /\ cache' = cache /\ reader[r].pc = "parse"
    BY <1>5 DEF Parse, Shape, store
  <2>2. /\ reader'[r].pc \notin {"parse", "open"} /\ reader'[r].result = reader[r].result
        /\ reader'[r].excused = reader[r].excused /\ reader'[r].at = reader[r].at + 1
    BY <1>1, <2>1 DEF Requested
  <2>3. reader[r].at = 1 => File(r) = "root"  BY <1>1 DEF File, Chain, Requested, Files
  <2> QED  BY <1>1, <1>3, <2>1, <2>2, <2>3 DEF Requested
<1>6. CASE ReadFails(r)
  <2>1. cache[Needed(r)] # "good" /\ cache' = cache /\ Ends(r, "refused")
        /\ (reader[r].pc = "parse" \/ NeedsRoot(r))
    BY <1>6 DEF ReadFails, Refuse
  <2>2. reader[r].excused
    BY <1>3, <2>1 DEF Needed, NeedsRoot
  <2> QED  BY <1>1, <2>1, <2>2 DEF Ends, Shape, Requested
<1>7. CASE UseCache(r)
  <2>1. cache' = cache /\ Resolved(r) /\ Hit(r)  BY <1>7 DEF UseCache
  <2>2. cache[File(r)] = "good" \/ reader[r].excused  BY <1>1, <1>3, <2>1 DEF Hit
  <2> QED  BY <1>1, <1>3, <2>1, <2>2 DEF Resolved, Goto, Shape, Requested
<1>8. CASE Miss(r)
  <2>1. CASE Remote
    <3>1. Goto(r, "fetch") /\ cache[File(r)] # "good"
          /\ cache' = IF File(r) = "root" THEN cache ELSE [cache EXCEPT ![File(r)] = "absent"]
      BY <1>8, <2>1 DEF Miss, Hit
    <3> QED  BY <1>1, <1>3, <3>1 DEF Goto, Shape, Requested
  <2>2. CASE ~Remote
    <3>1. Ends(r, "refused") /\ cache' = cache /\ cache[File(r)] # "good"
      BY <1>8, <2>2 DEF Miss, Refuse, Hit
    <3>2. reader[r].excused  BY <1>1, <1>3, <2>2, <3>1
    <3> QED  BY <1>1, <3>1, <3>2 DEF Ends, Shape, Requested
  <2> QED  BY <2>1, <2>2
<1>9. CASE Fetch(r)
  <2>1. Remote /\ cache' = cache  BY <1>9 DEF Fetch, Locked
  <2>2. CASE uploaded
    BY <1>1, <1>3, <1>9, <2>1, <2>2 DEF Fetch, Goto, Shape, Requested
  <2>3. CASE ~uploaded
    <3>1. reader[r].excused /\ Ends(r, "refused")  BY <1>3, <1>9, <2>1, <2>3 DEF Fetch, Refuse
    <3> QED  BY <1>1, <2>1, <3>1 DEF Ends, Shape, Requested
  <2> QED  BY <2>2, <2>3
<1>10. CASE FetchFails(r)
  BY <1>1, <1>3, <1>10 DEF FetchFails, Shape, Requested
<1>13. CASE WriteRaces(r)
  <2>1. cache' = cache /\ Ends(r, "refused") /\ purger = "local"
    BY <1>13 DEF WriteRaces, Refuse
  <2>2. state = "DELETING"  BY <2>1 DEF Purging
  <2>3. reader[r].excused  BY <1>2, <2>2 DEF HasRead
  <2> QED  BY <1>1, <2>1, <2>3 DEF Ends, Shape, Requested
<1>11. CASE Write(r)
  BY <1>1, <1>3, <1>11 DEF Write, Resolved, Goto, Shape, Requested
<1>12. CASE Open(r)
  <2>1. cache' = cache /\ reader[r].pc = "open"
        /\ Ends(r, IF cache[File(r)] = "absent" THEN "refused" ELSE cache[File(r)])
    BY <1>12 DEF Open, store
  <2>2. CASE reader[r].excused
    BY <1>1, <2>1, <2>2 DEF Ends, Shape, Requested
  <2>3. CASE ~reader[r].excused
    <3>1. Ends(r, "good")  BY <1>3, <2>1, <2>3
    <3> QED  BY <1>1, <1>3, <2>1, <3>1 DEF Ends, Shape, Requested
  <2> QED  BY <2>2, <2>3
<1> QED  BY <1>4, <1>5, <1>6, <1>7, <1>8, <1>9, <1>10, <1>11, <1>12, <1>13 DEF Step

LEMMA HasReadStep ==
    ASSUME Remote \/ MaxDamage = 0, Shape, AtFile, Locked, Purging, Standing, HasRead,
           RefusalHasCause, [Next]_vars
    PROVE  HasRead' /\ RefusalHasCause'
<1> USE DEF HasRead, RefusalHasCause
<1>1. ASSUME NEW r \in Readers, Begin(r) PROVE HasRead' /\ RefusalHasCause'
  <2>1. PICK want \in Files : reader' = [reader EXCEPT ![r] =
          IF state \notin Gate(want)
          THEN [Request("done", want) EXCEPT !.result = "refused", !.excused = TRUE]
          ELSE Request(IF Remote THEN "lock" ELSE "check", want)]
    BY <1>1 DEF Begin
  <2>2. UNCHANGED <<state, cache>>  BY <1>1 DEF Begin, store, build
  <2>3. \A q \in Readers \ {r} : reader'[q] = reader[q]  BY <2>1 DEF Shape
  <2>4. (Active(r)' => state \notin {"DELETING", "DELETED"}) /\ reader'[r].at = 1
        /\ reader'[r].pc \notin {"parse", "open"}
    BY <1>1, OneRequestMoves, StepIsActive DEF Active
  <2>5. reader'[r].result = "refused" => reader'[r].excused
    <3>1. CASE state \notin Gate(want)
      BY <2>1, <3>1 DEF Shape, Request
    <3>2. CASE state \in Gate(want)
      BY <2>1, <3>2 DEF Shape, Request
    <3> QED  BY <3>1, <3>2
  <2> QED  BY <2>2, <2>3, <2>4, <2>5 DEF Active, File
<1>2. ASSUME NEW r \in Readers, Step(r) PROVE HasRead' /\ RefusalHasCause'
  <2>1. state' = state
    BY <1>2 DEF Step, Acquire, Parse, ReadFails, UseCache, Miss, Fetch, FetchFails, WriteRaces, Write,
                Open, store, build
  <2>2. /\ \A q \in Readers \ {r} : reader'[q] = reader[q]
        /\ reader'[r].want = reader[r].want
    BY <1>2, StepIsActive, OneRequestMoves
  <2>3. \A q \in Readers : File(q) \in Files /\ "root" \in Files
    BY ChainFiles DEF File, AtFile, Shape, Requested, Files
  <2>4. Active(r)  BY <1>2, StepIsActive
  <2> QED  BY <1>2, <2>1, <2>2, <2>3, <2>4, StepRefuses DEF Active, File
<1>3. CASE Acknowledge \/ Deprecate \/ UNCHANGED vars
  <2>1. /\ reader' = reader /\ cache' = cache
        /\ state' \in {"DELETING", "DELETED"} => state \in {"DELETING", "DELETED"}
    BY <1>3 DEF Acknowledge, Deprecate, vars, store, build
  <2> QED  BY <2>1 DEF Active, File
<1>4. CASE Purge \/ PurgeFails
  <2>1. purger # "idle" /\ reader' = reader
    <3>1. CASE Purge  BY <3>1 DEF Purge, PurgeTree, PurgeFile, EndPurge
    <3>2. CASE PurgeFails  BY <3>2 DEF PurgeFails
    <3> QED  BY <1>4, <3>1, <3>2
  <2>2. state = "DELETING"  BY <2>1 DEF Purging
  <2>3. \A r \in Readers : reader[r].excused \/ ~Active(r)  BY <2>2
  <2>4. \A r \in Readers : reader'[r].excused \/ ~Active(r)'  BY <2>1, <2>3 DEF Active
  <2>5. HasRead'  BY <2>4 DEF Active
  <2>6. RefusalHasCause'  BY <2>1
  <2> QED  BY <2>5, <2>6
<1>5. CASE BeginPurge \/ \E f \in Files : Damage(f)
  <2>1. \A r \in Readers : reader[r].excused \/ Active(r) => reader'[r].excused
    <3> TAKE r \in Readers
    <3>1. reader[r] \in Requested  BY DEF Shape
    <3>2. CASE BeginPurge
      <4>1. reader'[r] = [reader[r] EXCEPT !.excused = @ \/ Active(r)]
        BY <3>2 DEF BeginPurge
      <4> QED  BY <3>1, <4>1 DEF Requested
    <3>3. CASE \E f \in Files : Damage(f)
      <4>1. reader'[r] = [reader[r] EXCEPT !.excused = @ \/ Active(r),
                                           !.tainted = @ \/ Active(r)]
        BY <3>3 DEF Damage
      <4> QED  BY <3>1, <4>1 DEF Requested
    <3> QED  BY <1>5, <3>2, <3>3
  <2>2. \A r \in Readers : Active(r)' = Active(r) /\ reader'[r].result = reader[r].result
    BY <1>5, RequestsStay DEF Active
  <2> QED  BY <2>1, <2>2
<1>6. CASE Restart
  <2>1. \A r \in Readers : reader'[r].pc = "idle" /\ reader'[r].result = "none"
    BY <1>6 DEF Restart, NoRequest, Request
  <2> QED  BY <2>1 DEF Active
<1> QED  BY <1>1, <1>2, <1>3, <1>4, <1>5, <1>6 DEF Next

\* Initially nobody reads and no file is damaged.
LEMMA InitOK ==
    Init => /\ Shape /\ AtFile /\ Locked /\ NothingFetchedTwice
            /\ OpensPinned /\ ServedIsPinned /\ Purging
<1> SUFFICES ASSUME Init PROVE /\ Shape /\ AtFile /\ Locked /\ NothingFetchedTwice
                               /\ OpensPinned /\ ServedIsPinned /\ Purging
  OBVIOUS
<1>1. NoRequest \in Requested  BY DEF NoRequest, Request, Requested, Pcs, Files, Results
<1>2. Shape  BY <1>1, CachesAssumption DEF Init, Shape
<1>3. \A r \in Readers : /\ reader[r].pc = "idle" /\ reader[r].result = "none"
                        /\ reader[r].at = 1 /\ reader[r].want = "root"
  BY DEF Init, NoRequest, Request
<1>4. AtFile
  <2>1. Chain("root") = <<"root">> /\ Len(<<"root">>) = 1  BY DEF Chain
  <2>2. \A r \in Readers : Len(Chain(reader[r].want)) = 1
    <3> TAKE r \in Readers
    <3>1. reader[r].want = "root"  BY <1>3
    <3> QED  BY <2>1, <3>1
  <2>3. \A r \in Readers : reader[r].at = 1 /\ reader[r].pc # "parse"
    <3> TAKE r \in Readers
    <3> QED  BY <1>3, Zenon
  <2>4. ASSUME NEW r \in Readers
        PROVE  /\ reader[r].at <= Len(Chain(reader[r].want))
               /\ reader[r].pc = "parse" => reader[r].at < Len(Chain(reader[r].want))
    <3>1. 1 <= 1  OBVIOUS
    <3>2. reader[r].at <= Len(Chain(reader[r].want))  BY <2>2, <2>3, <3>1, Zenon
    <3> QED  BY <2>3, <3>2, Zenon
  <2> QED  BY <2>4, Zenon DEF AtFile
<1>5. Locked /\ NothingFetchedTwice /\ OpensPinned /\ ServedIsPinned
  BY <1>3 DEF Locked, NothingFetchedTwice, OpensPinned, ServedIsPinned
<1>6. Purging  BY DEF Init, Purging, LeftoverHasCause
<1> QED  BY <1>2, <1>4, <1>5, <1>6

\* Of several readers that lack a file of the build one downloads it: between
\* the look at the cache and the write nobody else can have fetched it.
THEOREM NothingIsFetchedTwice == Spec => []NothingFetchedTwice
<1> DEFINE Inv == Shape /\ AtFile /\ Locked /\ NothingFetchedTwice
<1>1. Init => Inv  BY InitOK
<1>2. Inv /\ [Next]_vars => Inv'  BY ShapeStep, AtStep, FetchStep
<1>3. Inv => NothingFetchedTwice  OBVIOUS
<1> HIDE DEF Inv
<1> QED  BY <1>1, <1>2, <1>3, PTL DEF Spec

\* The Hugging Face store serves what the manifest pins, whatever happened to
\* its cache before the request.
THEOREM ServedIsAlwaysPinned == ASSUME Remote PROVE Spec => []ServedIsPinned
<1> DEFINE Inv == /\ Shape /\ AtFile /\ Locked /\ NothingFetchedTwice
                  /\ OpensPinned /\ ServedIsPinned
<1>1. Init => Inv  BY InitOK
<1>2. Inv /\ [Next]_vars => Inv'  BY ShapeStep, AtStep, FetchStep, PinStep
<1>3. Inv => ServedIsPinned  OBVIOUS
<1> HIDE DEF Inv
<1> QED  BY <1>1, <1>2, <1>3, PTL DEF Spec

\* A purge that no request overlapped leaves in the directory of the build only files
\* that the attempt which completed it could not remove, or for which it found no root
\* manifest, although an earlier one may have failed or been interrupted.
THEOREM LeftoverAlwaysHasCause == Spec => []LeftoverHasCause
<1> DEFINE Inv == Shape /\ AtFile /\ Purging
<1>1. Init => Inv  BY InitOK
<1>2. Inv /\ [Next]_vars => Inv'  BY ShapeStep, AtStep, PurgeStep
<1>3. Inv => LeftoverHasCause  BY DEF Purging
<1> HIDE DEF Inv
<1> QED  BY <1>1, <1>2, <1>3, PTL DEF Spec

\* A reader of a visible build is refused for a cause of its own only: a download
\* that failed, a file that changed, or a purge. What other readers do to the
\* cache never is one. A file of a local store that was damaged before the
\* request is never fetched again: the local store is covered without damages.
THEOREM RefusalAlwaysHasCause ==
    ASSUME Remote \/ MaxDamage = 0
    PROVE  Spec => []RefusalHasCause
<1> DEFINE Inv == /\ Shape /\ AtFile /\ Locked /\ NothingFetchedTwice /\ Purging
                  /\ Standing /\ HasRead /\ RefusalHasCause
<1>1. Init => Inv
  <2>1. ASSUME Init PROVE Standing /\ HasRead /\ RefusalHasCause
    <3>1. \A r \in Readers : reader[r].pc = "idle" /\ reader[r].result = "none"
      BY <2>1 DEF Init, NoRequest, Request
    <3> QED  BY <2>1, <3>1, CachesAssumption DEF Init, Standing, HasRead, RefusalHasCause, Active
  <2> QED  BY <2>1, InitOK
<1>2. Inv /\ [Next]_vars => Inv'
  BY ShapeStep, AtStep, FetchStep, PurgeStep, StandingStep, HasReadStep
<1>3. Inv => RefusalHasCause  OBVIOUS
<1> HIDE DEF Inv
<1> QED  BY <1>1, <1>2, <1>3, PTL DEF Spec

=============================================================================
