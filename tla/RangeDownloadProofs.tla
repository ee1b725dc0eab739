------------------------ MODULE RangeDownloadProofs ------------------------
(***************************************************************************)
(* The ranges of the parallel download tile the archive for every size and *)
(* every number of connections, no download leaves a part file behind, and *)
(* what a download that returned leaves is the archive, whole, and one     *)
(* version of it where the server sends ETags.                             *)
(***************************************************************************)
EXTENDS RangeDownload, DataLemmas, FiniteSetTheorems, TLAPS

\* The span is positive, no longer than the archive, and the workers cover it.
LEMMA SpanCovers ==
    ASSUME NEW cs \in Nat \ {0}, NEW len \in Nat \ {0}
    PROVE  /\ Workers(cs, len) \in Nat \ {0}
           /\ Span(cs, len) \in Nat \ {0}
           /\ len <= Workers(cs, len) * Span(cs, len)
  <1> DEFINE w == Workers(cs, len)
             m == len + w - 1
  <1>1. w \in Nat \ {0} /\ w <= len
    BY DEF Workers, Least
  <1> HIDE DEF w
  <1>2. m \in Nat /\ w <= m
    BY <1>1
  <1>3. /\ m \div w \in Nat
        /\ (m \div w) * w <= m
        /\ m < (m \div w) * w + w
    BY <1>1, <1>2, Quotient
  <1>4. m \div w # 0
    BY <1>1, <1>2, <1>3
  <1>5. (m \div w) * w = w * (m \div w) /\ (m \div w) * w \in Int
    BY <1>1, <1>3
  <1>6. len <= w * (m \div w)
    BY <1>1, <1>3, <1>5
  <1> QED BY <1>1, <1>3, <1>4, <1>6 DEF Span, w

\* The ranges tile the archive, for every size and every number of connections:
\* the offset n is in the range n \div Span and in no other.
LEMMA RangesTileAll ==
    ASSUME NEW p \in Nat \ {0}, NEW len \in Nat \ {0}
    PROVE  RangesTile(p, len)
  <1> DEFINE w == Workers(p, len)
             s == Span(p, len)
  <1>1. w \in Nat \ {0} /\ s \in Nat \ {0} /\ len <= w * s
    BY SpanCovers
  <1>2. ASSUME NEW i \in Int PROVE i * s \in Int /\ (i + 1) * s = i * s + s
    BY <1>1
  <1>3. /\ Indices(p, len) = {i \in 0 .. w - 1 : i * s < len}
        /\ \A i : Start(p, len, i) = i * s /\ End(p, len, i) = Least(len - 1, (i + 1) * s - 1)
    BY DEF Indices, Start, End
  <1> HIDE DEF w, s
  <1>4. ASSUME NEW i \in Indices(p, len)
        PROVE  /\ 0 <= Start(p, len, i)
               /\ Start(p, len, i) <= End(p, len, i)
               /\ End(p, len, i) < len
               /\ \A j \in 0 .. i : j \in Indices(p, len)
    <2>1. i \in 0 .. w - 1 /\ i * s < len
      BY <1>3
    <2>2. i * s >= 0 /\ i * s \in Int /\ (i + 1) * s = i * s + s
      BY <1>1, <1>2, <2>1, TimesMonotone
    <2>3. ASSUME NEW j \in 0 .. i PROVE j \in Indices(p, len)
      <3>1. j \in Int /\ i \in Int /\ j <= i
        BY <2>1
      <3>2. j * s <= i * s
        BY <3>1, <1>1, TimesMonotone
      <3> QED BY <1>1, <1>2, <1>3, <2>1, <2>2, <3>1, <3>2
    <2> QED BY <1>1, <1>3, <2>1, <2>2, <2>3 DEF Least
  <1>5. ASSUME NEW n \in 0 .. len - 1
        PROVE  \E i \in Indices(p, len) :
                  /\ Start(p, len, i) <= n /\ n <= End(p, len, i)
                  /\ \A j \in Indices(p, len) :
                       Start(p, len, j) <= n /\ n <= End(p, len, j) => j = i
    <2> DEFINE q == n \div s
    <2>1. q \in Nat /\ q * s <= n /\ n < q * s + s
      BY <1>1, Quotient
    <2> HIDE DEF q
    <2>2. (q + 1) * s = q * s + s /\ q * s \in Int /\ w * s \in Int
      BY <1>1, <1>2, <2>1
    <2>3. q < w
      <3>1. SUFFICES ASSUME w <= q PROVE FALSE
        BY <1>1, <2>1
      <3>2. w * s <= q * s
        BY <1>1, <2>1, <3>1, TimesMonotone
      <3> QED BY <1>1, <2>1, <2>2, <3>2
    <2>4. q \in Indices(p, len) /\ Start(p, len, q) <= n /\ n <= End(p, len, q)
      BY <1>1, <1>3, <2>1, <2>2, <2>3 DEF Least
    <2>5. ASSUME NEW j \in Indices(p, len), Start(p, len, j) <= n, n <= End(p, len, j)
          PROVE  j = q
      <3>1. j \in 0 .. w - 1 /\ j * s <= n /\ n <= (j + 1) * s - 1
        BY <1>1, <1>2, <1>3, <2>5 DEF Least
      <3>2. j * s \in Int /\ (j + 1) * s = j * s + s /\ j \in Int
        BY <1>1, <1>2, <3>1
      <3>3. ~(j + 1 <= q)
        <4>1. SUFFICES ASSUME j + 1 <= q PROVE FALSE
          OBVIOUS
        <4>2. (j + 1) * s <= q * s
          BY <1>1, <2>1, <3>2, <4>1, TimesMonotone
        <4> QED BY <1>1, <2>1, <2>2, <3>1, <3>2, <4>2
      <3>4. ~(q + 1 <= j)
        <4>1. SUFFICES ASSUME q + 1 <= j PROVE FALSE
          OBVIOUS
        <4>2. (q + 1) * s <= j * s
          BY <1>1, <2>1, <3>2, <4>1, TimesMonotone
        <4> QED BY <1>1, <2>1, <2>2, <3>1, <3>2, <4>2
      <3> QED BY <2>1, <3>2, <3>3, <3>4
    <2> QED BY <2>4, <2>5
  <1> QED BY <1>4, <1>5 DEF RangesTile

\* The ranges of every download tile its archive.
THEOREM PartsAlwaysTile == Spec => []PartsTileTheArchive
  <1> DEFINE Inputs == size \in Nat \ {0} /\ par \in Nat \ {0}
  <1>1. Init => Inputs
    BY SizesAssumption DEF Init
  <1>2. Inputs /\ [Next]_vars => Inputs'
    BY DEF Next, Caller, UseCached, HeadRequest, SequentialDownload, Join, Copy, Raises, Unlink,
           RangeTask, RangeAnswered, RangeRefused, RangeBody, SourceChanges, vars, inputs
  <1>3. Inputs => PartsTileTheArchive
    BY RangesTileAll DEF PartsTileTheArchive
  <1> QED BY <1>1, <1>2, <1>3, PTL DEF Spec

-----------------------------------------------------------------------------
(* No part file is left: every task has ended when the pool is left, and   *)
(* only then are the files removed.                                        *)

\* Before the pool there are no tasks, after it none runs.
PartsInv ==
    /\ pc \in {"cache", "sequential"} =>
          \A i \in Ranges : part[i].task = "none" /\ ~part[i].file
    /\ pc \in {"copy", "unlink", "unlink failed"} =>
          \A i \in Ranges : part[i].task \in {"ok", "failed"}

IInv == TypeOK /\ PartsInv /\ NoPartLeftBehind

\* The cells of a body are a sequence of its length.
LEMMA CellsType ==
    ASSUME NEW v \in Int, NEW first \in Int, NEW length \in Nat
    PROVE  /\ Cells(v, first, length) \in Seq(Int \X Int)
           /\ Len(Cells(v, first, length)) = length
  <1>1. Cells(v, first, length) \in [1 .. length -> Int \X Int]
    BY DEF Cells
  <1> QED BY <1>1

\* Every range has a positive extent.
LEMMA ExtentPositive ==
    ASSUME TypeOK, NEW i \in Ranges
    PROVE  i \in Nat /\ Extent(i) \in Nat \ {0} /\ Start(par, size, i) \in Nat
  <1>1. size \in Nat \ {0} /\ par \in Nat \ {0}
    BY SizesAssumption DEF TypeOK
  <1>2. RangesTile(par, size)
    BY <1>1, RangesTileAll
  <1>3. /\ 0 <= Start(par, size, i)
        /\ Start(par, size, i) <= End(par, size, i)
    BY <1>2 DEF RangesTile, Ranges
  <1>4. Workers(par, size) \in Nat \ {0} /\ Span(par, size) \in Nat \ {0}
    BY <1>1, SpanCovers
  <1>5. i \in Nat
    BY <1>4 DEF Ranges, Indices
  <1>6. Start(par, size, i) \in Int /\ End(par, size, i) \in Int
    BY <1>1, <1>4, <1>5 DEF Start, End, Least
  <1> QED BY <1>3, <1>5, <1>6 DEF Extent

LEMMA InitIInv == Init => IInv
  <1> SUFFICES ASSUME Init PROVE IInv
    OBVIOUS
  <1>1. size \in Nat \ {0} /\ par \in Nat \ {0} /\ Official \in Versions
    BY SizesAssumption, LimitAssumption DEF Init, Official, Versions
  <1>2. part \in [Ranges -> PartFiles]
    BY <1>1 DEF Init, NoPart, PartFiles
  <1>3. \A i \in Ranges : Len(part[i].data) = 0 /\ part[i].task = "none" /\ ~part[i].file
    BY DEF Init, NoPart
  <1>4. RangesTile(par, size)
    BY <1>1, RangesTileAll
  <1>5. ASSUME NEW i \in Ranges PROVE 0 <= Extent(i)
    <2>1. Start(par, size, i) <= End(par, size, i)
      BY <1>4 DEF RangesTile, Ranges
    <2>2. Workers(par, size) \in Nat \ {0} /\ Span(par, size) \in Nat \ {0}
      BY <1>1, SpanCovers
    <2>3. i \in Int
      BY <2>2 DEF Ranges, Indices
    <2>4. Start(par, size, i) \in Int /\ End(par, size, i) \in Int
      BY <1>1, <2>2, <2>3 DEF Start, End, Least
    <2> QED BY <2>1, <2>4 DEF Extent
  <1>6. TypeOK
    BY <1>1, <1>2, <1>3, <1>5 DEF TypeOK, Init
  <1> QED BY <1>3, <1>6 DEF IInv, PartsInv, NoPartLeftBehind, Returned, Init

\* A step of the caller that leaves the parts alone.
LEMMA CallerStep ==
    ASSUME IInv, Caller
    PROVE  IInv'
  <1> USE DEF IInv
  <1>1. CASE UseCached
    BY <1>1 DEF UseCached, inputs, TypeOK, PartsInv, NoPartLeftBehind, Returned, Ranges, Extent
  <1>2. CASE HeadRequest
    <2>1. UNCHANGED <<size, par, cache, server, dest>> /\ pinned' = server.version
      BY <1>2 DEF HeadRequest, inputs
    <2>2. Ranges' = Ranges /\ \A i : Extent(i)' = Extent(i)
      BY <2>1 DEF Ranges, Extent
    <2>3. part' \in [Ranges -> PartFiles]
      <3>0. Official \in Versions /\ <<>> \in Seq(Int \X Int)
        BY LimitAssumption DEF Official, Versions
      <3>1. [NoPart EXCEPT !.task = "submitted"] \in PartFiles
        BY <3>0 DEF NoPart, PartFiles
      <3> QED BY <1>2, <3>1 DEF HeadRequest, TypeOK
    <2>4. ASSUME NEW i \in Ranges PROVE Len(part'[i].data) <= Extent(i)
      BY <1>2, <2>4, ExtentPositive DEF HeadRequest, TypeOK, NoPart
    <2>5. TypeOK'
      BY <1>2, <2>1, <2>2, <2>3, <2>4 DEF HeadRequest, TypeOK
    <2> QED BY <1>2, <2>2, <2>5 DEF HeadRequest, PartsInv, NoPartLeftBehind, Returned
  <1>3. CASE SequentialDownload
    BY <1>3 DEF SequentialDownload, inputs, TypeOK, PartsInv, NoPartLeftBehind, Returned, Ranges, Extent
  <1>4. CASE Join
    BY <1>4 DEF Join, Awaited, inputs, TypeOK, PartsInv, NoPartLeftBehind, Returned, Ranges, Extent
  <1>5. CASE Copy
    BY <1>5 DEF Copy, inputs, TypeOK, PartsInv, NoPartLeftBehind, Returned, Ranges, Extent
  <1>6. CASE Raises
    BY <1>6 DEF Raises, inputs, TypeOK, PartsInv, NoPartLeftBehind, Returned, Ranges, Extent
  <1>7. CASE Unlink
    <2>1. UNCHANGED <<size, par, cache, server, pinned, dest>>
      BY <1>7 DEF Unlink, inputs
    <2>2. Ranges' = Ranges /\ \A i : Extent(i)' = Extent(i)
      BY <2>1 DEF Ranges, Extent
    <2>3. ASSUME NEW i \in Ranges
          PROVE  /\ part'[i] \in PartFiles
                 /\ part'[i].data = part[i].data
                 /\ part'[i].task = part[i].task
                 /\ ~part'[i].file
      BY <1>7 DEF Unlink, TypeOK, PartFiles
    <2>4. part' = [i \in Ranges |-> part'[i]]
      BY <1>7 DEF Unlink
    <2>5. TypeOK'
      BY <1>7, <2>1, <2>2, <2>3, <2>4 DEF Unlink, TypeOK
    <2> QED BY <1>7, <2>2, <2>3, <2>5 DEF Unlink, PartsInv, NoPartLeftBehind, Returned
  <1> QED BY <1>1, <1>2, <1>3, <1>4, <1>5, <1>6, <1>7 DEF Caller

\* A step of a task: it runs only while the caller waits for it.
LEMMA TaskStep ==
    ASSUME IInv, NEW i \in Ranges, RangeTask(i)
    PROVE  IInv'
  <1> USE DEF IInv
  <1>1. UNCHANGED <<size, par, cache, server, pc, pinned, dest>>
    BY DEF RangeTask, RangeAnswered, RangeRefused, RangeBody, inputs
  <1>2. Ranges' = Ranges /\ \A j : Extent(j)' = Extent(j)
    BY <1>1 DEF Ranges, Extent
  <1>3. part[i].task \in {"submitted", "answered"}
    BY DEF RangeTask, RangeAnswered, RangeRefused, RangeBody
  <1>4. pc = "join"
    BY <1>3 DEF PartsInv, NoPartLeftBehind, Returned, TypeOK
  <1>5. PICK p \in PartFiles :
           part' = [part EXCEPT ![i] = p] /\ Len(p.data) <= Extent(i)
    <2>1. /\ part[i] \in PartFiles
          /\ Len(part[i].data) <= Extent(i)
      BY DEF TypeOK
    <2>2. CASE RangeAnswered(i)
      <3>1. server.version \in Versions
        BY DEF TypeOK
      <3> DEFINE p == [part[i] EXCEPT !.task = IF SameSource THEN "answered" ELSE "failed",
                                    !.file = TRUE, !.from = server.version]
      <3>2. p \in PartFiles /\ Len(p.data) <= Extent(i)
        BY <2>1, <3>1 DEF PartFiles
      <3>3. part' = [part EXCEPT ![i] = p]
        BY <2>1, <2>2 DEF RangeAnswered
      <3> QED BY <3>2, <3>3
    <2>3. CASE RangeRefused(i)
      <3>1. PICK f \in BOOLEAN : part' = [part EXCEPT ![i].task = "failed", ![i].file = f]
        BY <2>3 DEF RangeRefused
      <3> DEFINE p == [part[i] EXCEPT !.task = "failed", !.file = f]
      <3>2. p \in PartFiles /\ Len(p.data) <= Extent(i)
        BY <2>1 DEF PartFiles
      <3>3. part' = [part EXCEPT ![i] = p]
        BY <2>1, <3>1
      <3> QED BY <3>2, <3>3
    <2>4. CASE RangeBody(i)
      <3>1. PICK length \in 0 .. Extent(i) + 1, task \in {"ok", "failed"} :
               part' = [part EXCEPT ![i].task = task,
                         ![i].data = Cells(part[i].from, Start(par, size, i), Kept(i, length))]
        BY <2>4 DEF RangeBody
      <3> DEFINE data == Cells(part[i].from, Start(par, size, i), Kept(i, length))
      <3>2. Extent(i) \in Nat \ {0} /\ Start(par, size, i) \in Int /\ part[i].from \in Int
        BY <2>1, ExtentPositive DEF PartFiles, Versions
      <3>3. Kept(i, length) \in Nat /\ Kept(i, length) <= Extent(i)
        BY <3>2 DEF Kept, Least
      <3>4. data \in Seq(Int \X Int) /\ Len(data) <= Extent(i)
        BY <3>2, <3>3, CellsType
      <3> HIDE DEF data
      <3> DEFINE p == [part[i] EXCEPT !.task = task, !.data = data]
      <3>5. p \in PartFiles /\ Len(p.data) <= Extent(i)
        BY <2>1, <3>4 DEF PartFiles
      <3>6. part' = [part EXCEPT ![i] = p]
        BY <2>1, <3>1, <3>4 DEF data
      <3> QED BY <3>5, <3>6
    <2> QED BY <2>2, <2>3, <2>4 DEF RangeTask
  <1>6. TypeOK'
    BY <1>1, <1>2, <1>5 DEF TypeOK
  <1> QED BY <1>1, <1>4, <1>6 DEF PartsInv, NoPartLeftBehind, Returned

LEMMA NextIInv == IInv /\ [Next]_vars => IInv'
  <1> SUFFICES ASSUME IInv, [Next]_vars PROVE IInv'
    OBVIOUS
  <1>1. CASE Caller
    BY <1>1, CallerStep
  <1>2. CASE \E i \in Ranges : RangeTask(i)
    BY <1>2, TaskStep
  <1>3. CASE SourceChanges
    <2>1. UNCHANGED <<size, par, cache, pc, pinned, part, dest>>
      BY <1>3 DEF SourceChanges, inputs
    <2>2. Ranges' = Ranges /\ \A i : Extent(i)' = Extent(i)
      BY <2>1 DEF Ranges, Extent
    <2>3. server' \in [ranges : BOOLEAN, etag : BOOLEAN, version : Versions]
      <3>0. server.version \in Versions
        BY DEF IInv, TypeOK
      <3>1. server.version + 1 \in Versions
        BY <1>3, <3>0, LimitAssumption DEF SourceChanges, Versions
      <3> QED BY <1>3, <3>1 DEF SourceChanges, IInv, TypeOK
    <2> QED BY <2>1, <2>2, <2>3 DEF IInv, TypeOK, PartsInv, NoPartLeftBehind, Returned
  <1>4. CASE UNCHANGED vars
    BY <1>4 DEF vars, IInv, TypeOK, PartsInv, NoPartLeftBehind, Returned, Ranges, Extent
  <1> QED BY <1>1, <1>2, <1>3, <1>4 DEF Next

\* Every state is well typed and no part file holds more than its range.
THEOREM DownloadTypeOK == Spec => []TypeOK
  <1> QED BY InitIInv, NextIInv, PTL DEF Spec, IInv

\* Once a download returned or raised, no part file is left and no task can
\* create one, whatever failed and in whatever order.
THEOREM NoPartIsLeftBehind == Spec => []NoPartLeftBehind
  <1> QED BY InitIInv, NextIInv, PTL DEF Spec, IInv
-----------------------------------------------------------------------------
(* What is at the destination: a part that succeeded holds the bytes of    *)
(* its range, from the version that the HEAD request pinned if the server  *)
(* sends ETags; the parts, joined in order, are the archive.               *)

\* The ranges are numbered without a gap, and the last one reaches the end.
LEMMA RangesAreNumbered ==
    ASSUME NEW p \in Nat \ {0}, NEW len \in Nat \ {0}
    PROVE  /\ Cardinality(Indices(p, len)) \in Nat \ {0}
           /\ Indices(p, len) = 0 .. Cardinality(Indices(p, len)) - 1
           /\ len <= Cardinality(Indices(p, len)) * Span(p, len)
  <1> DEFINE w == Workers(p, len)
             s == Span(p, len)
             m == (len - 1) \div s
  <1>1. w \in Nat \ {0} /\ s \in Nat \ {0} /\ len <= w * s
    BY SpanCovers
  <1>2. Indices(p, len) = {i \in 0 .. w - 1 : i * s < len}
    BY DEF Indices
  <1> HIDE DEF w, s
  <1>3. m \in Nat /\ m * s <= len - 1 /\ len - 1 < m * s + s
    BY <1>1, Quotient
  <1> HIDE DEF m
  <1>4. /\ m * s \in Int /\ (m + 1) * s = m * s + s /\ w * s \in Int
        /\ m \in Int /\ m + 1 \in Int /\ w \in Int /\ s \in Nat
    BY <1>1, <1>3
  <1>5. m < w
    <2>1. SUFFICES ASSUME w <= m PROVE FALSE
      BY <1>4
    <2>2. w * s <= m * s
      BY <1>4, <2>1, TimesMonotone
    <2> QED BY <1>1, <1>3, <1>4, <2>2
  <1>6. ASSUME NEW i \in 0 .. w - 1 PROVE i * s < len <=> i <= m
    <2>1. i \in Int /\ i * s \in Int
      BY <1>4
    <2>2. CASE i <= m
      <3>1. i * s <= m * s
        BY <1>4, <2>1, <2>2, TimesMonotone
      <3> QED BY <1>3, <1>4, <2>1, <2>2, <3>1
    <2>3. CASE m < i
      <3>1. m * s + s <= i * s
        BY <1>4, <2>1, <2>3, MultiplesApart
      <3> QED BY <1>3, <1>4, <2>1, <2>3, <3>1
    <2> QED BY <1>4, <2>1, <2>2, <2>3
  <1>7. Indices(p, len) = 0 .. m
    BY <1>2, <1>3, <1>4, <1>5, <1>6
  <1>8. Cardinality(0 .. m) = m + 1
    BY <1>3, FS_Interval
  <1> QED BY <1>3, <1>4, <1>7, <1>8 DEF s

PartsHoldTheirRanges ==
    \A i \in Ranges :
        /\ part[i].task \in {"answered", "ok"} /\ server.etag => part[i].from = pinned
        /\ part[i].task = "ok" => part[i].data = Cells(part[i].from, Start(par, size, i), Extent(i))

\* Parts that hold their ranges, joined in the order of the ranges, hold each
\* byte of the archive at its offset, in the version of some part.
LEMMA JoinedParts ==
    ASSUME TypeOK, PartsHoldTheirRanges, \A i \in Ranges : part[i].task = "ok",
           NEW joined, joined = FlattenSeq([k \in 1 .. Cardinality(Ranges) |-> part[k - 1].data])
    PROVE  /\ joined \in Seq(Int \X Int) /\ Len(joined) = size
           /\ \A n \in 1 .. size : \E i \in Ranges : joined[n] = <<part[i].from, n - 1>>
  <1> DEFINE c == Cardinality(Ranges)
             s == Span(par, size)
             seqs == [k \in 1 .. c |-> part[k - 1].data]
             at == [k \in 0 .. c |-> Least(size, k * s)]
  <1>1. size \in Nat \ {0} /\ par \in Nat \ {0}
    BY SizesAssumption DEF TypeOK
  <1>2. c \in Nat \ {0} /\ Ranges = 0 .. c - 1 /\ size <= c * s /\ s \in Nat \ {0}
    BY <1>1, RangesAreNumbered, SpanCovers DEF Ranges
  <1>3. \A i : Start(par, size, i) = i * s /\ End(par, size, i) = Least(size - 1, (i + 1) * s - 1)
    BY DEF Start, End
  <1>4. \A i \in Ranges : i * s < size
    BY DEF Ranges, Indices
  <1> HIDE DEF c, s
  <1>5. ASSUME NEW k \in 1 .. c
        PROVE  /\ k - 1 \in Ranges
               /\ k \in 0 .. c /\ k - 1 \in 0 .. c
               /\ k * s \in Nat /\ (k - 1) * s \in Nat /\ k * s = (k - 1) * s + s
    <2>1. k - 1 \in Ranges /\ k \in Nat /\ k - 1 \in Nat /\ k <= c
      BY <1>2
    <2>2. k * s \in Nat /\ (k - 1) * s \in Nat
      BY <1>2, <2>1
    <2>3. k * s = (k - 1) * s + s
      BY <1>2, <2>1
    <2> QED BY <1>2, <2>1, <2>2, <2>3
  <1>6. ASSUME NEW k \in 1 .. c
        PROVE  /\ at[k - 1] = (k - 1) * s /\ at[k] = at[k - 1] + Extent(k - 1)
               /\ Extent(k - 1) \in Nat
    <2>1. (k - 1) * s < size
      BY <1>4, <1>5
    <2>2. at[k - 1] = (k - 1) * s /\ at[k] = Least(size, k * s)
      BY <1>1, <1>5, <2>1 DEF Least
    <2>3. Extent(k - 1) = Least(size - 1, ((k - 1) + 1) * s - 1) - (k - 1) * s + 1
      BY <1>3 DEF Extent
    <2>4. (k - 1) + 1 = k
      OBVIOUS
    <2> QED BY <1>1, <1>2, <1>5, <2>1, <2>2, <2>3, <2>4 DEF Least
  <1>7. ASSUME NEW k \in 1 .. c
        PROVE  /\ seqs[k] = Cells(part[k - 1].from, (k - 1) * s, Extent(k - 1))
               /\ part[k - 1].from \in Int
               /\ seqs[k] \in Seq(Int \X Int) /\ Len(seqs[k]) = Extent(k - 1)
    <2>0. k - 1 \in Ranges
      BY <1>5
    <2>1. part[k - 1].from \in Int
      <3>1. part[k - 1] \in PartFiles
        BY <2>0 DEF TypeOK
      <3> QED BY <3>1 DEF PartFiles, Versions
    <2>2. seqs[k] = Cells(part[k - 1].from, (k - 1) * s, Extent(k - 1))
      <3>1. part[k - 1].data = Cells(part[k - 1].from, Start(par, size, k - 1), Extent(k - 1))
        BY <2>0 DEF PartsHoldTheirRanges
      <3>2. Start(par, size, k - 1) = (k - 1) * s
        BY <1>3
      <3>3. seqs[k] = part[k - 1].data
        OBVIOUS
      <3> HIDE DEF seqs
      <3> QED BY <3>1, <3>2, <3>3, Zenon
    <2>3. (k - 1) * s \in Int /\ Extent(k - 1) \in Nat
      <3>1. (k - 1) * s \in Nat
        BY <1>5
      <3>2. Extent(k - 1) \in Nat
        BY <1>6
      <3> QED BY <3>1, <3>2
    <2>4. /\ Cells(part[k - 1].from, (k - 1) * s, Extent(k - 1)) \in Seq(Int \X Int)
          /\ Len(Cells(part[k - 1].from, (k - 1) * s, Extent(k - 1))) = Extent(k - 1)
      BY <2>1, <2>3, CellsType
    <2> HIDE DEF seqs
    <2> QED BY <2>1, <2>2, <2>4
  <1>8. at[0] = 0 /\ at[c] = size
    <2>1. 0 \in 0 .. c /\ c \in 0 .. c /\ 0 * s = 0 /\ c * s \in Int
      BY <1>2
    <2> QED BY <1>1, <1>2, <2>1 DEF Least
  <1>9. at \in [0 .. c -> Nat]
    <2>1. ASSUME NEW k \in 0 .. c PROVE Least(size, k * s) \in Nat
      <3>1. k * s \in Nat
        BY <1>2
      <3> QED BY <1>1, <3>1 DEF Least
    <2> QED BY <2>1
  <1>10. Ends(seqs, c, at)
    BY <1>6, <1>7, <1>8, <1>9 DEF Ends
  <1>11. Len(seqs) = c
    BY <1>2
  <1>12. joined = FlattenSeq(seqs)
    BY DEF c
  <1> HIDE DEF at, seqs
  <1>13. /\ joined \in Seq(Int \X Int) /\ Len(joined) = size
         /\ \A k \in 1 .. c : \A j \in 1 .. Len(seqs[k]) : joined[at[k - 1] + j] = seqs[k][j]
    <2>1. Consists(FlattenSeq(seqs), Int \X Int, seqs, c, at)
      <3> DEFINE T == Int \X Int
      <3>1. \A k \in 1 .. c : seqs[k] \in Seq(T)
        BY <1>7
      <3>2. c \in Nat \ {0}
        BY <1>2
      <3> HIDE DEF T
      <3>3. Consists(FlattenSeq(seqs), T, seqs, c, at)
        BY <1>10, <1>11, <3>1, <3>2, FlattenAt
      <3> QED BY <3>3 DEF T
    <2> QED BY <1>8, <1>12, <2>1 DEF Consists
  <1>14. ASSUME NEW n \in 1 .. size
         PROVE  \E i \in Ranges : joined[n] = <<part[i].from, n - 1>>
    <2>1. n - 1 \in 0 .. size - 1
      BY <1>1
    <2>2. PICK i \in Ranges : Start(par, size, i) <= n - 1 /\ n - 1 <= End(par, size, i)
      BY <1>1, <2>1, RangesTileAll DEF RangesTile, Ranges
    <2> DEFINE k == i + 1
               j == n - i * s
    <2>3. k \in 1 .. c /\ k - 1 = i
      BY <1>2
    <2>4. i * s \in Int
      BY <1>2
    <2>5. at[k - 1] = i * s /\ Extent(i) = End(par, size, i) - i * s + 1 /\ Extent(i) \in Nat
      <3>1. at[k - 1] = (k - 1) * s /\ Extent(k - 1) \in Nat
        BY <1>6, <2>3
      <3>2. Extent(i) = End(par, size, i) - i * s + 1
        BY <1>3 DEF Extent
      <3> QED BY <2>3, <3>1, <3>2
    <2>6. End(par, size, i) \in Int
      <3>1. (i + 1) * s \in Int
        BY <1>2
      <3> QED BY <1>1, <1>3, <3>1 DEF Least
    <2>7. j \in 1 .. Extent(i) /\ i * s + j = n /\ i * s + j - 1 = n - 1
      BY <1>3, <2>2, <2>4, <2>5, <2>6
    <2>8. seqs[k] = Cells(part[i].from, i * s, Extent(i)) /\ Len(seqs[k]) = Extent(i)
      BY <1>7, <2>3
    <2> HIDE DEF k, j
    <2>9. joined[i * s + j] = seqs[k][j]
      BY <1>13, <2>3, <2>5, <2>7, <2>8
    <2>10. seqs[k][j] = <<part[i].from, i * s + j - 1>>
      BY <2>7, <2>8 DEF Cells
    <2> QED BY <2>7, <2>9, <2>10
  <1> QED BY <1>13, <1>14

\* What DownloadIsWhole and DownloadIsOneArchive say of the destination.
Archived(data) ==
    /\ data = [n \in 1 .. size |-> <<data[n][1], n - 1>>]
    /\ \A n \in DOMAIN data : data[n][1] # Altered
    /\ server.etag => \A n \in DOMAIN data : data[n][1] = data[1][1]

DataInv ==
    /\ PartsHoldTheirRanges
    /\ pc \in {"copy", "unlink"} => \A i \in Ranges : part[i].task = "ok"
    /\ pc \in {"unlink", "done"} => Archived(dest)

\* A body that is as long as the archive is one version of it.
LEMMA BodyIsArchived ==
    ASSUME size \in Nat \ {0}, NEW v \in Nat, NEW data, data = Cells(v, 0, size)
    PROVE  Archived(data)
  <1>1. \A n \in 1 .. size : data[n] = <<v, n - 1>>
    BY DEF Cells
  <1>2. DOMAIN data = 1 .. size /\ data = [n \in 1 .. size |-> data[n]]
    BY DEF Cells
  <1>3. v # Altered /\ 1 \in 1 .. size
    BY DEF Altered
  <1>4. \A n \in 1 .. size : data[n][1] = v /\ data[n] = <<data[n][1], n - 1>>
    BY <1>1
  <1>5. data = [n \in 1 .. size |-> <<data[n][1], n - 1>>]
    BY <1>2, <1>4, Zenon
  <1> QED BY <1>2, <1>3, <1>4, <1>5 DEF Archived

\* The joined parts are, too.
LEMMA JoinIsArchived ==
    ASSUME TypeOK, PartsHoldTheirRanges, \A i \in Ranges : part[i].task = "ok",
           NEW joined, joined = FlattenSeq([k \in 1 .. Cardinality(Ranges) |-> part[k - 1].data])
    PROVE  Archived(joined)
  <1>1. /\ joined \in Seq(Int \X Int) /\ Len(joined) = size
        /\ \A n \in 1 .. size : \E i \in Ranges : joined[n] = <<part[i].from, n - 1>>
    BY JoinedParts
  <1>2. size \in Nat \ {0}
    BY SizesAssumption DEF TypeOK
  <1>3. DOMAIN joined = 1 .. size /\ joined = [n \in 1 .. size |-> joined[n]] /\ 1 \in 1 .. size
    <2> DEFINE T == Int \X Int
    <2>1. joined \in Seq(T) /\ Len(joined) = size /\ size \in Nat
      BY <1>1, <1>2
    <2> HIDE DEF T
    <2>2. DOMAIN joined = 1 .. size /\ joined = [n \in 1 .. size |-> joined[n]]
      BY <2>1, AsFunction
    <2> QED BY <1>2, <2>2
  <1>4. ASSUME NEW i \in Ranges
        PROVE  part[i].from # Altered /\ (server.etag => part[i].from = pinned)
    <2>1. part[i].from \in Nat
      <3>1. part[i] \in PartFiles
        BY DEF TypeOK
      <3> QED BY <3>1 DEF PartFiles, Versions
    <2> QED BY <2>1 DEF Altered, PartsHoldTheirRanges
  <1>5. ASSUME NEW n \in 1 .. size
        PROVE  /\ joined[n] = <<joined[n][1], n - 1>> /\ joined[n][1] # Altered
               /\ server.etag => joined[n][1] = pinned
    <2>1. PICK i \in Ranges : joined[n] = <<part[i].from, n - 1>>
      BY <1>1
    <2>2. joined[n][1] = part[i].from
      BY <2>1
    <2> QED BY <1>4, <2>1, <2>2
  <1>6. joined = [n \in 1 .. size |-> <<joined[n][1], n - 1>>]
    BY <1>3, <1>5, Zenon
  <1> QED BY <1>3, <1>5, <1>6 DEF Archived

LEMMA InitDataInv == Init => DataInv
  BY DEF Init, DataInv, PartsHoldTheirRanges, NoPart

\* A step that leaves the ranges, the parts and the server alone.
LEMMA SameParts ==
    ASSUME PartsHoldTheirRanges,
           UNCHANGED <<size, par, part, pinned>>, server'.etag = server.etag
    PROVE  PartsHoldTheirRanges' /\ Ranges' = Ranges
  BY DEF PartsHoldTheirRanges, Ranges, Extent

LEMMA NextDataInv == IInv /\ DataInv /\ [Next]_vars => DataInv'
  <1> SUFFICES ASSUME IInv, DataInv, [Next]_vars PROVE DataInv'
    OBVIOUS
  <1> USE DEF inputs
  <1>0. TypeOK /\ PartsHoldTheirRanges /\ size \in Nat \ {0}
    BY SizesAssumption DEF IInv, TypeOK, DataInv
  <1>1. CASE UseCached
    <2>1. dest' = Cells(Official, 0, size) /\ UNCHANGED <<size, par, part, pinned, server>>
      BY <1>1 DEF UseCached, Accepted
    <2>2. Archived(dest')
      BY <1>0, <2>1, BodyIsArchived DEF Official
    <2>3. Archived(dest)'
      BY <2>1, <2>2 DEF Archived
    <2>4. PartsHoldTheirRanges'
      BY <1>0, <2>1, SameParts
    <2> QED BY <1>1, <2>3, <2>4 DEF UseCached, DataInv
  <1>2. CASE HeadRequest
    <2>1. UNCHANGED <<size, par, server>> /\ pc' \in {"join", "sequential"} /\ Ranges' = Ranges
      BY <1>2 DEF HeadRequest, Ranges
    <2>2. \A i \in Ranges : part'[i].task \in {"submitted", "none"}
      BY <1>2 DEF HeadRequest, NoPart, IInv, PartsInv
    <2> QED BY <2>1, <2>2 DEF DataInv, PartsHoldTheirRanges
  <1>3. CASE SequentialDownload
    <2>1. UNCHANGED <<size, par, part, pinned, server>> /\ pc' \in {"done", "raised"}
      BY <1>3 DEF SequentialDownload
    <2>2. PartsHoldTheirRanges'
      BY <1>0, <2>1, SameParts
    <2>3. ASSUME pc' = "done" PROVE Archived(dest)'
      <3>1. server.version \in Nat
        <4>1. server \in [ranges : BOOLEAN, etag : BOOLEAN, version : Versions]
          BY <1>0 DEF TypeOK
        <4> QED BY <4>1 DEF Versions
      <3>2. PICK length \in 0 .. size + 1 :
               /\ dest' = Cells(server.version, 0, Least(length, MaxBytes))
               /\ length <= MaxBytes /\ Whole(dest')
        BY <1>3, <2>3 DEF SequentialDownload
      <3>3. length \in Nat /\ Least(length, MaxBytes) = length
        BY <1>0, <3>2 DEF Least
      <3>4. Len(Cells(server.version, 0, length)) = length
        <4>1. server.version \in Int /\ 0 \in Int
          BY <3>1
        <4> QED BY <3>3, <4>1, CellsType
      <3>5. length = size
        BY <3>2, <3>3, <3>4 DEF Whole
      <3>6. Archived(dest')
        BY <1>0, <3>1, <3>2, <3>3, <3>5, BodyIsArchived
      <3> QED BY <2>1, <3>6 DEF Archived
    <2> QED BY <2>1, <2>2, <2>3 DEF DataInv
  <1>4. CASE Join
    <2>1. UNCHANGED <<size, par, part, pinned, server, dest>>
      BY <1>4 DEF Join
    <2>2. PartsHoldTheirRanges' /\ Ranges' = Ranges
      BY <1>0, <2>1, SameParts
    <2> QED BY <1>4, <2>1, <2>2 DEF Join, DataInv
  <1>5. CASE Copy
    <2>1. UNCHANGED <<size, par, part, pinned, server>> /\ pc' \in {"unlink", "unlink failed"}
      BY <1>5 DEF Copy
    <2>2. PartsHoldTheirRanges' /\ Ranges' = Ranges
      BY <1>0, <2>1, SameParts
    <2>3. \A i \in Ranges : part[i].task = "ok"
      BY <1>5 DEF Copy, DataInv
    <2>4. dest' = FlattenSeq([k \in 1 .. Cardinality(Ranges) |-> part[k - 1].data])
      BY <1>5 DEF Copy
    <2>5. Archived(dest')
      BY <1>0, <2>3, <2>4, JoinIsArchived
    <2>6. Archived(dest)'
      BY <2>1, <2>5 DEF Archived
    <2> QED BY <2>1, <2>2, <2>3, <2>6 DEF DataInv
  <1>6. CASE Raises
    <2>1. /\ UNCHANGED <<size, par, part, pinned, server, dest>>
          /\ pc' \in {"unlink failed", "raised"}
      BY <1>6 DEF Raises
    <2>2. PartsHoldTheirRanges'
      BY <1>0, <2>1, SameParts
    <2> QED BY <2>1, <2>2 DEF DataInv
  <1>7. CASE Unlink
    <2>1. /\ UNCHANGED <<size, par, pinned, server, dest>> /\ pc' \in {"done", "raised"}
          /\ pc' = "done" => pc = "unlink"
      BY <1>7 DEF Unlink
    <2>2. /\ Ranges' = Ranges
          /\ \A i : Extent(i)' = Extent(i) /\ Start(par, size, i)' = Start(par, size, i)
      BY <2>1 DEF Ranges, Extent
    <2>3. ASSUME NEW i \in Ranges
          PROVE  /\ part'[i].data = part[i].data /\ part'[i].from = part[i].from
                 /\ part'[i].task = part[i].task
      BY <1>0, <1>7 DEF Unlink, TypeOK, PartFiles
    <2>4. PartsHoldTheirRanges'
      BY <1>0, <2>1, <2>2, <2>3 DEF PartsHoldTheirRanges
    <2>5. pc' = "done" => Archived(dest)'
      BY <2>1 DEF DataInv, Archived
    <2> QED BY <2>1, <2>4, <2>5 DEF DataInv
  <1>8. CASE \E i \in Ranges : RangeTask(i)
    <2>1. PICK i \in Ranges : RangeTask(i)
      BY <1>8
    <2>2. UNCHANGED <<size, par, pc, pinned, server, dest>>
      BY <2>1 DEF RangeTask, RangeAnswered, RangeRefused, RangeBody
    <2>3. /\ Ranges' = Ranges
          /\ \A j : Extent(j)' = Extent(j) /\ Start(par, size, j)' = Start(par, size, j)
      BY <2>2 DEF Ranges, Extent
    <2>4. part[i].task \in {"submitted", "answered"}
      BY <2>1 DEF RangeTask, RangeAnswered, RangeRefused, RangeBody
    <2>5. pc \notin {"copy", "unlink"}
      BY <2>4 DEF DataInv
    <2>6. part[i] \in PartFiles /\ \A j \in Ranges : j # i => part'[j] = part[j]
      BY <1>0, <2>1 DEF RangeTask, RangeAnswered, RangeRefused, RangeBody, TypeOK
    <2>7. /\ part'[i].task \in {"answered", "ok"} /\ server.etag => part'[i].from = pinned
          /\ part'[i].task = "ok" =>
                part'[i].data = Cells(part'[i].from, Start(par, size, i), Extent(i))
      <3>1. CASE RangeAnswered(i)
        BY <1>0, <2>6, <3>1 DEF RangeAnswered, SameSource, TypeOK, PartFiles
      <3>2. CASE RangeRefused(i)
        <4>1. PICK f \in BOOLEAN : part' = [part EXCEPT ![i].task = "failed", ![i].file = f]
          BY <3>2 DEF RangeRefused
        <4>2. part'[i].task = "failed"
          BY <1>0, <2>6, <4>1 DEF TypeOK, PartFiles
        <4> QED BY <4>2
      <3>3. CASE RangeBody(i)
        <4>1. PICK length \in 0 .. Extent(i) + 1, task \in {"ok", "failed"} :
                 /\ task = "ok" => length = Extent(i)
                 /\ part' = [part EXCEPT ![i].task = task,
                        ![i].data = Cells(part[i].from, Start(par, size, i), Kept(i, length))]
          BY <3>3 DEF RangeBody
        <4>2. part[i].task = "answered" /\ (server.etag => part[i].from = pinned)
          BY <1>0, <3>3 DEF RangeBody, PartsHoldTheirRanges
        <4>3. Extent(i) \in Nat
          BY <1>0, ExtentPositive
        <4>4. task = "ok" => Kept(i, length) = Extent(i)
          BY <4>1, <4>3 DEF Kept, Least
        <4>5. /\ part'[i].from = part[i].from /\ part'[i].task = task
              /\ part'[i].data = Cells(part[i].from, Start(par, size, i), Kept(i, length))
          BY <1>0, <2>6, <4>1 DEF TypeOK, PartFiles
        <4> QED BY <4>2, <4>4, <4>5
      <3> QED BY <2>1, <3>1, <3>2, <3>3 DEF RangeTask
    <2>8. PartsHoldTheirRanges'
      BY <1>0, <2>2, <2>3, <2>6, <2>7 DEF PartsHoldTheirRanges
    <2>9. pc' = "done" => Archived(dest)'
      BY <2>2 DEF DataInv, Archived
    <2> QED BY <2>2, <2>5, <2>8, <2>9 DEF DataInv
  <1>9. CASE SourceChanges
    <2>1. UNCHANGED <<size, par, part, pinned, dest, pc>> /\ server'.etag = server.etag
      BY <1>0, <1>9 DEF SourceChanges, TypeOK
    <2>2. PartsHoldTheirRanges' /\ Ranges' = Ranges
      BY <1>0, <2>1, SameParts
    <2>3. Archived(dest) => Archived(dest)'
      BY <2>1 DEF Archived
    <2> QED BY <2>1, <2>2, <2>3 DEF DataInv
  <1>10. CASE UNCHANGED vars
    <2>1. UNCHANGED <<size, par, part, pinned, dest, pc, server>>
      BY <1>10 DEF vars
    <2>2. PartsHoldTheirRanges' /\ Ranges' = Ranges
      BY <1>0, <2>1, SameParts
    <2>3. Archived(dest) => Archived(dest)'
      BY <2>1 DEF Archived
    <2> QED BY <2>1, <2>2, <2>3 DEF DataInv
  <1> QED BY <1>1, <1>2, <1>3, <1>4, <1>5, <1>6, <1>7, <1>8, <1>9, <1>10 DEF Next, Caller

LEMMA DataInvariance == Spec => [](IInv /\ DataInv)
  <1>1. Init => IInv /\ DataInv
    BY InitIInv, InitDataInv
  <1>2. IInv /\ DataInv /\ [Next]_vars => IInv' /\ DataInv'
    BY NextIInv, NextDataInv
  <1> QED BY <1>1, <1>2, PTL DEF Spec

\* A download that returned left every byte of the archive at its offset, once,
\* for every size and every number of connections.
THEOREM DownloadIsAlwaysWhole == Spec => []DownloadIsWhole
  <1>1. DataInv => DownloadIsWhole
    BY DEF DataInv, Archived, DownloadIsWhole
  <1> QED BY <1>1, DataInvariance, PTL

\* What was left is never the rejected candidate, and one version of the archive
\* if the server sends ETags, however often the archive was replaced.
THEOREM DownloadIsAlwaysOneArchive == Spec => []DownloadIsOneArchive
  <1>1. DataInv => DownloadIsOneArchive
    BY DEF DataInv, Archived, DownloadIsOneArchive
  <1> QED BY <1>1, DataInvariance, PTL
=============================================================================
