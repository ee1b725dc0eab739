--------------------------- MODULE RangeDownload ---------------------------
(***************************************************************************)
(* DatasetBuildPipeline._download: a cached copy of the archive, or one    *)
(* sequential download, or parallel downloads of byte ranges into part     *)
(* files that are joined in order.  The server's archive may be replaced   *)
(* by another of the same size while it is being downloaded.               *)
(*                                                                         *)
(* A cell <<v, n>> is the byte at offset n of version v of the archive;    *)
(* version Official is the one whose MD5 the code knows.  A body is read   *)
(* in one step: what interleaves is when requests are answered and when    *)
(* tasks end, and a body is a single version of the archive.               *)
(***************************************************************************)
EXTENDS RangeArithmetic, SequencesExt

CONSTANTS
    Sizes,        \* sizes of the official archive, in cells
    Parallelism,  \* values of config.download_parallelism
    MaxBytes,     \* config.max_source_bytes, in cells
    MaxChanges    \* bound: replacements of the server's archive

ASSUME SizesAssumption == Sizes \subseteq Nat \ {0} /\ Parallelism \subseteq Nat \ {0}
ASSUME LimitAssumption == MaxBytes \in Nat \ {0} /\ MaxChanges \in Nat

VARIABLES
    size,    \* the known size of the official archive
    par,     \* config.download_parallelism
    cache,   \* the two cached candidates
    server,  \* what the server offers: ranges, an ETag, its current version
    pc,      \* control of the calling thread
    pinned,  \* the version whose ETag the HEAD request returned
    part,    \* range index -> its task and its part file
    dest     \* the destination file

inputs == <<size, par, cache>>
vars == <<size, par, cache, server, pc, pinned, part, dest>>

Official == 0
Altered == -1       \* a candidate that is not the archive
Versions == 0 .. MaxChanges
Candidates == {"none", "altered", "official"}
Ranges == Indices(par, size)
Extent(i) == End(par, size, i) - Start(par, size, i) + 1
Cells(v, first, length) == [n \in 1 .. length |-> <<v, first + n - 1>>]
PartFiles == [task : {"none", "submitted", "answered", "ok", "failed"}, file : BOOLEAN,
              from : Versions, data : Seq(Int \X Int)]
NoPart == [task |-> "none", file |-> FALSE, from |-> Official, data |-> <<>>]

Init ==
    /\ size \in Sizes
    /\ par \in Parallelism
    /\ cache \in [1 .. 2 -> Candidates]
    /\ server \in [ranges : BOOLEAN, etag : BOOLEAN, version : {Official}]
    /\ pc = "cache"
    /\ pinned = Official
    /\ part = [i \in Ranges |-> NoPart]
    /\ dest = <<>>

-----------------------------------------------------------------------------
(* The calling thread.                                                     *)

\* The candidate has the official size and the official MD5.
Accepted(candidate) == candidate = "official"

\* The environment's candidate is tried before the working directory's.
UseCached ==
    /\ pc = "cache"
    /\ \E i \in 1 .. 2 :
         /\ Accepted(cache[i])
         /\ i = 2 => ~Accepted(cache[1])
         /\ dest' = Cells(IF cache[i] = "official" THEN Official ELSE Altered, 0, size)
    /\ pc' = "done"
    /\ UNCHANGED <<inputs, server, pinned, part>>

\* The HEAD request answers the known length; it chooses the way to download.
HeadRequest ==
    /\ pc = "cache"
    /\ \A i \in 1 .. 2 : ~Accepted(cache[i])
    /\ pinned' = server.version
    /\ IF server.ranges /\ par # 1
       THEN pc' = "join" /\ part' = [i \in Ranges |-> [NoPart EXCEPT !.task = "submitted"]]
       ELSE pc' = "sequential" /\ UNCHANGED part
    /\ UNCHANGED <<inputs, server, dest>>

\* A variant of Whole: only an empty file is refused.
WholeIfNotEmpty(data) == data # <<>>

Whole(data) == data # <<>> /\ Len(data) = size

\* A second request, for the archive of then; the connection may end it early
\* and a server may send too much.
SequentialDownload ==
    /\ pc = "sequential"
    /\ \E length \in 0 .. size + 1 :
         /\ dest' = Cells(server.version, 0, Least(length, MaxBytes))
         /\ pc' = IF length <= MaxBytes /\ Whole(dest') THEN "done" ELSE "raised"
    /\ UNCHANGED <<inputs, server, pinned, part>>

\* Variants of Awaited: the pool is left as soon as one task has raised, or only
\* once every task has succeeded.
AwaitedUntilOneFails(i) == \E j \in Ranges : part[j].task = "failed" \/ part[i].task = "ok"
AwaitedSuccess(i) == part[i].task = "ok"

\* Leaving the pool's with-block waits for every task, after a failed one too.
Awaited(i) == part[i].task \in {"ok", "failed"}

Join ==
    /\ pc = "join"
    /\ \A i \in Ranges : Awaited(i)
    /\ pc' = IF \A i \in Ranges : part[i].task = "ok" THEN "copy" ELSE "unlink failed"
    /\ UNCHANGED <<inputs, server, pinned, part, dest>>

\* The parts are appended in the order of their ranges.
Copy ==
    /\ pc = "copy"
    /\ dest' = FlattenSeq([k \in 1 .. Cardinality(Ranges) |-> part[k - 1].data])
    /\ pc' = IF Whole(dest') THEN "unlink" ELSE "unlink failed"
    /\ UNCHANGED <<inputs, server, pinned, part>>

\* A request times out or answers another length, or the disk fails.
Raises ==
    /\ pc \in {"cache", "sequential", "copy"}
    /\ pc' = IF pc = "copy" THEN "unlink failed" ELSE "raised"
    /\ UNCHANGED <<inputs, server, pinned, part, dest>>

\* The finally clause, which a success and a failure both pass.
Unlink ==
    /\ pc \in {"unlink", "unlink failed"}
    /\ part' = [i \in Ranges |-> [part[i] EXCEPT !.file = FALSE]]
    /\ pc' = IF pc = "unlink" THEN "done" ELSE "raised"
    /\ UNCHANGED <<inputs, server, pinned, dest>>

-----------------------------------------------------------------------------
(* _download_range, one task of the pool.                                  *)

\* A variant of SameSource: the server's answer is not compared.
SameSourceUnchecked == TRUE

\* The ETag is sent as If-Range and compared with the one of the answer.
SameSource == server.etag => server.version = pinned

\* The answer comes before the part file is created and is checked after it.
RangeAnswered(i) ==
    /\ part[i].task = "submitted"
    /\ part' = [part EXCEPT ![i].task = IF SameSource THEN "answered" ELSE "failed",
                            ![i].file = TRUE,
                            ![i].from = server.version]
    /\ UNCHANGED <<inputs, server, pc, pinned, dest>>

\* No answer, or one that is not the range that was asked for.
RangeRefused(i) ==
    /\ part[i].task = "submitted"
    /\ \E file \in BOOLEAN : part' = [part EXCEPT ![i].task = "failed", ![i].file = file]
    /\ UNCHANGED <<inputs, server, pc, pinned, dest>>

\* A variant of Kept: what exceeds the extent is written before it is noticed.
KeptUnchecked(i, length) == length

\* Nothing is written past the extent of the range.
Kept(i, length) == Least(length, Extent(i))

\* The body, wherever it ended; only one of the expected length is a success.
RangeBody(i) ==
    /\ part[i].task = "answered"
    /\ \E length \in 0 .. Extent(i) + 1, task \in {"ok", "failed"} :
         /\ task = "ok" => length = Extent(i)
         /\ part' = [part EXCEPT
                ![i].task = task,
                ![i].data = Cells(part[i].from, Start(par, size, i), Kept(i, length))]
    /\ UNCHANGED <<inputs, server, pc, pinned, dest>>

RangeTask(i) == RangeAnswered(i) \/ RangeRefused(i) \/ RangeBody(i)

-----------------------------------------------------------------------------
\* The server, outside the program.
SourceChanges ==
    /\ server.version < MaxChanges
    /\ server' = [server EXCEPT !.version = @ + 1]
    /\ UNCHANGED <<inputs, pc, pinned, part, dest>>

Caller == UseCached \/ HeadRequest \/ SequentialDownload \/ Join \/ Copy \/ Raises \/ Unlink

Returned == pc \in {"done", "raised"}

Next == \/ Caller
        \/ \E i \in Ranges : RangeTask(i)
        \/ SourceChanges
        \/ Returned /\ UNCHANGED vars

\* Every request has a timeout, so neither the caller nor a task waits forever.
Connections == 0 .. Max(Parallelism) - 1
Fairness == WF_vars(Caller) /\ \A i \in Connections : WF_vars(i \in Ranges /\ RangeTask(i))
Spec == Init /\ [][Next]_vars /\ Fairness

-----------------------------------------------------------------------------
\* Types; a part file never holds more than the extent of its range.
TypeOK ==
    /\ size \in Sizes /\ par \in Parallelism
    /\ cache \in [1 .. 2 -> Candidates]
    /\ server \in [ranges : BOOLEAN, etag : BOOLEAN, version : Versions]
    /\ pc \in {"cache", "sequential", "join", "copy", "unlink", "unlink failed",
               "done", "raised"}
    /\ pinned \in Versions
    /\ part \in [Ranges -> PartFiles]
    /\ \A i \in Ranges : Len(part[i].data) <= Extent(i)

\* Each byte of the archive is in the range of exactly one connection, and no
\* connection is given an empty range, whatever the size and the parallelism.
PartsTileTheArchive == RangesTile(par, size)

\* A download that returned left every byte of the archive at its offset, once,
\* whatever the number of connections, and wherever responses ended.
DownloadIsWhole ==
    pc = "done" => dest = [n \in 1 .. size |-> <<dest[n][1], n - 1>>]

\* A cached copy is the official archive, and a download from a server that sends
\* ETags is one version of it, even when the server's archive was replaced
\* between two range requests.
DownloadIsOneArchive ==
    pc = "done" =>
        /\ \A n \in DOMAIN dest : dest[n][1] # Altered
        /\ server.etag => \A n \in DOMAIN dest : dest[n][1] = dest[1][1]

\* When the download returned or raised, no part file is left beside the
\* archive and no task can still create one.
NoPartLeftBehind ==
    Returned => \A i \in Ranges : ~part[i].file /\ part[i].task \notin {"submitted", "answered"}

\* A download returns or raises, also when some of its ranges fail.
DownloadEnds == <>Returned
=============================================================================
