---------------------------- MODULE SampleReads ----------------------------
(***************************************************************************)
(* Reading a selection of samples: Cifar10BinarySampleSource counts the    *)
(* records of its files when it is opened and fills the arrays of a        *)
(* selection, which start uninitialized, file by file; the preprocessor    *)
(* then transforms what was read and hands on the identities.              *)
(***************************************************************************)
EXTENDS Naturals, Sequences, FiniteSets

CONSTANTS
    RecordBytes,   \* _RECORD_BYTES
    MaxFiles,      \* bound: files of the source
    MaxBytes,      \* bound: size of a file
    MaxTake        \* bound: length of a selection

ASSUME SourceAssumption == RecordBytes \in Nat \ {0} /\ MaxFiles \in Nat \ {0}
ASSUME SelectionAssumption == MaxBytes \in Nat /\ MaxTake \in Nat

VARIABLES
    bytes,      \* size of each file
    badlabel,   \* the file that has a label outside 0 .. 9, or 0
    counts,     \* _counts: records of the files that were opened so far
    selection,  \* the global indices asked for
    samples,    \* for each position the record that was copied there
    file,       \* the file take() comes to next
    output,     \* the Samples returned: for each position an id and its record
    pc

vars == <<bytes, badlabel, counts, selection, samples, file, output, pc>>
source == <<bytes, badlabel, counts>>

Files == 1 .. Len(bytes)
Garbage == <<0, 0>>

\* _offsets: the prefix sums of _counts, with a leading 0.
Offsets == LET sum[i \in 0 .. Len(counts)] == IF i = 0 THEN 0 ELSE sum[i - 1] + counts[i]
           IN  sum
SampleCount == Offsets[Len(counts)]

Init ==
    /\ \E n \in 1 .. MaxFiles : bytes \in [1 .. n -> 0 .. MaxBytes] /\ badlabel \in 0 .. n
    /\ counts = <<>> /\ selection = <<>> /\ samples = <<>>
    /\ file = 1 /\ output = <<>> /\ pc = "opening"

-----------------------------------------------------------------------------
(* __init__.                                                               *)

\* A file that is empty, ends within a record or has an invalid label is corrupt.
Accepts(f) == bytes[f] > 0 /\ bytes[f] % RecordBytes = 0 /\ badlabel # f

OpenFile ==
    /\ pc = "opening" /\ Len(counts) < Len(bytes)
    /\ LET f == Len(counts) + 1
       IN  IF Accepts(f)
           THEN counts' = Append(counts, bytes[f] \div RecordBytes) /\ UNCHANGED pc
           ELSE pc' = "corrupt" /\ UNCHANGED counts
    /\ UNCHANGED <<bytes, badlabel, selection, samples, file, output>>

Opened ==
    /\ pc = "opening" /\ Len(counts) = Len(bytes) /\ pc' = "open"
    /\ UNCHANGED <<source, selection, samples, file, output>>

-----------------------------------------------------------------------------
(* take().                                                                 *)

\* Indices are 0 and up; the builder asks for no empty batch.
Valid(indices) == \A p \in DOMAIN indices : indices[p] < SampleCount

Take ==
    /\ pc \in {"open", "done", "refused"}
    /\ \E n \in 1 .. MaxTake : \E indices \in [1 .. n -> 0 .. SampleCount] :
         /\ selection' = indices
         /\ samples' = [p \in 1 .. n |-> Garbage]
         /\ pc' = IF Valid(indices) THEN "filling" ELSE "refused"
    /\ file' = 1 /\ output' = <<>>
    /\ UNCHANGED source

\* A variant of Positions: the first index of the next file is taken as well.
PositionsInclusive(f) ==
    {p \in DOMAIN selection : selection[p] >= Offsets[f - 1] /\ selection[p] <= Offsets[f]}

\* The positions whose index lies in a file.
Positions(f) ==
    {p \in DOMAIN selection : selection[p] >= Offsets[f - 1] /\ selection[p] < Offsets[f]}

\* A variant of RecordOf: the index is used as it is.
RecordOfGlobal(f, p) == <<f, selection[p]>>

\* The record of a file is named by the file and its place there.
RecordOf(f, p) == <<f, selection[p] - Offsets[f - 1]>>

FillFromFile ==
    /\ pc = "filling" /\ file <= Len(bytes)
    /\ samples' = [p \in DOMAIN samples |->
                      IF p \in Positions(file) THEN RecordOf(file, p) ELSE samples[p]]
    /\ file' = file + 1
    /\ UNCHANGED <<source, selection, output, pc>>

\* transform() maps images and labels one by one, and keeps the copied indices.
Transform ==
    /\ pc = "filling" /\ file > Len(bytes) /\ pc' = "done"
    /\ output' = [p \in DOMAIN samples |-> [id |-> selection[p], record |-> samples[p]]]
    /\ UNCHANGED <<source, selection, samples, file>>

Next == OpenFile \/ Opened \/ Take \/ FillFromFile \/ Transform
Spec == Init /\ [][Next]_vars

-----------------------------------------------------------------------------
\* The records of the source, and those that come before one when the files are
\* read one after the other: their number is the global index of that record.
Records == {x \in Files \X (0 .. MaxBytes) : x[2] < bytes[x[1]] \div RecordBytes}
Before(r) == {x \in Records : x[1] < r[1] \/ (x[1] = r[1] /\ x[2] < r[2])}

\* No position outside a file is read, for indices at the boundaries of files too.
ReadsExist == \A p \in DOMAIN samples : samples[p] \in Records \cup {Garbage}

\* Whatever is returned was read, although the arrays start uninitialized, and each
\* identity stands beside the record that has this global index.
IdentityIsIndex ==
    \A p \in DOMAIN output :
        /\ output[p].record \in Records
        /\ Cardinality(Before(output[p].record)) = output[p].id
        /\ output[p].id = selection[p]
=============================================================================
