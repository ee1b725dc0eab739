---------------------------- MODULE BatchLayout ----------------------------
(***************************************************************************)
(* How a build's samples are laid out: partitioner.py deals a permutation  *)
(* of the sample ids round robin to the shards, batch_builder.py cuts each *)
(* shard into batches of one size and a tail, profiles.py says which       *)
(* layouts a profile accepts.  Sequences are numbered from 1, sample ids   *)
(* and shards from 0.                                                      *)
(***************************************************************************)
EXTENDS Integers, Sequences

V1 == "CNN_IMAGE_CLASSIFICATION_V1"

\* How many of i, i + s, i + 2s, ... are below n.
ShardSize(n, s, i) == (n - i + s - 1) \div s

\* order[i::s]
Shard(order, s, i) ==
    [k \in 1 .. ShardSize(Len(order), s, i) |-> order[i + (k - 1) * s + 1]]

\* A variant of BatchCount: a tail is not a batch.
BatchCountFull(len, size) == len \div size

BatchCount(len, size) == (len + size - 1) \div size

BatchFirst(size, j) == (j - 1) * size + 1
BatchLast(len, size, j) == IF j * size <= len THEN j * size ELSE len

Split(shard, size) ==
    [j \in 1 .. BatchCount(Len(shard), size) |->
        SubSeq(shard, BatchFirst(size, j), BatchLast(Len(shard), size, j))]

Layout(order, s, size) == [i \in 1 .. s |-> Split(Shard(order, s, i - 1), size)]

HasEmptyShard(n, s) == \E i \in 0 .. s - 1 : ShardSize(n, s, i) = 0

EqualCounts(layout) == \A i, j \in DOMAIN layout : Len(layout[i]) = Len(layout[j])

\* A variant of ProfileAccepts: the rule of V1 for every profile.
ProfileAcceptsEven(profile, layout) == EqualCounts(layout)

\* Rules of a profile for the batch counts; an unknown name has none.
ProfileAccepts(profile, layout) == profile = V1 => EqualCounts(layout)

-----------------------------------------------------------------------------
\* Every position of the order is in exactly one shard, once, and the sizes of
\* two shards differ by at most one.
DealsRoundRobin(n, s) ==
    /\ \A p \in 1 .. n :
         \E i \in 0 .. s - 1 : \E k \in 1 .. ShardSize(n, s, i) :
            /\ i + (k - 1) * s + 1 = p
            /\ \A j \in 0 .. s - 1 : \A l \in 1 .. ShardSize(n, s, j) :
                 j + (l - 1) * s + 1 = p => j = i /\ l = k
    /\ \A i, j \in 0 .. s - 1 : ShardSize(n, s, i) <= ShardSize(n, s, j) + 1

\* Every position of a shard is in exactly one batch, every batch but the last
\* is full and none is empty.
CutsIntoBatches(len, size) ==
    /\ \A p \in 1 .. len :
         \E j \in 1 .. BatchCount(len, size) :
            /\ BatchFirst(size, j) <= p /\ p <= BatchLast(len, size, j)
            /\ \A l \in 1 .. BatchCount(len, size) :
                 BatchFirst(size, l) <= p /\ p <= BatchLast(len, size, l) => l = j
    /\ \A j \in 1 .. BatchCount(len, size) :
         /\ BatchFirst(size, j) <= BatchLast(len, size, j)
         /\ j < BatchCount(len, size) => BatchLast(len, size, j) = BatchFirst(size, j) + size - 1
=============================================================================
