----------------------- MODULE MaterializationProofs -----------------------
(***************************************************************************)
(* The layout of samples is exact for every number of samples and shards   *)
(* and every batch size: nothing is lost or doubled by the round-robin     *)
(* deal or by the cut into batches. And the pipeline goes on only with a   *)
(* whole tree, whatever crashed or was damaged before, refuses nothing     *)
(* without a cause, and leaves a temporary tree only where it broke off.   *)
(***************************************************************************)
EXTENDS Materialization, DataLemmas, FiniteSetTheorems, TLAPS

\* The k-th sample of shard i exists exactly when its position is in the order.
LEMMA ShardSizeExact ==
    ASSUME NEW n \in Nat, NEW s \in Nat \ {0}, NEW i \in 0 .. s - 1
    PROVE  /\ ShardSize(n, s, i) \in Nat
           /\ \A k \in Nat \ {0} : k <= ShardSize(n, s, i) <=> i + (k - 1) * s < n
  <1> DEFINE q == ShardSize(n, s, i)
             m == n - i + s - 1
  <1>1. m \in Nat
    OBVIOUS
  <1>2. q \in Nat /\ q * s <= m /\ m < q * s + s /\ q * s \in Int
    <2>1. q = m \div s
      BY DEF ShardSize
    <2>2. q \in Nat /\ q * s <= m /\ m < q * s + s
      BY <1>1, <2>1, Quotient
    <2> QED BY <2>2
  <1> HIDE DEF q
  <1>3. ASSUME NEW k \in Nat \ {0} PROVE k <= q <=> i + (k - 1) * s < n
    <2>1. k - 1 \in Int /\ (k - 1) * s \in Int
      OBVIOUS
    <2>2. CASE k <= q
      <3>1. (k - 1) * s + s <= q * s
        BY <1>2, <2>1, <2>2, MultiplesApart
      <3> QED BY <1>2, <2>1, <2>2, <3>1
    <2>3. CASE q < k
      <3>1. q * s <= (k - 1) * s
        BY <1>2, <2>1, <2>3, TimesMonotone
      <3> QED BY <1>2, <2>1, <2>3, <3>1
    <2> QED BY <1>2, <2>2, <2>3
  <1> QED BY <1>2, <1>3 DEF q

\* Position p is in shard (p - 1) % s only, once, and shard sizes differ by at
\* most one.
LEMMA DealsRoundRobinAll ==
    ASSUME NEW n \in Nat, NEW s \in Nat \ {0}
    PROVE  DealsRoundRobin(n, s)
  <1>1. ASSUME NEW p \in 1 .. n
        PROVE  \E i \in 0 .. s - 1 : \E k \in 1 .. ShardSize(n, s, i) :
                  /\ i + (k - 1) * s + 1 = p
                  /\ \A j \in 0 .. s - 1 : \A l \in 1 .. ShardSize(n, s, j) :
                       j + (l - 1) * s + 1 = p => j = i /\ l = k
    <2> DEFINE q == (p - 1) \div s
    <2>1. q \in Nat /\ q * s <= p - 1 /\ p - 1 < q * s + s /\ q * s \in Int
      <3>1. p - 1 \in Nat
        OBVIOUS
      <3>2. q \in Nat /\ q * s <= p - 1 /\ p - 1 < q * s + s
        BY <3>1, Quotient
      <3> QED BY <3>2
    <2> HIDE DEF q
    <2> DEFINE i == p - 1 - q * s
               k == q + 1
    <2>2. i \in 0 .. s - 1 /\ k \in Nat \ {0} /\ k - 1 = q
      BY <2>1
    <2>3. i + (k - 1) * s + 1 = p
      BY <2>1, <2>2
    <2>4. k \in 1 .. ShardSize(n, s, i)
      <3>1. i + (k - 1) * s < n
        BY <2>1, <2>2
      <3> HIDE DEF i, k
      <3> QED BY <2>2, <3>1, ShardSizeExact
    <2>5. ASSUME NEW j \in 0 .. s - 1, NEW l \in 1 .. ShardSize(n, s, j),
                 j + (l - 1) * s + 1 = p
          PROVE  j = i /\ l = k
      <3>1. ShardSize(n, s, j) \in Nat
        BY ShardSizeExact
      <3>2. l - 1 \in Int /\ (l - 1) * s \in Int /\ (l - 1) * s = p - 1 - j
        BY <2>5, <3>1
      <3>3. ~(l - 1 < q)
        <4>1. SUFFICES ASSUME l - 1 < q PROVE FALSE
          OBVIOUS
        <4>2. (l - 1) * s + s <= q * s
          BY <2>1, <3>2, <4>1, MultiplesApart
        <4> QED BY <2>1, <3>2, <4>2
      <3>4. ~(q < l - 1)
        <4>1. SUFFICES ASSUME q < l - 1 PROVE FALSE
          OBVIOUS
        <4>2. q * s + s <= (l - 1) * s
          BY <2>1, <3>2, <4>1, MultiplesApart
        <4> QED BY <2>1, <3>2, <4>2
      <3>5. l - 1 = q
        BY <2>1, <3>2, <3>3, <3>4
      <3> QED BY <2>1, <3>1, <3>2, <3>5
    <2> HIDE DEF i, k
    <2> QED BY <2>2, <2>3, <2>4, <2>5
  <1>2. ASSUME NEW i \in 0 .. s - 1, NEW j \in 0 .. s - 1
        PROVE  ShardSize(n, s, i) <= ShardSize(n, s, j) + 1
    <2> DEFINE a == ShardSize(n, s, i)
               b == ShardSize(n, s, j)
    <2>1. /\ a \in Nat /\ \A k \in Nat \ {0} : k <= a <=> i + (k - 1) * s < n
          /\ b \in Nat /\ \A k \in Nat \ {0} : k <= b <=> j + (k - 1) * s < n
      BY ShardSizeExact
    <2> HIDE DEF a, b
    <2>2. CASE a <= b + 1
      BY <2>2 DEF a, b
    <2> SUFFICES ASSUME b + 2 <= a PROVE FALSE
      BY <2>1, <2>2 DEF a, b
    <2>3. i + (a - 1) * s < n
      BY <2>1
    <2>4. ~(j + b * s < n)
      <3>1. b + 1 \in Nat \ {0} /\ (b + 1) - 1 = b /\ ~(b + 1 <= b)
        BY <2>1
      <3> QED BY <2>1, <3>1
    <2>5. b * s + s <= (a - 1) * s /\ b * s \in Int /\ (a - 1) * s \in Int
      <3>1. b \in Int /\ a - 1 \in Int /\ b < a - 1
        BY <2>1
      <3> QED BY <3>1, MultiplesApart
    <2> QED BY <2>3, <2>4, <2>5
  <1> QED BY <1>1, <1>2 DEF DealsRoundRobin

\* Position p of a shard is in batch (p - 1) \div size + 1 only.
LEMMA CutsIntoBatchesAll ==
    ASSUME NEW len \in Nat, NEW s \in Nat \ {0}
    PROVE  CutsIntoBatches(len, s)
  <1> DEFINE c == BatchCount(len, s)
  <1>1. c \in Nat /\ len <= c * s /\ c * s <= len + s - 1 /\ c * s \in Int
    <2>1. c \in Nat /\ len <= c * s /\ c * s <= len + s - 1
      BY Ceiling DEF BatchCount
    <2> QED BY <2>1
  <1> HIDE DEF c
  <1>2. ASSUME NEW j \in Int PROVE (j - 1) * s \in Int /\ j * s \in Int /\ j * s = (j - 1) * s + s
    BY SMT
  <1>3. ASSUME NEW j \in 1 .. c
        PROVE  (j - 1) * s < len /\ (j < c => j * s <= len)
    <2>1. (j - 1) * s + s <= c * s
      BY <1>1, <1>2, MultiplesApart
    <2>2. j < c => j * s + s <= c * s
      BY <1>1, <1>2, MultiplesApart
    <2> QED BY <1>1, <1>2, <2>1, <2>2
  <1>4. ASSUME NEW p \in 1 .. len
        PROVE  \E j \in 1 .. c :
                  /\ BatchFirst(s, j) <= p /\ p <= BatchLast(len, s, j)
                  /\ \A l \in 1 .. c :
                       BatchFirst(s, l) <= p /\ p <= BatchLast(len, s, l) => l = j
    <2> DEFINE q == (p - 1) \div s
    <2>1. q \in Nat /\ q * s <= p - 1 /\ p - 1 < q * s + s /\ q * s \in Int
      <3>1. p - 1 \in Nat
        OBVIOUS
      <3>2. q \in Nat /\ q * s <= p - 1 /\ p - 1 < q * s + s
        BY <3>1, Quotient
      <3> QED BY <3>2
    <2> HIDE DEF q
    <2>2. q + 1 \in Int /\ (q + 1) - 1 = q /\ (q + 1) * s = q * s + s
      BY <1>2, <2>1
    <2>3. q + 1 \in 1 .. c
      <3>1. SUFFICES ASSUME c <= q PROVE FALSE
        BY <1>1, <2>1
      <3>2. c * s <= q * s
        BY <1>1, <2>1, <3>1, TimesMonotone
      <3> QED BY <1>1, <2>1, <3>2
    <2>4. BatchFirst(s, q + 1) <= p /\ p <= BatchLast(len, s, q + 1)
      BY <2>1, <2>2 DEF BatchFirst, BatchLast
    <2>5. ASSUME NEW l \in 1 .. c, BatchFirst(s, l) <= p, p <= BatchLast(len, s, l)
          PROVE  l = q + 1
      <3>1. l \in Int /\ (l - 1) * s \in Int /\ l * s = (l - 1) * s + s
        BY <1>1, <1>2
      <3>2. (l - 1) * s < p /\ p <= (l - 1) * s + s
        BY <2>5, <3>1 DEF BatchFirst, BatchLast
      <3>3. ~(l - 1 < q)
        <4>1. SUFFICES ASSUME l - 1 < q PROVE FALSE
          OBVIOUS
        <4>2. (l - 1) * s + s <= q * s
          BY <2>1, <3>1, <4>1, MultiplesApart
        <4> QED BY <2>1, <3>1, <3>2, <4>2
      <3>4. ~(q < l - 1)
        <4>1. SUFFICES ASSUME q < l - 1 PROVE FALSE
          OBVIOUS
        <4>2. q * s + s <= (l - 1) * s
          BY <2>1, <3>1, <4>1, MultiplesApart
        <4> QED BY <2>1, <3>1, <3>2, <4>2
      <3> QED BY <2>1, <3>1, <3>3, <3>4
    <2> QED BY <2>3, <2>4, <2>5
  <1>5. ASSUME NEW j \in 1 .. c
        PROVE  /\ BatchFirst(s, j) <= BatchLast(len, s, j)
               /\ j < c => BatchLast(len, s, j) = BatchFirst(s, j) + s - 1
    BY <1>1, <1>2, <1>3 DEF BatchFirst, BatchLast
  <1> QED BY <1>4, <1>5 DEF CutsIntoBatches, c

\* The layout of every configuration is exact.
THEOREM LayoutIsAlwaysExact == Spec => []LayoutIsExact
  <1> DEFINE Inv == config \in Configs
  <1>1. Init => Inv
    BY DEF Init
  <1>2. Inv /\ [Next]_vars => Inv'
    BY DEF Next, vars, Call, WriteShard, WriteRoot, VerifyWork, Rename, Reuse, Upload,
           VerifyRemote, VerifyPublished, Fails, Crash, Damage
  <1>3. Inv => LayoutIsExact
    <2> SUFFICES ASSUME Inv PROVE LayoutIsExact
      OBVIOUS
    <2>1. /\ config.samples \in Nat /\ config.shards \in Nat \ {0}
          /\ config.size \in Nat \ {0}
      BY LayoutAssumption DEF Configs
    <2>2. DealsRoundRobin(config.samples, config.shards)
      BY <2>1, DealsRoundRobinAll
    <2>3. ASSUME NEW i \in 0 .. config.shards - 1
          PROVE  CutsIntoBatches(ShardSize(config.samples, config.shards, i), config.size)
      BY <2>1, ShardSizeExact, CutsIntoBatchesAll
    <2>4. \A i \in 0 .. config.shards - 1 :
             CutsIntoBatches(ShardSize(config.samples, config.shards, i), config.size)
      BY <2>3
    <2> QED BY <2>2, <2>4, Zenon DEF LayoutIsExact
  <1> HIDE DEF Inv
  <1> QED BY <1>1, <1>2, <1>3, PTL DEF Spec

-----------------------------------------------------------------------------
(* What the pipeline goes on with. A tree whose digests all match is the   *)
(* whole tree, since digests are injective; nobody else writes the remote  *)
(* tree between its verification and the answer.                           *)

IsTree(t) == t = [root |-> t.root, shards |-> t.shards, batches |-> t.batches]

TreesInv ==
    /\ IsTree(work) /\ IsTree(final) /\ IsTree(remote)
    /\ Remote /\ pc = "check" => ChainMatches(remote, RootOf(config))
    /\ ~Remote => pc \notin {"upload", "remote"}

LEMMA ChainPinsTheTree ==
    ASSUME NEW t, NEW c, IsTree(t), ChainMatches(t, RootOf(c))
    PROVE  t = Whole(c)
  BY DEF IsTree, ChainMatches, RootOf, Whole

\* A damaged file is still a file of a tree.
LEMMA AlteredIsTree ==
    ASSUME NEW t, IsTree(t), NEW u \in Alter(t)
    PROVE  IsTree(u)
  BY DEF IsTree, Alter

LEMMA NextTreesInv == TreesInv /\ [Next]_vars => TreesInv'
  <1> SUFFICES ASSUME TreesInv, [Next]_vars PROVE TreesInv'
    OBVIOUS
  <1> USE DEF TreesInv
  <1>1. IsTree(NoTree)
    BY DEF IsTree, NoTree
  <1>2. CASE \E c \in Configs : Call(c)
    BY <1>1, <1>2 DEF Call, Discard
  <1>3. CASE WriteShard
    BY <1>3 DEF WriteShard, IsTree
  <1>4. CASE WriteRoot
    BY <1>1, <1>4 DEF WriteRoot, Discard, IsTree
  <1>5. CASE VerifyWork
    BY <1>1, <1>5 DEF VerifyWork, Discard
  <1>6. CASE Rename
    BY <1>1, <1>6 DEF Rename, Written
  <1>7. CASE Reuse
    BY <1>1, <1>7 DEF Reuse, Written, Discard
  <1>8. CASE Upload
    BY <1>8, AlteredIsTree DEF Upload
  <1>9. CASE VerifyRemote
    BY <1>9 DEF VerifyRemote, UploadMatches
  <1>10. CASE VerifyPublished
    BY <1>10 DEF VerifyPublished
  <1>11. CASE Fails
    BY <1>1, <1>11 DEF Fails, Discard
  <1>12. CASE Crash
    BY <1>1, <1>12 DEF Crash
  <1>13. CASE Damage
    BY <1>13, AlteredIsTree DEF Damage
  <1>14. CASE UNCHANGED vars
    BY <1>14 DEF vars
  <1> QED BY <1>2, <1>3, <1>4, <1>5, <1>6, <1>7, <1>8, <1>9, <1>10, <1>11, <1>12, <1>13, <1>14 DEF Next

\* A build that goes on past its VERIFYING stage has a whole tree on this
\* machine and, with the Hugging Face backend, a whole tree there.
THEOREM AnswersAreAlwaysWhole == Spec => AnswersAreWhole
  <1>1. Init => TreesInv
    BY DEF Init, TreesInv, IsTree, NoTree
  <1>2. TreesInv /\ [Next]_vars =>
            [pc = "check" /\ pc' = "idle" /\ answer' = "ok"
               => final' = Whole(config) /\ (Remote => remote' = Whole(config))]_vars
    <2> SUFFICES ASSUME TreesInv, [Next]_vars, ~UNCHANGED vars,
                        pc = "check", pc' = "idle", answer' = "ok"
                 PROVE  final' = Whole(config) /\ (Remote => remote' = Whole(config))
      OBVIOUS
    <2>1. VerifyPublished
      BY DEF Next, Call, WriteShard, WriteRoot, VerifyWork, Rename, Reuse, Upload,
             VerifyRemote, Fails, Crash, Damage
    <2>2. final' = final /\ remote' = remote /\ ChainMatches(final, RootOf(config))
      BY <2>1 DEF VerifyPublished, Verified
    <2> QED BY <2>2, ChainPinsTheTree DEF TreesInv
  <1> QED BY <1>1, <1>2, NextTreesInv, PTL DEF Spec, AnswersAreWhole
-----------------------------------------------------------------------------
(* What the batches of a configuration hold. The formulas of the code      *)
(* count what they say they count, and the batches of all shards, joined,  *)
(* are all the samples.                                                    *)

\* ShardSize counts the numbers below n that leave remainder i.
LEMMA ShardSizeCounts ==
    ASSUME NEW n \in Nat, NEW s \in Nat \ {0}, NEW i \in 0 .. s - 1
    PROVE  Cardinality({v \in 0 .. n - 1 : v % s = i}) = ShardSize(n, s, i)
  <1> DEFINE q == ShardSize(n, s, i)
             V == {v \in 0 .. n - 1 : v % s = i}
             f == [k \in 1 .. q |-> i + (k - 1) * s]
  <1>1. q \in Nat /\ \A k \in Nat \ {0} : k <= q <=> i + (k - 1) * s < n
    BY ShardSizeExact
  <1> HIDE DEF q
  <1>2. ASSUME NEW k \in 1 .. q
        PROVE  /\ k - 1 \in Nat /\ (k - 1) * s \in Nat
               /\ i + (k - 1) * s \in V
    <2>1. k - 1 \in Nat /\ k \in Nat \ {0} /\ k <= q
      BY <1>1
    <2>2. (k - 1) * s \in Nat
      BY <2>1
    <2> DEFINE v == i + (k - 1) * s
    <2>3. v \in 0 .. n - 1 /\ v \in Nat /\ v = (k - 1) * s + i
      BY <1>1, <2>1, <2>2
    <2> HIDE DEF v
    <2>4. v % s = i
      BY <2>1, <2>3, RemainderUnique
    <2> QED BY <2>1, <2>2, <2>3, <2>4 DEF v
  <1>3. f \in [1 .. q -> V]
    BY <1>2
  <1>4. ASSUME NEW k \in 1 .. q, NEW l \in 1 .. q, f[k] = f[l] PROVE k = l
    <2>1. i + (k - 1) * s = i + (l - 1) * s
      BY <1>4
    <2>2. /\ k - 1 \in Int /\ l - 1 \in Int /\ (k - 1) * s \in Int /\ (l - 1) * s \in Int
      BY <1>2
    <2>3. (k - 1) * s = (l - 1) * s
      BY <2>1, <2>2
    <2>4. ~(k - 1 < l - 1)
      BY <2>2, <2>3, MultiplesApart
    <2>5. ~(l - 1 < k - 1)
      BY <2>2, <2>3, MultiplesApart
    <2>6. k \in Int /\ l \in Int
      BY <1>1
    <2> QED BY <2>4, <2>5, <2>6
  <1>5. ASSUME NEW v \in V PROVE \E k \in 1 .. q : f[k] = v
    <2> DEFINE d == v \div s
               k == d + 1
    <2>1. d \in Nat /\ v \in Nat /\ v < n /\ v - (v % s) = d * s /\ v % s = i
      <3>1. v \in Nat /\ v < n /\ v % s = i
        OBVIOUS
      <3>2. d \in Nat
        BY <3>1, Quotient
      <3>3. v - (v % s) = d * s
        BY <3>1, Remainder
      <3> QED BY <3>1, <3>2, <3>3
    <2> HIDE DEF d
    <2>2. k \in Nat \ {0} /\ k - 1 = d /\ d * s \in Int
      BY <2>1
    <2>3. i + (k - 1) * s = v
      BY <2>1, <2>2
    <2> HIDE DEF k
    <2>4. k \in 1 .. q
      BY <1>1, <2>1, <2>2, <2>3
    <2> QED BY <2>3, <2>4
  <1>6. ExistsBijection(1 .. q, V)
    <2>1. f \in Injection(1 .. q, V)
      BY <1>3, <1>4 DEF Injection, IsInjective
    <2>2. f \in Surjection(1 .. q, V)
      BY <1>3, <1>5 DEF Surjection
    <2> QED BY <2>1, <2>2 DEF ExistsBijection, Bijection
  <1>7. IsFiniteSet(1 .. q) /\ Cardinality(1 .. q) = q
    BY <1>1, FS_Interval
  <1>8. Cardinality(V) = q
    BY <1>6, <1>7, FS_Bijection
  <1> QED BY <1>8 DEF q

\* The first shards, as many as the remainder, have one sample more.
LEMMA ShardSizeIs ==
    ASSUME NEW n \in Nat, NEW s \in Nat \ {0}, NEW i \in 0 .. s - 1
    PROVE  ShardSize(n, s, i) = (n \div s) + (IF i < n % s THEN 1 ELSE 0)
  <1> DEFINE d == n \div s
             r == n % s
             q == ShardSize(n, s, i)
  <1>1. d \in Nat /\ r \in 0 .. s - 1 /\ n - r = d * s
    BY Quotient, Remainder
  <1>2. q \in Nat /\ \A k \in Nat \ {0} : k <= q <=> i + (k - 1) * s < n
    BY ShardSizeExact
  <1> HIDE DEF d, r, q
  <1>3. d * s \in Int /\ (d + 1) * s = d * s + s /\ (d - 1) * s = d * s - s
    BY <1>1
  <1>4. d <= q
    <2>1. CASE d = 0
      BY <1>2, <2>1
    <2>2. CASE d # 0
      BY <1>1, <1>2, <1>3, <2>2
    <2> QED BY <2>1, <2>2
  <1>5. d + 1 <= q <=> i < r
    <2>1. d + 1 \in Nat \ {0} /\ (d + 1) - 1 = d
      BY <1>1
    <2>2. d + 1 <= q <=> i + d * s < n
      BY <1>2, <2>1
    <2> QED BY <1>1, <1>3, <2>2
  <1>6. ~(d + 2 <= q)
    <2>1. d + 2 \in Nat \ {0} /\ (d + 2) - 1 = d + 1
      BY <1>1
    <2>2. d + 2 <= q <=> i + (d + 1) * s < n
      BY <1>2, <2>1
    <2> QED BY <1>1, <1>3, <2>2
  <1>7. q = d + (IF i < r THEN 1 ELSE 0)
    BY <1>1, <1>2, <1>4, <1>5, <1>6
  <1> QED BY <1>7 DEF d, r, q

\* A seed's order is a sequence of samples in which each one occurs.
LEMMA OrderIsPermutation ==
    ASSUME NEW c \in Configs
    PROVE  /\ c.samples \in Nat \ {0} /\ Order(c) \in Seq(0 .. c.samples - 1)
           /\ Len(Order(c)) = c.samples
           /\ \A v \in 0 .. c.samples - 1 : \E p \in 1 .. c.samples : Order(c)[p] = v
  <1> DEFINE n == c.samples
             t == c.seed % n
             d == c.seed \div n
  <1>1. n \in Nat \ {0} /\ c.seed \in Nat
    BY LayoutAssumption DEF Configs
  <1>2. Order(c) = [p \in 1 .. n |-> (p + c.seed) % n]
    BY DEF Order
  <1>3. d \in Nat /\ t \in 0 .. n - 1 /\ c.seed - t = d * n
    BY <1>1, Quotient, Remainder
  <1> HIDE DEF t, d, n
  <1>4. ASSUME NEW p \in 1 .. n PROVE (p + c.seed) % n \in 0 .. n - 1
    <2>1. p + c.seed \in Nat
      BY <1>1
    <2> QED BY <1>1, <2>1, Remainder
  <1>5. ASSUME NEW v \in 0 .. n - 1
        PROVE  \E p \in 1 .. n : (p + c.seed) % n = v
    <2>1. d * n \in Nat /\ (d + 1) * n = d * n + n /\ d + 1 \in Nat
      BY <1>1, <1>3
    <2>2. CASE t < v
      <3>1. v - t \in 1 .. n /\ (v - t) + c.seed \in Nat /\ (v - t) + c.seed = d * n + v
        BY <1>1, <1>3, <2>1, <2>2
      <3> DEFINE m == (v - t) + c.seed
      <3>2. m \in Nat /\ m = d * n + v
        BY <3>1
      <3> HIDE DEF m
      <3>3. m % n = v
        BY <1>1, <1>3, <3>2, RemainderUnique
      <3> QED BY <3>1, <3>3 DEF m
    <2>3. CASE v <= t
      <3>1. /\ v - t + n \in 1 .. n /\ (v - t + n) + c.seed \in Nat
            /\ (v - t + n) + c.seed = (d + 1) * n + v
        BY <1>1, <1>3, <2>1, <2>3
      <3>2. ((v - t + n) + c.seed) % n = v
        BY <1>1, <2>1, <3>1, RemainderUnique
      <3> QED BY <3>1, <3>2
    <2> QED BY <1>1, <1>3, <2>2, <2>3
  <1>6. Order(c) \in [1 .. n -> 0 .. n - 1]
    BY <1>2, <1>4
  <1>7. Order(c) \in Seq(0 .. n - 1) /\ Len(Order(c)) = n
    BY <1>1, <1>6
  <1>8. \A v \in 0 .. n - 1 : \E p \in 1 .. n : Order(c)[p] = v
    BY <1>2, <1>5
  <1> QED BY <1>1, <1>7, <1>8 DEF n

\* A body cut into batches, joined again, is what it was.
LEMMA SplitJoined ==
    ASSUME NEW T, NEW shard \in Seq(T), Len(shard) # 0, NEW size \in Nat \ {0}
    PROVE  FlattenSeq(Split(shard, size)) = shard
  <1> DEFINE len == Len(shard)
             b == BatchCount(len, size)
             seqs == Split(shard, size)
             at == [j \in 0 .. b |-> IF j = 0 THEN 0 ELSE BatchLast(len, size, j)]
  <1>1. len \in Nat \ {0}
    OBVIOUS
  <1>2. seqs = [j \in 1 .. b |-> SubSeq(shard, BatchFirst(size, j), BatchLast(len, size, j))]
    BY DEF Split
  <1>3. CutsIntoBatches(len, size)
    BY <1>1, CutsIntoBatchesAll
  <1>4. b \in Nat /\ len <= b * size /\ b * size <= len + size - 1
    BY <1>1, Ceiling DEF BatchCount
  <1>5. \A j : BatchFirst(size, j) = (j - 1) * size + 1
    BY DEF BatchFirst
  <1>6. \A j : BatchLast(len, size, j) = IF j * size <= len THEN j * size ELSE len
    BY DEF BatchLast
  <1>7. /\ \A p \in 1 .. len :
             \E j \in 1 .. b : BatchFirst(size, j) <= p /\ p <= BatchLast(len, size, j)
        /\ \A j \in 1 .. b :
             /\ BatchFirst(size, j) <= BatchLast(len, size, j)
             /\ j < b => BatchLast(len, size, j) = BatchFirst(size, j) + size - 1
    BY <1>3, Zenon DEF CutsIntoBatches
  <1> HIDE DEF len, b
  <1>8. b # 0
    BY <1>1, <1>4
  <1>9. ASSUME NEW j \in 1 .. b
        PROVE  /\ j \in Nat /\ j - 1 \in Nat /\ j * size \in Nat /\ (j - 1) * size \in Nat
               /\ j \in 0 .. b /\ j - 1 \in 0 .. b
               /\ BatchFirst(size, j) \in Nat \ {0} /\ BatchLast(len, size, j) \in Nat
               /\ BatchFirst(size, j) <= BatchLast(len, size, j)
               /\ BatchLast(len, size, j) <= len
    <2>1. j \in Nat /\ j - 1 \in Nat /\ j \in 0 .. b /\ j - 1 \in 0 .. b
      BY <1>4
    <2>2. j * size \in Nat /\ (j - 1) * size \in Nat
      BY <2>1
    <2>3. BatchFirst(size, j) \in Nat \ {0}
      BY <1>5, <2>2
    <2>4. BatchLast(len, size, j) \in Nat /\ BatchLast(len, size, j) <= len
      BY <1>1, <1>6, <2>2
    <2> QED BY <1>7, <2>1, <2>2, <2>3, <2>4
  <1>10. ASSUME NEW j \in 1 .. b
         PROVE  at[j - 1] = (j - 1) * size /\ at[j] = BatchLast(len, size, j)
    <2>1. at[j] = BatchLast(len, size, j)
      BY <1>9
    <2>2. CASE j = 1
      BY <1>8, <1>9, <2>2
    <2>3. CASE j # 1
      <3> DEFINE l == j - 1
      <3>1. l \in 1 .. b /\ l < b /\ l # 0 /\ l \in 0 .. b
        BY <1>4, <2>3
      <3>2. at[l] = BatchLast(len, size, l)
        BY <3>1
      <3>3. BatchLast(len, size, l) = (l - 1) * size + 1 + size - 1
        BY <1>5, <1>7, <3>1
      <3>4. (l - 1) * size + size = l * size /\ (l - 1) * size \in Int
        BY <3>1
      <3> QED BY <2>1, <3>2, <3>3, <3>4
    <2> QED BY <2>1, <2>2, <2>3
  <1>11. ASSUME NEW j \in 1 .. b
         PROVE  /\ seqs[j] \in Seq(T)
                /\ Len(seqs[j]) = BatchLast(len, size, j) - (j - 1) * size
                /\ at[j] = at[j - 1] + Len(seqs[j])
                /\ \A k \in 1 .. Len(seqs[j]) : seqs[j][k] = shard[(j - 1) * size + k]
    <2> DEFINE first == BatchFirst(size, j)
               last == BatchLast(len, size, j)
               m == (j - 1) * size
    <2>1. /\ first \in Nat \ {0} /\ last \in Nat /\ m \in Nat
          /\ first = m + 1 /\ first <= last /\ last <= Len(shard)
      BY <1>5, <1>9 DEF len
    <2>2. seqs[j] = SubSeq(shard, first, last)
      BY <1>2
    <2>3. at[j] = last /\ at[j - 1] = m
      BY <1>10
    <2> HIDE DEF first, last, m, seqs, at
    <2>4. /\ SubSeq(shard, first, last) \in Seq(T)
          /\ Len(SubSeq(shard, first, last)) = last - m
          /\ \A k \in 1 .. last - m : SubSeq(shard, first, last)[k] = shard[m + k]
      BY <2>1
    <2> QED BY <2>1, <2>2, <2>3, <2>4 DEF last, m
  <1>12. at[0] = 0 /\ at[b] = len
    <2>1. 0 \in 0 .. b /\ b \in 0 .. b /\ b \in 1 .. b
      BY <1>4, <1>8
    <2>2. BatchLast(len, size, b) = len
      BY <1>1, <1>4, <1>6
    <2> QED BY <1>8, <2>1, <2>2
  <1>13. at \in [0 .. b -> Nat]
    <2>1. ASSUME NEW j \in 0 .. b, j # 0 PROVE j \in 1 .. b
      BY <1>4, <2>1
    <2>2. ASSUME NEW j \in 0 .. b
          PROVE  (IF j = 0 THEN 0 ELSE BatchLast(len, size, j)) \in Nat
      BY <1>9, <2>1
    <2> QED BY <2>2
  <1>14. Len(seqs) = b
    BY <1>2, <1>4
  <1> HIDE DEF seqs, at
  <1>15. Consists(FlattenSeq(seqs), T, seqs, b, at)
    <2>1. Ends(seqs, b, at)
      BY <1>11, <1>12, <1>13 DEF Ends
    <2>2. b \in Nat \ {0} /\ \A j \in 1 .. b : seqs[j] \in Seq(T)
      BY <1>4, <1>8, <1>11
    <2> QED BY <1>14, <2>1, <2>2, FlattenAt
  <1> DEFINE whole == FlattenSeq(seqs)
  <1>16. /\ whole \in Seq(T) /\ Len(whole) = len
         /\ \A j \in 1 .. b : \A k \in 1 .. Len(seqs[j]) : whole[at[j - 1] + k] = seqs[j][k]
    BY <1>12, <1>15 DEF Consists
  <1> HIDE DEF whole
  <1>17. ASSUME NEW p \in 1 .. len PROVE whole[p] = shard[p]
    <2>1. PICK j \in 1 .. b : BatchFirst(size, j) <= p /\ p <= BatchLast(len, size, j)
      BY <1>7
    <2> DEFINE m == (j - 1) * size
               k == p - m
    <2>2. m \in Nat /\ at[j - 1] = m /\ Len(seqs[j]) = BatchLast(len, size, j) - m
      BY <1>9, <1>10, <1>11
    <2>3. BatchFirst(size, j) = m + 1 /\ BatchLast(len, size, j) \in Nat
      BY <1>5, <1>9
    <2>4. \A l \in 1 .. Len(seqs[j]) : seqs[j][l] = shard[m + l] /\ whole[m + l] = seqs[j][l]
      BY <1>11, <1>16, <2>2
    <2> HIDE DEF m
    <2>5. k \in 1 .. Len(seqs[j]) /\ m + k = p
      BY <1>1, <2>1, <2>2, <2>3
    <2> HIDE DEF k
    <2> QED BY <2>4, <2>5
  <1>18. whole = [p \in 1 .. len |-> whole[p]] /\ shard = [p \in 1 .. len |-> shard[p]]
    <2>1. len \in Nat /\ Len(shard) = len
      BY <1>1 DEF len
    <2> QED BY <1>16, <2>1, AsFunction
  <1>19. whole = shard
    BY <1>17, <1>18, Zenon
  <1> QED BY <1>19 DEF whole, seqs

\* A shard is a sequence of samples of its size; k is at position i + (k - 1) s + 1.
LEMMA ShardIs ==
    ASSUME NEW T, NEW order \in Seq(T), NEW s \in Nat \ {0}, NEW i \in 0 .. s - 1
    PROVE  LET q == ShardSize(Len(order), s, i) IN
           /\ q \in Nat /\ Shard(order, s, i) \in Seq(T) /\ Len(Shard(order, s, i)) = q
           /\ \A k \in 1 .. q : /\ Shard(order, s, i)[k] = order[i + (k - 1) * s + 1]
                               /\ i + (k - 1) * s + 1 \in 1 .. Len(order)
  <1> DEFINE n == Len(order)
             q == ShardSize(n, s, i)
  <1>1. n \in Nat
    OBVIOUS
  <1>2. q \in Nat /\ \A k \in Nat \ {0} : k <= q <=> i + (k - 1) * s < n
    BY <1>1, ShardSizeExact
  <1>3. Shard(order, s, i) = [k \in 1 .. q |-> order[i + (k - 1) * s + 1]]
    BY DEF Shard
  <1> HIDE DEF q
  <1>4. ASSUME NEW k \in 1 .. q
        PROVE  i + (k - 1) * s + 1 \in 1 .. n
    <2>1. k \in Nat \ {0} /\ k <= q /\ k - 1 \in Nat
      BY <1>2
    <2>2. (k - 1) * s \in Nat /\ i + (k - 1) * s < n
      BY <1>2, <2>1
    <2> QED BY <1>1, <2>2
  <1>5. ASSUME NEW k \in 1 .. q PROVE order[i + (k - 1) * s + 1] \in T
    BY <1>4
  <1>6. Shard(order, s, i) \in [1 .. q -> T]
    BY <1>3, <1>5
  <1>7. Shard(order, s, i) \in Seq(T) /\ Len(Shard(order, s, i)) = q
    BY <1>2, <1>6
  <1> QED BY <1>2, <1>3, <1>4, <1>7 DEF q

\* The content of a configuration, batch by batch, is its layout.
LEMMA ContentIs ==
    ASSUME NEW c \in Configs
    PROVE  /\ c.shards \in Nat \ {0} /\ c.size \in Nat \ {0}
           /\ DOMAIN Content(c) = 1 .. c.shards /\ Len(Content(c)) = c.shards
           /\ \A i \in 1 .. c.shards :
                LET shard == Shard(Order(c), c.shards, i - 1) IN
                /\ [j \in DOMAIN Content(c)[i] |-> Content(c)[i][j].ids] = Split(shard, c.size)
                /\ Len(Content(c)[i]) = BatchCount(Len(shard), c.size)
  <1> DEFINE layout == Layout(Order(c), c.shards, c.size)
  <1>1. c.shards \in Nat \ {0} /\ c.size \in Nat \ {0}
    BY LayoutAssumption DEF Configs
  <1>2. layout = [i \in 1 .. c.shards |-> Split(Shard(Order(c), c.shards, i - 1), c.size)]
    BY DEF Layout
  <1>3. Content(c) = [i \in 1 .. c.shards |-> [j \in DOMAIN layout[i] |-> Batch(layout[i][j])]]
    BY <1>2 DEF Content
  <1>4. ASSUME NEW i \in 1 .. c.shards
        PROVE  LET shard == Shard(Order(c), c.shards, i - 1) IN
               /\ [j \in DOMAIN Content(c)[i] |-> Content(c)[i][j].ids] = Split(shard, c.size)
               /\ Len(Content(c)[i]) = BatchCount(Len(shard), c.size)
    <2> DEFINE shard == Shard(Order(c), c.shards, i - 1)
               split == Split(shard, c.size)
               b == BatchCount(Len(shard), c.size)
    <2>1. layout[i] = split
      BY <1>2
    <2>2. split = [j \in 1 .. b |-> split[j]]
      BY DEF Split
    <2>3. b \in Nat
      <3>1. i - 1 \in 0 .. c.shards - 1
        BY <1>1
      <3>2. Order(c) \in Seq(0 .. c.samples - 1)
        BY OrderIsPermutation
      <3>3. Len(shard) \in Nat
        BY <1>1, <3>1, <3>2, ShardIs
      <3> HIDE DEF shard
      <3> QED BY <1>1, <3>3, Ceiling DEF BatchCount
    <2>4. Content(c)[i] = [j \in DOMAIN layout[i] |-> Batch(layout[i][j])]
      BY <1>3
    <2> HIDE DEF layout, split, b
    <2>5. DOMAIN split = 1 .. b
      BY <2>2
    <2>6. Content(c)[i] = [j \in 1 .. b |-> Batch(split[j])]
      BY <2>1, <2>4, <2>5
    <2>7. [j \in DOMAIN Content(c)[i] |-> Content(c)[i][j].ids] = [j \in 1 .. b |-> split[j]]
      BY <2>6 DEF Batch
    <2>8. Len(Content(c)[i]) = b
      BY <2>3, <2>6
    <2> QED BY <2>2, <2>7, <2>8 DEF split, b
  <1>5. DOMAIN Content(c) = 1 .. c.shards /\ Len(Content(c)) = c.shards
    BY <1>1, <1>3
  <1> QED BY <1>1, <1>4, <1>5

\* The batches of all shards, joined, are every sample once.
LEMMA ContentCovers ==
    ASSUME NEW c \in Configs, ~HasEmptyShard(c.samples, c.shards)
    PROVE  Covers(Content(c), c.samples)
  <1> DEFINE n == c.samples
             s == c.shards
             T == 0 .. n - 1
             d == n \div s
             r == n % s
             seqs == [i \in 1 .. s |-> Shard(Order(c), s, i - 1)]
             at == [i \in 0 .. s |-> i * d + (IF i <= r THEN i ELSE r)]
             ids == FlattenSeq(seqs)
  <1>1. /\ n \in Nat \ {0} /\ s \in Nat \ {0} /\ c.size \in Nat \ {0}
        /\ Order(c) \in Seq(T) /\ Len(Order(c)) = n
        /\ \A v \in T : \E p \in 1 .. n : Order(c)[p] = v
    BY OrderIsPermutation, ContentIs
  <1>2. ASSUME NEW i \in 1 .. s
        PROVE  /\ i - 1 \in 0 .. s - 1 /\ seqs[i] = Shard(Order(c), s, i - 1)
               /\ seqs[i] \in Seq(T) /\ Len(seqs[i]) = ShardSize(n, s, i - 1)
               /\ \A k \in 1 .. ShardSize(n, s, i - 1) :
                    seqs[i][k] = Order(c)[(i - 1) + (k - 1) * s + 1]
               /\ ShardSize(n, s, i - 1) \in Nat \ {0}
    <2>1. i - 1 \in 0 .. s - 1 /\ seqs[i] = Shard(Order(c), s, i - 1)
      BY <1>1
    <2>2. ShardSize(n, s, i - 1) # 0
      BY <2>1 DEF HasEmptyShard
    <2> HIDE DEF n, s, T, seqs
    <2>3. /\ ShardSize(n, s, i - 1) \in Nat
          /\ Shard(Order(c), s, i - 1) \in Seq(T)
          /\ Len(Shard(Order(c), s, i - 1)) = ShardSize(n, s, i - 1)
          /\ \A k \in 1 .. ShardSize(n, s, i - 1) :
               Shard(Order(c), s, i - 1)[k] = Order(c)[(i - 1) + (k - 1) * s + 1]
      <3> DEFINE order == Order(c)
                 shard == Shard(order, s, i - 1)
                 q == ShardSize(Len(order), s, i - 1)
      <3>1. order \in Seq(T) /\ s \in Nat \ {0} /\ i - 1 \in 0 .. s - 1
        BY <1>1, <2>1
      <3>2. q = ShardSize(n, s, i - 1)
        BY <1>1
      <3> HIDE DEF order
      <3>3. /\ q \in Nat /\ shard \in Seq(T) /\ Len(shard) = q
            /\ \A k \in 1 .. q : shard[k] = order[(i - 1) + (k - 1) * s + 1]
        BY <3>1, ShardIs
      <3> QED BY <3>2, <3>3 DEF order
    <2> QED BY <2>1, <2>2, <2>3
  <1>3. [i \in DOMAIN Content(c) |->
            FlattenSeq([j \in DOMAIN Content(c)[i] |-> Content(c)[i][j].ids])] = seqs
    <2>1. DOMAIN Content(c) = 1 .. s
      BY ContentIs
    <2>2. ASSUME NEW i \in 1 .. s
          PROVE  FlattenSeq([j \in DOMAIN Content(c)[i] |-> Content(c)[i][j].ids]) = seqs[i]
      <3> DEFINE shard == Shard(Order(c), s, i - 1)
      <3>1. [j \in DOMAIN Content(c)[i] |-> Content(c)[i][j].ids] = Split(shard, c.size)
        BY ContentIs
      <3>2. seqs[i] = shard /\ shard \in Seq(T) /\ Len(shard) # 0
        BY <1>2
      <3> HIDE DEF shard, T, seqs, n, s
      <3>3. FlattenSeq(Split(shard, c.size)) = shard
        BY <1>1, <3>2, SplitJoined
      <3> QED BY <3>1, <3>2, <3>3
    <2> QED BY <2>1, <2>2, Zenon
  <1>4. d \in Nat /\ r \in 0 .. s - 1 /\ n - r = d * s
    BY <1>1, Quotient, Remainder
  <1>5. ASSUME NEW i \in 1 .. s
        PROVE  Len(seqs[i]) = d + (IF i - 1 < r THEN 1 ELSE 0)
    BY <1>1, <1>2, ShardSizeIs
  <1> HIDE DEF d, r, n, s, T
  <1>6. at \in [0 .. s -> Nat]
    <2>1. ASSUME NEW i \in 0 .. s PROVE i * d + (IF i <= r THEN i ELSE r) \in Nat
      <3>1. i * d \in Nat
        BY <1>1, <1>4
      <3> QED BY <1>1, <1>4, <3>1
    <2> QED BY <2>1
  <1>7. at[0] = 0 /\ at[s] = n
    <2>1. 0 \in 0 .. s /\ s \in 0 .. s /\ 0 * d = 0 /\ s * d = d * s
      BY <1>1, <1>4
    <2> QED BY <1>1, <1>4, <2>1
  <1>8. ASSUME NEW i \in 1 .. s PROVE at[i] = at[i - 1] + Len(seqs[i])
    <2>1. /\ i * d = (i - 1) * d + d /\ (i - 1) * d \in Int
          /\ i \in 0 .. s /\ i - 1 \in 0 .. s
      BY <1>1, <1>4
    <2>2. /\ at[i] = i * d + (IF i <= r THEN i ELSE r)
          /\ at[i - 1] = (i - 1) * d + (IF i - 1 <= r THEN i - 1 ELSE r)
      BY <2>1
    <2> HIDE DEF at, seqs
    <2>3. Len(seqs[i]) = d + (IF i - 1 < r THEN 1 ELSE 0)
      BY <1>5
    <2>4. r \in Int /\ i \in Int
      BY <1>1, <1>4
    <2> QED BY <1>4, <2>1, <2>2, <2>3, <2>4
  <1>9. Consists(ids, T, seqs, s, at)
    <2>1. Ends(seqs, s, at)
      BY <1>6, <1>7, <1>8 DEF Ends
    <2>2. Len(seqs) = s /\ \A i \in 1 .. s : seqs[i] \in Seq(T)
      BY <1>1, <1>2
    <2> HIDE DEF seqs, at
    <2> QED BY <1>1, <2>1, <2>2, FlattenAt
  <1> HIDE DEF at, ids
  <1>10. /\ ids \in Seq(T) /\ Len(ids) = n
         /\ \A i \in 1 .. s : \A k \in 1 .. Len(seqs[i]) :
              at[i - 1] + k \in 1 .. n /\ ids[at[i - 1] + k] = seqs[i][k]
    <2> HIDE DEF seqs
    <2> QED BY <1>7, <1>9 DEF Consists
  <1>11. ASSUME NEW v \in T PROVE \E p \in 1 .. n : ids[p] = v
    <2>1. PICK p \in 1 .. n : Order(c)[p] = v
      BY <1>1, Zenon
    <2>2. PICK i \in 0 .. s - 1 : \E k \in 1 .. ShardSize(n, s, i) : i + (k - 1) * s + 1 = p
      <3>1. DealsRoundRobin(n, s)
        BY <1>1, DealsRoundRobinAll
      <3> QED BY <3>1 DEF DealsRoundRobin
    <2>6. PICK k \in 1 .. ShardSize(n, s, i) : i + (k - 1) * s + 1 = p
      BY <2>2
    <2> DEFINE l == i + 1
    <2>3. l \in 1 .. s /\ l - 1 = i
      BY <1>1
    <2> HIDE DEF l, seqs
    <2>4. k \in 1 .. Len(seqs[l]) /\ seqs[l][k] = Order(c)[i + (k - 1) * s + 1]
      BY <1>2, <2>3
    <2>5. at[l - 1] + k \in 1 .. n /\ ids[at[l - 1] + k] = seqs[l][k]
      BY <1>10, <2>3, <2>4
    <2> QED BY <2>1, <2>4, <2>5, <2>6
  <1>12. ToSet(ids) = T
    <2>1. DOMAIN ids = 1 .. n /\ \A p \in 1 .. n : ids[p] \in T
      BY <1>1, <1>10
    <2> QED BY <1>11, <2>1 DEF ToSet
  <1> QED BY <1>3, <1>10, <1>12 DEF Covers, ids, n, T
-----------------------------------------------------------------------------
(* Refusals. Without damage, what a call writes is a prefix of its content *)
(* until it is all of it, and what is published is whole and has batch     *)
(* counts that agree, so that no verification fails.                       *)

\* The counts of the property are the lengths of the layout.
LEMMA CountsAre ==
    ASSUME config \in Configs, NEW i \in 0 .. config.shards - 1
    PROVE  /\ Samples(i) = ShardSize(config.samples, config.shards, i)
           /\ Batches(i) = Len(Content(config)[i + 1])
  <1> DEFINE n == config.samples
             s == config.shards
             shard == Shard(Order(config), s, i)
             len == ShardSize(n, s, i)
  <1>1. /\ n \in Nat /\ s \in Nat \ {0} /\ config.size \in Nat \ {0}
        /\ Order(config) \in Seq(0 .. n - 1) /\ Len(Order(config)) = n
    BY OrderIsPermutation, ContentIs
  <1>2. Samples(i) = len
    BY <1>1, ShardSizeCounts DEF Samples
  <1>3. len \in Nat
    BY <1>1, ShardSizeExact
  <1>4. Len(shard) = len
    <2> DEFINE order == Order(config)
    <2>1. order \in Seq(0 .. n - 1) /\ len = ShardSize(Len(order), s, i)
      BY <1>1
    <2> HIDE DEF order, len
    <2>2. Len(Shard(order, s, i)) = ShardSize(Len(order), s, i)
      BY <1>1, <2>1, ShardIs
    <2> QED BY <2>1, <2>2 DEF order
  <1>5. Len(Content(config)[i + 1]) = BatchCount(len, config.size)
    <2> DEFINE k == i + 1
    <2>1. k \in 1 .. s /\ k - 1 = i
      BY <1>1
    <2> HIDE DEF k
    <2>2. Len(Content(config)[k]) = BatchCount(Len(Shard(Order(config), s, k - 1)), config.size)
      BY <2>1, ContentIs
    <2> QED BY <1>4, <2>1, <2>2 DEF k
  <1>6. Batches(i) = BatchCount(len, config.size)
    <2> HIDE DEF len
    <2>1. 0 \in 0 .. config.size - 1
      BY <1>1
    <2>2. Cardinality({v \in 0 .. len - 1 : v % config.size = 0}) = ShardSize(len, config.size, 0)
      BY <1>1, <1>3, <2>1, ShardSizeCounts
    <2>3. len - 0 + config.size - 1 = len + config.size - 1
      BY <1>1, <1>3
    <2> QED BY <1>2, <2>2, <2>3 DEF Batches, ShardSize, BatchCount
  <1> QED BY <1>2, <1>5, <1>6

\* What is refused without a file has the cause the property asks for.
LEMMA UnequalIsUneven ==
    ASSUME config \in Configs, ~EqualCounts(Content(config))
    PROVE  Uneven
  <1>1. DOMAIN Content(config) = 1 .. config.shards /\ config.shards \in Nat
    BY ContentIs
  <1>2. PICK i \in 1 .. config.shards, j \in 1 .. config.shards :
           Len(Content(config)[i]) # Len(Content(config)[j])
    BY <1>1 DEF EqualCounts
  <1> DEFINE k == i - 1
             l == j - 1
  <1>3. /\ k \in 0 .. config.shards - 1 /\ l \in 0 .. config.shards - 1
        /\ k + 1 = i /\ l + 1 = j
    BY <1>1
  <1> HIDE DEF k, l
  <1>4. Batches(k) # Batches(l)
    BY <1>2, <1>3, CountsAre
  <1> QED BY <1>3, <1>4 DEF Uneven

LEMMA RefusedLayoutHasCause ==
    ASSUME config \in Configs, LayoutRefused(config)
    PROVE  (config.profile = V1 /\ Uneven) \/ \E i \in 0 .. config.shards - 1 : Samples(i) = 0
  <1>1. CASE HasEmptyShard(config.samples, config.shards)
    BY <1>1, CountsAre DEF HasEmptyShard
  <1>2. CASE ~ProfileAccepts(config.profile, Content(config))
    BY <1>2, UnequalIsUneven DEF ProfileAccepts
  <1> QED BY <1>1, <1>2 DEF LayoutRefused

\* A tree that is the whole content of a configuration with equal batch counts.
Sound(t, c) == t = Whole(c) /\ EqualCounts(Content(c))

LEMMA SoundVerifies ==
    ASSUME NEW c \in Configs, ~HasEmptyShard(c.samples, c.shards), NEW t, Sound(t, c)
    PROVE  Verified(t, RootOf(c)) /\ ChainMatches(t, RootOf(c))
  <1>1. Covers(Content(c), c.samples)
    BY ContentCovers
  <1>2. /\ t.root = RootOf(c) /\ t.shards = Content(c) /\ t.batches = Content(c)
        /\ RootOf(c)[1] = c /\ RootOf(c)[2] = Content(c)
    BY DEF Sound, Whole, RootOf
  <1> QED BY <1>1, <1>2 DEF Sound, Verified, ChainMatches

LEMMA VerifiedIsSound ==
    ASSUME NEW c, NEW t, IsTree(t), Verified(t, RootOf(c))
    PROVE  Sound(t, c)
  <1>1. t = Whole(c)
    BY ChainPinsTheTree DEF Verified
  <1> QED BY <1>1 DEF Verified, Sound, Whole

\* The first k shards of a configuration, written but for the root.
Prefix(c, k) == [i \in 1 .. k |-> Content(c)[i]]
Partial(c, k) == [root |-> <<>>, shards |-> Prefix(c, k), batches |-> Prefix(c, k)]

LEMMA PrefixGrows ==
    ASSUME NEW c \in Configs, NEW k \in 0 .. c.shards
    PROVE  /\ Len(Prefix(c, k)) = k
           /\ Append(Prefix(c, k), Content(c)[k + 1]) = Prefix(c, k + 1)
           /\ k = c.shards => Prefix(c, k) = Content(c)
           /\ Prefix(c, 0) = <<>>
  <1>1. k \in Nat
    BY ContentIs
  <1> DEFINE T == {Content(c)[i] : i \in 1 .. k + 1}
  <1>2. Prefix(c, k) \in [1 .. k -> T] /\ Content(c)[k + 1] \in T
    BY <1>1 DEF Prefix
  <1> HIDE DEF T
  <1>3. Prefix(c, k) \in Seq(T) /\ Len(Prefix(c, k)) = k
    BY <1>1, <1>2
  <1>4. Append(Prefix(c, k), Content(c)[k + 1]) = Prefix(c, k + 1)
    BY <1>1, <1>2, <1>3 DEF Prefix
  <1>5. k = c.shards => Prefix(c, k) = Content(c)
    <2>1. Content(c) = [i \in 1 .. c.shards |-> Content(c)[i]]
      <3>1. Content(c) = [i \in DOMAIN Content(c) |-> Content(c)[i]]
        BY DEF Content
      <3> QED BY <3>1, ContentIs
    <2> QED BY <2>1 DEF Prefix
  <1> QED BY <1>3, <1>4, <1>5 DEF Prefix

CallInv ==
    /\ config \in Configs /\ faults \in Nat /\ (damaged => faults > 0)
    /\ pc \notin {"write", "verify", "publish"} => work = NoTree
    /\ pc # "idle" => answer = "none" /\ ~LayoutRefused(config)
                       /\ ~HasEmptyShard(config.samples, config.shards)

AnswerInv ==
    /\ answer = "layout" => LayoutRefused(config)
    /\ answer = "root" => ~EqualCounts(Content(config)) /\ ~LayoutRefused(config)
    /\ answer = "verify" => damaged
    /\ answer = "remote" => faults > 0
    /\ answer = "conflict" => damaged \/ final.root # RootOf(config)

WriteInv ==
    /\ pc = "write" /\ ~damaged => \E k \in 0 .. config.shards : work = Partial(config, k)
    /\ pc \in {"verify", "publish"} /\ ~damaged => Sound(work, config)
    /\ pc \in {"upload", "remote", "check"} /\ ~damaged => Sound(final, config)
    /\ ~damaged => final = NoTree \/ \E c \in Configs : Sound(final, c)
    /\ pc = "remote" /\ faults = 0 => remote = final

CauseInv == CallInv /\ AnswerInv /\ WriteInv

LEMMA InitCauseInv == Init => CauseInv
  BY DEF Init, CauseInv, CallInv, AnswerInv, WriteInv

LEMMA NextCallInv == CauseInv /\ [Next]_vars => CallInv'
  <1> SUFFICES ASSUME CauseInv, [Next]_vars PROVE CallInv'
    OBVIOUS
  <1> USE DEF CauseInv, CallInv
  <1>1. CASE \E c \in Configs : Call(c)
    BY <1>1 DEF Call, LayoutRefused, Discard
  <1>2. CASE WriteShard
    BY <1>2 DEF WriteShard
  <1>3. CASE WriteRoot
    BY <1>3 DEF WriteRoot, Discard
  <1>4. CASE VerifyWork
    BY <1>4 DEF VerifyWork, Discard
  <1>5. CASE Rename
    BY <1>5 DEF Rename, Written
  <1>6. CASE Reuse
    BY <1>6 DEF Reuse, Written, Discard
  <1>7. CASE Upload
    BY <1>7 DEF Upload
  <1>8. CASE VerifyRemote
    BY <1>8 DEF VerifyRemote
  <1>9. CASE VerifyPublished
    BY <1>9 DEF VerifyPublished
  <1>10. CASE Fails
    BY <1>10 DEF Fails, Discard
  <1>11. CASE Crash
    BY <1>11 DEF Crash
  <1>12. CASE Damage
    <2>1. work' = work \/ pc \in {"write", "verify", "publish"}
      BY <1>12 DEF Damage, NoTree
    <2> QED BY <1>12, <2>1 DEF Damage
  <1>13. CASE UNCHANGED vars
    BY <1>13 DEF vars
  <1> QED BY <1>1, <1>2, <1>3, <1>4, <1>5, <1>6, <1>7, <1>8, <1>9, <1>10, <1>11, <1>12, <1>13 DEF Next

\* The first call starts with an empty tree; a shard makes the prefix longer.
LEMMA NextWriteInv == CauseInv /\ TreesInv /\ [Next]_vars => WriteInv'
  <1> SUFFICES ASSUME CauseInv, TreesInv, [Next]_vars PROVE WriteInv'
    OBVIOUS
  <1>0. CallInv /\ WriteInv /\ IsTree(work) /\ IsTree(final)
    BY DEF CauseInv, TreesInv
  <1>1. CASE \E c \in Configs : Call(c)
    <2>1. PICK c \in Configs : Call(c)
      BY <1>1
    <2>2. /\ UNCHANGED <<work, final, remote, faults, damaged>> /\ config' = c
          /\ pc = "idle" /\ pc' \in {"idle", "write"}
      BY <1>0, <2>1 DEF Call, Discard, CallInv
    <2>3. work = Partial(c, 0) /\ 0 \in 0 .. c.shards
      BY <1>0, <2>2, ContentIs, PrefixGrows DEF CallInv, NoTree, Partial
    <2> QED BY <1>0, <2>2, <2>3 DEF WriteInv
  <1>2. CASE WriteShard
    <2>1. /\ UNCHANGED <<config, final, remote, faults, damaged, pc>> /\ pc = "write"
          /\ Len(work.shards) < config.shards
          /\ LET shard == Content(config)[Len(work.shards) + 1] IN
             work' = [work EXCEPT !.batches = Append(@, shard), !.shards = Append(@, shard)]
      BY <1>2 DEF WriteShard
    <2>2. ASSUME ~damaged PROVE \E k \in 0 .. config.shards : work' = Partial(config, k)
      <3>1. PICK k \in 0 .. config.shards : work = Partial(config, k)
        BY <1>0, <2>1, <2>2 DEF WriteInv
      <3>2. /\ work.shards = Prefix(config, k) /\ work.batches = Prefix(config, k)
            /\ work.root = <<>>
        BY <3>1 DEF Partial
      <3>3. /\ Len(work.shards) = k
            /\ Append(Prefix(config, k), Content(config)[k + 1]) = Prefix(config, k + 1)
        BY <1>0, <3>2, PrefixGrows DEF CallInv
      <3>4. k + 1 \in 0 .. config.shards
        BY <1>0, <2>1, <3>3, ContentIs DEF CallInv
      <3>5. work' = Partial(config, k + 1)
        BY <2>1, <3>1, <3>2, <3>3 DEF Partial
      <3> QED BY <3>4, <3>5
    <2> QED BY <1>0, <2>1, <2>2 DEF WriteInv
  <1>3. CASE WriteRoot
    <2>1. /\ UNCHANGED <<config, final, remote, faults, damaged>> /\ pc = "write"
          /\ pc' \in {"verify", "idle"} /\ Len(work.shards) = config.shards
          /\ pc' = "verify" => /\ EqualCounts(Content(config))
                              /\ work' = [work EXCEPT !.root = RootOf(config)]
      BY <1>3 DEF WriteRoot
    <2>2. ASSUME ~damaged, pc' = "verify" PROVE Sound(work', config)
      <3>1. PICK k \in 0 .. config.shards : work = Partial(config, k)
        BY <1>0, <2>1, <2>2 DEF WriteInv
      <3>2. k = config.shards
        <4>1. work.shards = Prefix(config, k)
          BY <3>1 DEF Partial
        <4> QED BY <1>0, <2>1, <4>1, PrefixGrows DEF CallInv
      <3>3. Prefix(config, k) = Content(config)
        BY <1>0, <3>2, PrefixGrows DEF CallInv
      <3> QED BY <2>1, <2>2, <3>1, <3>3 DEF Partial, Sound, Whole
    <2> QED BY <1>0, <2>1, <2>2 DEF WriteInv
  <1>4. CASE VerifyWork
    <2>1. /\ UNCHANGED <<config, final, remote, faults, damaged>> /\ pc = "verify"
          /\ pc' \in {"publish", "idle"} /\ (pc' = "publish" => work' = work)
      BY <1>4 DEF VerifyWork
    <2> QED BY <1>0, <2>1 DEF WriteInv
  <1>5. CASE Rename
    <2>1. /\ UNCHANGED <<config, remote, faults, damaged>> /\ pc = "publish"
          /\ pc' \in {"upload", "check"} /\ final' = work
      BY <1>5 DEF Rename, Written
    <2>2. ~damaged => Sound(final', config)
      BY <1>0, <2>1 DEF WriteInv
    <2> QED BY <1>0, <2>1, <2>2 DEF WriteInv, CallInv
  <1>6. CASE Reuse
    <2>1. /\ UNCHANGED <<config, final, remote, faults, damaged>> /\ pc = "publish"
          /\ pc' \in {"upload", "check", "idle"}
          /\ pc' \in {"upload", "check"} => Verified(final, RootOf(config))
      BY <1>6 DEF Reuse, Written
    <2>2. pc' \in {"upload", "check"} => Sound(final, config)
      BY <1>0, <2>1, VerifiedIsSound
    <2> QED BY <1>0, <2>1, <2>2 DEF WriteInv
  <1>7. CASE Upload
    <2>1. /\ UNCHANGED <<config, work, final, damaged>> /\ pc = "upload" /\ pc' = "remote"
          /\ (remote' = final /\ faults' = faults) \/ faults' = faults + 1
      BY <1>7 DEF Upload
    <2>2. faults' = 0 => remote' = final
      BY <1>0, <2>1 DEF CallInv
    <2> QED BY <1>0, <2>1, <2>2 DEF WriteInv
  <1>8. CASE VerifyRemote
    <2>1. /\ UNCHANGED <<config, work, final, remote, faults, damaged>> /\ pc = "remote"
          /\ pc' \in {"check", "idle"}
      BY <1>8 DEF VerifyRemote
    <2> QED BY <1>0, <2>1 DEF WriteInv
  <1>9. CASE VerifyPublished
    <2>1. UNCHANGED <<config, work, final, remote, faults, damaged>> /\ pc' = "idle"
      BY <1>9 DEF VerifyPublished
    <2> QED BY <1>0, <2>1 DEF WriteInv
  <1>10. CASE Fails \/ Crash
    <2>1. UNCHANGED <<config, final, remote, damaged>> /\ pc' = "idle"
      BY <1>10 DEF Fails, Crash
    <2> QED BY <1>0, <2>1 DEF WriteInv
  <1>11. CASE Damage
    <2>1. damaged' /\ faults' = faults + 1
      BY <1>11 DEF Damage
    <2> QED BY <1>0, <2>1 DEF WriteInv, CallInv
  <1>12. CASE UNCHANGED vars
    BY <1>0, <1>12 DEF vars, WriteInv
  <1> QED BY <1>1, <1>2, <1>3, <1>4, <1>5, <1>6, <1>7, <1>8, <1>9, <1>10, <1>11, <1>12 DEF Next

\* Each refusal is made where its cause is at hand.
LEMMA NextAnswerInv == CauseInv /\ TreesInv /\ [Next]_vars => AnswerInv'
  <1> SUFFICES ASSUME CauseInv, TreesInv, [Next]_vars PROVE AnswerInv'
    OBVIOUS
  <1>0. CallInv /\ WriteInv /\ AnswerInv
    BY DEF CauseInv
  <1>1. CASE \E c \in Configs : Call(c)
    BY <1>1 DEF Call, AnswerInv
  <1>2. CASE WriteShard
    BY <1>0, <1>2 DEF WriteShard, CallInv, AnswerInv
  <1>3. CASE WriteRoot
    BY <1>0, <1>3 DEF WriteRoot, CallInv, AnswerInv
  <1>4. CASE VerifyWork
    <2>1. /\ UNCHANGED <<config, final, faults, damaged>> /\ answer' \in {answer, "verify"}
          /\ pc = "verify" /\ (answer' = "verify" => ~Verified(work, RootOf(config)))
      BY <1>0, <1>4 DEF VerifyWork, CallInv
    <2>2. answer' = "verify" => damaged
      BY <1>0, <2>1, SoundVerifies DEF CallInv, WriteInv
    <2> QED BY <1>0, <2>1, <2>2 DEF CallInv, AnswerInv
  <1>5. CASE Rename
    BY <1>0, <1>5 DEF Rename, CallInv, AnswerInv
  <1>6. CASE Reuse
    <2>1. /\ UNCHANGED <<config, final, faults, damaged>> /\ answer' \in {"none", "conflict"}
          /\ final # NoTree /\ pc # "idle"
          /\ answer' = "conflict" => ~Verified(final, RootOf(config))
      BY <1>0, <1>6 DEF Reuse, Exists, CallInv
    <2>2. ASSUME ~damaged, final.root = RootOf(config) PROVE Verified(final, RootOf(config))
      <3>1. PICK c \in Configs : Sound(final, c)
        BY <1>0, <2>1, <2>2 DEF WriteInv
      <3>2. c = config
        BY <2>2, <3>1 DEF Sound, Whole, RootOf
      <3> QED BY <1>0, <2>1, <3>1, <3>2, SoundVerifies DEF CallInv
    <2> QED BY <1>0, <2>1, <2>2 DEF AnswerInv
  <1>7. CASE Upload
    BY <1>0, <1>7 DEF Upload, CallInv, AnswerInv
  <1>8. CASE VerifyRemote
    <2>1. /\ UNCHANGED <<config, final, faults, damaged>> /\ answer' \in {"none", "remote"}
          /\ pc = "remote"
          /\ answer' = "remote" => ~ChainMatches(remote, RootOf(config))
      BY <1>0, <1>8 DEF VerifyRemote, UploadMatches, CallInv
    <2>2. ASSUME faults = 0 PROVE ChainMatches(remote, RootOf(config))
      <3>1. remote = final /\ Sound(final, config)
        BY <1>0, <2>1, <2>2 DEF WriteInv, CallInv
      <3> QED BY <1>0, <2>1, <3>1, SoundVerifies DEF CallInv
    <2> QED BY <1>0, <2>1, <2>2 DEF AnswerInv, CallInv
  <1>9. CASE VerifyPublished
    <2>1. /\ UNCHANGED <<config, final, faults, damaged>> /\ answer' \in {"ok", "verify"}
          /\ pc = "check" /\ (answer' = "verify" => ~Verified(final, RootOf(config)))
      BY <1>9 DEF VerifyPublished
    <2>2. answer' = "verify" => damaged
      BY <1>0, <2>1, SoundVerifies DEF CallInv, WriteInv
    <2> QED BY <2>1, <2>2 DEF AnswerInv
  <1>10. CASE Fails \/ Crash
    BY <1>10 DEF Fails, Crash, AnswerInv
  <1>11. CASE Damage
    BY <1>0, <1>11 DEF Damage, AnswerInv, CallInv
  <1>12. CASE UNCHANGED vars
    BY <1>0, <1>12 DEF vars, AnswerInv
  <1> QED BY <1>1, <1>2, <1>3, <1>4, <1>5, <1>6, <1>7, <1>8, <1>9, <1>10, <1>11, <1>12 DEF Next

LEMMA CauseInvariance == Spec => []CauseInv
  <1>1. Init => TreesInv /\ CauseInv
    BY InitCauseInv DEF Init, TreesInv, IsTree, NoTree
  <1>2. TreesInv /\ CauseInv /\ [Next]_vars => TreesInv' /\ CauseInv'
    BY NextTreesInv, NextCallInv, NextAnswerInv, NextWriteInv DEF CauseInv
  <1> QED BY <1>1, <1>2, PTL DEF Spec

\* The first checks refuse no configuration without an empty shard or, under the V1
\* profile, shards whose numbers of batches differ; the root manifest refuses only
\* such shards of another profile; and no tree is refused without a damaged file, a
\* failed transfer or another configuration's tree in its place.
THEOREM RefusalAlwaysHasCause == Spec => []RefusalHasCause
  <1>1. CauseInv => RefusalHasCause
    <2> SUFFICES ASSUME CauseInv PROVE RefusalHasCause
      OBVIOUS
    <2>1. config \in Configs /\ AnswerInv
      BY DEF CauseInv, CallInv
    <2>2. answer = "layout" => \/ \E i \in 0 .. config.shards - 1 : Samples(i) = 0
                               \/ config.profile = V1 /\ Uneven
      <3>1. answer = "layout" => LayoutRefused(config)
        BY <2>1 DEF AnswerInv
      <3> QED BY <2>1, <3>1, RefusedLayoutHasCause
    <2>3. answer = "root" => config.profile # V1 /\ Uneven
      <3>1. answer = "root" => ~EqualCounts(Content(config)) /\ ~LayoutRefused(config)
        BY <2>1 DEF AnswerInv
      <3>2. ~EqualCounts(Content(config)) /\ config.profile = V1 => LayoutRefused(config)
        BY DEF LayoutRefused, ProfileAccepts
      <3> QED BY <2>1, <3>1, <3>2, UnequalIsUneven
    <2> QED BY <2>1, <2>2, <2>3 DEF AnswerInv, RefusalHasCause
  <1> QED BY <1>1, CauseInvariance, PTL
=============================================================================
