------------------------- MODULE SampleReadsProofs -------------------------
(***************************************************************************)
(* Reading a selection: for every number and size of files and every       *)
(* selection, what is returned beside an index is the record that has this *)
(* index when the files are read one after the other.                      *)
(***************************************************************************)
EXTENDS SampleReads, DataLemmas, FiniteSetTheorems, TLAPS

\* A function on 1 .. n is a sequence of length n.
LEMMA Elements ==
    ASSUME NEW T, NEW n \in Nat
    PROVE  /\ \A f \in [1 .. n -> T] : f \in Seq(T) /\ Len(f) = n
           /\ \A f \in Seq(T) : \A i \in 1 .. Len(f) : f[i] \in T
  OBVIOUS

\* f[i] is the sum of the first i terms.
Sums(terms, n, f) == f = [i \in 0 .. n |-> IF i = 0 THEN 0 ELSE f[i - 1] + terms[i]]

LEMMA SumsExist ==
    ASSUME NEW terms, NEW n \in Nat
    PROVE  \E f : Sums(terms, n, f)
  <1> DEFINE S == {m \in Nat : \E f : Sums(terms, m, f)}
  <1>1. 0 \in S
    <2>1. Sums(terms, 0, [i \in 0 .. 0 |-> 0])
      BY DEF Sums
    <2> QED BY <2>1
  <1>2. ASSUME NEW m \in Nat, m \in S PROVE m + 1 \in S
    <2>1. PICK f : Sums(terms, m, f)
      BY <1>2
    <2> DEFINE k == m + 1
               x == f[m] + terms[k]
               g == [i \in 0 .. k |-> IF i = k THEN x ELSE f[i]]
    <2>2. \A i \in 0 .. m : f[i] = IF i = 0 THEN 0 ELSE f[i - 1] + terms[i]
      BY <2>1 DEF Sums
    <2>3. ASSUME NEW i \in 0 .. k
          PROVE  g[i] = IF i = 0 THEN 0 ELSE g[i - 1] + terms[i]
      <3>1. CASE i = k
        <4>1. i # 0 /\ i - 1 \in 0 .. k /\ i - 1 # k /\ i - 1 = m
          BY <3>1
        <4>2. g[i] = x
          BY <3>1
        <4>3. g[i - 1] = f[m]
          BY <4>1
        <4> QED BY <3>1, <4>1, <4>2, <4>3
      <3>2. CASE i # k
        <4>1. i \in 0 .. m
          BY <3>2
        <4>2. i # 0 => i - 1 \in 0 .. k /\ i - 1 # k
          BY <4>1
        <4>3. g[i] = f[i] /\ (i # 0 => g[i - 1] = f[i - 1])
          BY <3>2, <4>2
        <4> QED BY <2>2, <4>1, <4>3
      <3> QED BY <3>1, <3>2
    <2>4. Sums(terms, k, g)
      BY <2>3 DEF Sums
    <2> QED BY <2>4
  <1> HIDE DEF S
  <1>3. n \in S
    BY <1>1, <1>2, NatSetInduction
  <1> QED BY <1>3 DEF S

\* The offsets are the sums of the counts.
LEMMA OffsetsAreSums ==
    ASSUME counts \in Seq(Nat)
    PROVE  Sums(counts, Len(counts), Offsets)
  <1> DEFINE n == Len(counts)
             g == CHOOSE f : Sums(counts, n, f)
  <1>1. n \in Nat
    OBVIOUS
  <1>2. Sums(counts, n, g)
    BY <1>1, SumsExist, Zenon
  <1>3. Offsets = g
    BY DEF Offsets, Sums
  <1> QED BY <1>2, <1>3

\* They begin with 0 and each is a count more than the one before.
LEMMA OffsetsAre ==
    ASSUME counts \in Seq(Nat)
    PROVE  /\ Offsets[0] = 0
           /\ \A i \in 0 .. Len(counts) : Offsets[i] \in Nat
           /\ \A i \in 1 .. Len(counts) : Offsets[i] = Offsets[i - 1] + counts[i]
  <1> DEFINE n == Len(counts)
             S == {m \in Nat : m \in 0 .. n => Offsets[m] \in Nat}
  <1>1. n \in Nat
    OBVIOUS
  <1>2. \A i \in 0 .. n : Offsets[i] = IF i = 0 THEN 0 ELSE Offsets[i - 1] + counts[i]
    BY OffsetsAreSums DEF Sums
  <1>3. \A i \in 1 .. n : counts[i] \in Nat
    OBVIOUS
  <1> HIDE DEF n
  <1>4. Offsets[0] = 0
    BY <1>1, <1>2
  <1>5. \A i \in 1 .. n : Offsets[i] = Offsets[i - 1] + counts[i]
    BY <1>1, <1>2
  <1>6. 0 \in S
    BY <1>4
  <1>7. ASSUME NEW m \in Nat, m \in S PROVE m + 1 \in S
    <2> SUFFICES ASSUME m + 1 \in 0 .. n PROVE Offsets[m + 1] \in Nat
      OBVIOUS
    <2>1. m \in 0 .. n /\ m + 1 \in 1 .. n /\ (m + 1) - 1 = m
      BY <1>1
    <2>2. Offsets[m] \in Nat /\ counts[m + 1] \in Nat
      BY <1>3, <1>7, <2>1
    <2>3. Offsets[m + 1] = Offsets[(m + 1) - 1] + counts[m + 1]
      BY <1>5, <2>1
    <2> QED BY <2>1, <2>2, <2>3
  <1>8. \A m \in Nat : m \in S
    <2> HIDE DEF S
    <2> QED BY <1>6, <1>7, NatSetInduction
  <1>9. \A i \in 0 .. n : Offsets[i] \in Nat
    BY <1>1, <1>8
  <1> QED BY <1>4, <1>5, <1>9 DEF n

-----------------------------------------------------------------------------
(* Counting the records before one.                                        *)

SourceInv ==
    /\ bytes \in Seq(0 .. MaxBytes)
    /\ counts \in Seq(Nat) /\ Len(counts) <= Len(bytes)
    /\ \A f \in 1 .. Len(counts) : counts[f] = bytes[f] \div RecordBytes
    /\ pc \in {"opening", "corrupt"} => samples = <<>> /\ output = <<>>
    /\ pc \notin {"opening", "corrupt"} => Len(counts) = Len(bytes)

\* The records of one file come after those of the files before it.
LEMMA BeforeInFile ==
    ASSUME bytes \in Seq(0 .. MaxBytes), NEW f \in Files,
           NEW m \in 0 .. bytes[f] \div RecordBytes,
           IsFiniteSet(Before(<<f, 0>>))
    PROVE  /\ IsFiniteSet(Before(<<f, m>>))
           /\ Cardinality(Before(<<f, m>>)) = Cardinality(Before(<<f, 0>>)) + m
  <1> DEFINE A == Before(<<f, 0>>)
             B == {f} \X (0 .. m - 1)
             q == bytes[f] \div RecordBytes
  <1>1. bytes[f] \in Nat /\ bytes[f] <= MaxBytes /\ f \in Nat /\ RecordBytes \in Nat \ {0}
    BY SourceAssumption, SelectionAssumption DEF Files
  <1>2. q \in Nat /\ q <= MaxBytes
    <2>1. q \in Nat /\ q <= bytes[f]
      BY <1>1, QuotientBounded
    <2> HIDE DEF q
    <2> QED BY <1>1, <2>1, SelectionAssumption
  <1>3. m \in Nat /\ m <= q
    BY <1>2
  <1>4. Before(<<f, m>>) = A \cup B
    <2> HIDE DEF q
    <2>1. ASSUME NEW x \in Records PROVE x[2] \in Nat /\ x[1] \in Files /\ x = <<x[1], x[2]>>
      BY SelectionAssumption DEF Records
    <2>2. ASSUME NEW x \in B PROVE x \in Records
      BY <1>2, <1>3, SelectionAssumption DEF Records, q
    <2>3. ASSUME NEW x PROVE x \in B <=> x = <<x[1], x[2]>> /\ x[1] = f /\ x[2] \in 0 .. m - 1
      OBVIOUS
    <2> QED BY <1>3, <2>1, <2>2, <2>3 DEF Before
  <1>5. A \cap B = {}
    BY SelectionAssumption, <1>1 DEF Before, Records
  <1>6. IsFiniteSet(B) /\ Cardinality(B) = m
    <2>1. IsFiniteSet(0 .. m - 1) /\ Cardinality(0 .. m - 1) = m
      <3> DEFINE l == m - 1
      <3>1. l \in Int /\ 0 \in Int
        BY <1>3
      <3> HIDE DEF l
      <3>2. /\ IsFiniteSet(0 .. l)
            /\ Cardinality(0 .. l) = IF 0 > l THEN 0 ELSE l - 0 + 1
        BY <3>1, FS_Interval
      <3> QED BY <1>3, <3>2 DEF l
    <2>2. IsFiniteSet({f}) /\ Cardinality({f}) = 1
      BY FS_Singleton
    <2>3. IsFiniteSet(B) /\ Cardinality(B) = Cardinality({f}) * Cardinality(0 .. m - 1)
      BY <2>1, <2>2, FS_Product
    <2> QED BY <1>3, <2>1, <2>2, <2>3
  <1> HIDE DEF A, B
  <1>0. IsFiniteSet(A)
    BY DEF A
  <1>7. /\ IsFiniteSet(A \cup B)
        /\ Cardinality(A \cup B) = Cardinality(A) + Cardinality(B) - Cardinality(A \cap B)
    BY <1>0, <1>6, FS_Union
  <1>8. Cardinality(A) \in Nat /\ Cardinality({}) = 0
    <2>1. Cardinality(A) \in Nat
      BY <1>0, FS_CardinalityType, Zenon
    <2>2. Cardinality({}) = 0
      BY FS_EmptySet, Zenon
    <2> QED BY <2>1, <2>2
  <1>9. Cardinality(A \cup B) = Cardinality(A) + m
    <2>1. Cardinality(A \cap B) = 0
      BY <1>5, <1>8, Zenon
    <2> QED BY <1>3, <1>6, <1>7, <1>8, <2>1
  <1> QED BY <1>4, <1>7, <1>9 DEF A

\* As many records come before the m-th of a file as its offset and m.
LEMMA BeforeCounts ==
    ASSUME SourceInv, Len(counts) = Len(bytes),
           NEW f \in Files, NEW m \in 0 .. bytes[f] \div RecordBytes
    PROVE  Cardinality(Before(<<f, m>>)) = Offsets[f - 1] + m
  <1> DEFINE n == Len(bytes)
             Good(k) == /\ IsFiniteSet(Before(<<k + 1, 0>>))
                        /\ Cardinality(Before(<<k + 1, 0>>)) = Offsets[k]
             S == {k \in Nat : k + 1 \in 1 .. n => Good(k)}
  <1>1. /\ n \in Nat /\ bytes \in Seq(0 .. MaxBytes) /\ counts \in Seq(Nat)
        /\ \A k \in 1 .. n : counts[k] = bytes[k] \div RecordBytes
    BY DEF SourceInv
  <1>2. /\ Offsets[0] = 0 /\ \A k \in 0 .. n : Offsets[k] \in Nat
        /\ \A k \in 1 .. n : Offsets[k] = Offsets[k - 1] + counts[k]
    BY <1>1, OffsetsAre
  <1>3. ASSUME NEW x \in Records PROVE x[1] \in 1 .. n /\ x[2] \in Nat
    BY SelectionAssumption DEF Records, Files
  <1>4. 0 \in S
    <2>1. Before(<<0 + 1, 0>>) = {}
      BY <1>1, <1>3 DEF Before
    <2> QED BY <1>2, <2>1, FS_EmptySet
  <1>5. ASSUME NEW k \in Nat, k \in S PROVE k + 1 \in S
    <2> DEFINE l == k + 1
               c == bytes[l] \div RecordBytes
    <2> SUFFICES ASSUME l + 1 \in 1 .. n PROVE Good(l)
      OBVIOUS
    <2>1. l \in 1 .. n /\ l \in Files /\ l - 1 = k /\ k \in 0 .. n
      BY <1>1 DEF Files
    <2>2. Good(k)
      BY <1>5, <2>1
    <2>3. c \in Nat /\ c = counts[l]
      <3>1. c = counts[l]
        BY <1>1, <2>1
      <3>2. counts[l] \in Nat
        BY <1>1, <2>1
      <3> QED BY <3>1, <3>2
    <2>4. IsFiniteSet(Before(<<l, c>>)) /\ Cardinality(Before(<<l, c>>)) = Offsets[k] + c
      <3>1. c \in 0 .. bytes[l] \div RecordBytes /\ IsFiniteSet(Before(<<l, 0>>))
        BY <2>2, <2>3
      <3> HIDE DEF l, c
      <3>2. /\ IsFiniteSet(Before(<<l, c>>))
            /\ Cardinality(Before(<<l, c>>)) = Cardinality(Before(<<l, 0>>)) + c
        BY <1>1, <2>1, <3>1, BeforeInFile
      <3> QED BY <2>2, <3>2 DEF l
    <2>5. Before(<<l + 1, 0>>) = Before(<<l, c>>)
      <3>1. \A x \in Records : x[2] < bytes[x[1]] \div RecordBytes
        BY DEF Records
      <3>2. l \in Int
        BY <2>1
      <3> HIDE DEF l
      <3> QED BY <1>3, <3>1, <3>2 DEF Before
    <2>6. Offsets[l] = Offsets[k] + c
      BY <1>2, <2>1, <2>3
    <2> QED BY <2>4, <2>5, <2>6
  <1>6. \A k \in Nat : k \in S
    <2> HIDE DEF S
    <2> QED BY <1>4, <1>5, NatSetInduction
  <1> DEFINE k == f - 1
  <1>7. k \in Nat /\ k + 1 = f /\ f \in 1 .. n
    BY <1>1 DEF Files
  <1>8. IsFiniteSet(Before(<<f, 0>>)) /\ Cardinality(Before(<<f, 0>>)) = Offsets[k]
    <2> HIDE DEF k
    <2> QED BY <1>6, <1>7
  <1> QED BY <1>1, <1>8, BeforeInFile

-----------------------------------------------------------------------------
(* What was copied.                                                        *)

\* x is the record that file f, which has the index at position p, holds there.
Copied(p, x) == \E f \in Files : p \in Positions(f) /\ x = RecordOf(f, p)

ReadInv ==
    /\ selection \in Seq(Nat) /\ DOMAIN samples = DOMAIN selection /\ file \in Nat \ {0}
    /\ pc = "filling" => Valid(selection) /\ file <= Len(bytes) + 1
    /\ \A p \in DOMAIN samples : samples[p] = Garbage \/ Copied(p, samples[p])
    /\ pc = "filling" => \A p \in DOMAIN samples :
                            selection[p] < Offsets[file - 1] => Copied(p, samples[p])
    /\ \A p \in DOMAIN output : /\ p \in DOMAIN selection /\ output[p].id = selection[p]
                                /\ Copied(p, output[p].record)

IInv == SourceInv /\ ReadInv

LEMMA SameCopied ==
    ASSUME UNCHANGED <<bytes, counts, selection>>
    PROVE  Offsets' = Offsets /\ \A p, x : Copied(p, x)' <=> Copied(p, x)
  <1>1. Offsets' = Offsets
    BY DEF Offsets
  <1> QED BY <1>1 DEF Copied, Positions, RecordOf, Files

LEMMA InitIInv == Init => IInv
  <1> SUFFICES ASSUME Init PROVE IInv
    OBVIOUS
  <1>1. PICK n \in 1 .. MaxFiles : bytes \in [1 .. n -> 0 .. MaxBytes]
    BY DEF Init
  <1>2. bytes \in Seq(0 .. MaxBytes) /\ Len(bytes) \in Nat
    <2>1. n \in Nat
      BY SourceAssumption
    <2> QED BY <1>1, <2>1, Elements
  <1> QED BY <1>2 DEF Init, IInv, SourceInv, ReadInv

LEMMA NextSourceInv == SourceInv /\ [Next]_vars => SourceInv'
  <1> SUFFICES ASSUME SourceInv, [Next]_vars PROVE SourceInv'
    OBVIOUS
  <1> USE DEF SourceInv
  <1>1. CASE OpenFile
    <2> DEFINE f == Len(counts) + 1
    <2>1. /\ UNCHANGED <<bytes, samples, output>> /\ pc = "opening" /\ Len(counts) < Len(bytes)
          /\ \/ counts' = Append(counts, bytes[f] \div RecordBytes) /\ pc' = pc
             \/ counts' = counts /\ pc' = "corrupt"
      BY <1>1 DEF OpenFile
    <2>2. CASE counts' = Append(counts, bytes[f] \div RecordBytes) /\ pc' = pc
      <3> DEFINE q == bytes[f] \div RecordBytes
      <3>1. f \in 1 .. Len(bytes) /\ bytes[f] \in Nat /\ RecordBytes \in Nat \ {0}
        <4>1. Len(counts) \in Nat /\ Len(bytes) \in Nat /\ bytes \in Seq(0 .. MaxBytes)
          OBVIOUS
        <4>2. f \in 1 .. Len(bytes)
          BY <2>1, <4>1
        <4> HIDE DEF f
        <4>3. bytes[f] \in 0 .. MaxBytes
          BY <4>1, <4>2, Elements
        <4> QED BY <4>2, <4>3, SourceAssumption, SelectionAssumption
      <3>2. q \in Nat
        BY <3>1, Quotient
      <3> HIDE DEF q
      <3>3. /\ counts' \in Seq(Nat) /\ Len(counts') = f /\ counts'[f] = q
            /\ \A g \in 1 .. Len(counts) : counts'[g] = counts[g]
        BY <2>2, <3>2 DEF q
      <3>4. ASSUME NEW g \in 1 .. Len(counts') PROVE counts'[g] = bytes[g] \div RecordBytes
        <4>1. g = f \/ g \in 1 .. Len(counts)
          BY <3>3
        <4> QED BY <3>3, <4>1 DEF q
      <3> QED BY <2>1, <2>2, <3>1, <3>3, <3>4
    <2>3. CASE counts' = counts /\ pc' = "corrupt"
      BY <2>1, <2>3
    <2> QED BY <2>1, <2>2, <2>3
  <1>2. CASE Opened
    BY <1>2 DEF Opened, source
  <1>3. CASE Take
    <2>1. /\ UNCHANGED <<bytes, counts>> /\ pc \in {"open", "done", "refused"}
          /\ pc' \in {"filling", "refused"}
      BY <1>3 DEF Take, source
    <2> QED BY <2>1
  <1>4. CASE FillFromFile
    BY <1>4 DEF FillFromFile, source
  <1>5. CASE Transform
    BY <1>5 DEF Transform, source
  <1>6. CASE UNCHANGED vars
    BY <1>6 DEF vars
  <1> QED BY <1>1, <1>2, <1>3, <1>4, <1>5, <1>6 DEF Next

LEMMA NextReadInv == IInv /\ [Next]_vars => ReadInv'
  <1> SUFFICES ASSUME IInv, [Next]_vars PROVE ReadInv'
    OBVIOUS
  <1>0. SourceInv /\ ReadInv
    BY DEF IInv
  <1>1. CASE OpenFile
    <2>1. /\ UNCHANGED <<selection, samples, file, output>> /\ pc = "opening"
          /\ pc' \in {"opening", "corrupt"}
      BY <1>1 DEF OpenFile
    <2>2. samples = <<>> /\ output = <<>>
      BY <1>0, <2>1 DEF SourceInv
    <2> QED BY <1>0, <2>1, <2>2 DEF ReadInv
  <1>2. CASE Opened \/ UNCHANGED vars
    <2>1. /\ UNCHANGED <<bytes, counts, selection, samples, file, output>>
          /\ pc' = "open" \/ pc' = pc
      BY <1>2 DEF Opened, vars, source
    <2>2. Valid(selection)' <=> Valid(selection)
      BY <2>1, SameCopied DEF Valid, SampleCount
    <2> QED BY <1>0, <2>1, <2>2, SameCopied DEF ReadInv
  <1>3. CASE Take
    <2>1. PICK n \in 1 .. MaxTake : \E indices \in [1 .. n -> 0 .. SampleCount] :
             /\ selection' = indices
             /\ samples' = [p \in 1 .. n |-> Garbage]
             /\ pc' = IF Valid(indices) THEN "filling" ELSE "refused"
      BY <1>3 DEF Take
    <2>2. PICK indices \in [1 .. n -> 0 .. SampleCount] :
             /\ selection' = indices
             /\ samples' = [p \in 1 .. n |-> Garbage]
             /\ pc' = IF Valid(indices) THEN "filling" ELSE "refused"
      BY <2>1
    <2>3. file' = 1 /\ output' = <<>> /\ UNCHANGED <<bytes, counts>>
      BY <1>3 DEF Take, source
    <2>4. Offsets' = Offsets /\ SampleCount' = SampleCount
      BY <2>3 DEF Offsets, SampleCount
    <2>5. Offsets[0] = 0 /\ SampleCount \in Nat
      <3>1. counts \in Seq(Nat) /\ Len(counts) \in 0 .. Len(counts)
        BY <1>0 DEF SourceInv
      <3> QED BY <3>1, OffsetsAre DEF SampleCount
    <2>6. selection' \in Seq(Nat) /\ DOMAIN samples' = 1 .. n /\ DOMAIN selection' = 1 .. n
      <3>1. indices \in [1 .. n -> Nat] /\ n \in Nat
        BY <2>5, SelectionAssumption
      <3> QED BY <2>2, <3>1
    <2>7. pc' = "filling" => Valid(selection)' /\ file' <= Len(bytes') + 1
      <3>1. Valid(indices) <=> Valid(selection)'
        BY <2>2, <2>4 DEF Valid
      <3>2. Len(bytes) \in Nat
        BY <1>0 DEF SourceInv
      <3> QED BY <2>2, <2>3, <3>1, <3>2
    <2>8. \A p \in 1 .. n : samples'[p] = Garbage /\ ~(selection'[p] < Offsets'[file' - 1])
      <3>1. file' - 1 = 0 /\ \A p \in 1 .. n : selection'[p] \in Nat
        BY <2>3, <2>6
      <3> QED BY <2>2, <2>4, <2>5, <3>1
    <2> QED BY <2>3, <2>6, <2>7, <2>8 DEF ReadInv
  <1>4. CASE FillFromFile
    <2>1. /\ UNCHANGED <<bytes, counts, selection, output, pc>> /\ pc = "filling"
          /\ file <= Len(bytes) /\ file' = file + 1
          /\ samples' = [p \in DOMAIN samples |->
                           IF p \in Positions(file) THEN RecordOf(file, p) ELSE samples[p]]
      BY <1>4 DEF FillFromFile, source
    <2>2. file \in Files /\ file \in Nat \ {0} /\ file' - 1 = file
      BY <1>0, <2>1 DEF Files, ReadInv, SourceInv
    <2>3. Offsets' = Offsets /\ \A p, x : Copied(p, x)' <=> Copied(p, x)
      BY <2>1, SameCopied
    <2>4. ASSUME NEW p \in DOMAIN samples
          PROVE  /\ samples'[p] = Garbage \/ Copied(p, samples'[p])
                 /\ selection[p] < Offsets[file] => Copied(p, samples'[p])
      <3>1. CASE p \in Positions(file)
        BY <2>1, <2>2, <3>1 DEF Copied
      <3>2. CASE p \notin Positions(file)
        <4>1. samples'[p] = samples[p]
          BY <2>1, <3>2
        <4>2. p \in DOMAIN selection /\ selection[p] \in Nat
          BY <1>0 DEF ReadInv
        <4>3. Offsets[file - 1] \in Nat
          <5>1. counts \in Seq(Nat) /\ file - 1 \in 0 .. Len(counts)
            BY <1>0, <2>1, <2>2 DEF SourceInv
          <5> QED BY <5>1, OffsetsAre
        <4>4. selection[p] < Offsets[file] => selection[p] < Offsets[file - 1]
          BY <3>2, <4>2, <4>3 DEF Positions
        <4> QED BY <1>0, <2>1, <4>1, <4>4 DEF ReadInv
      <3> QED BY <3>1, <3>2
    <2>5. DOMAIN samples' = DOMAIN samples
      BY <2>1
    <2>6. Valid(selection)' <=> Valid(selection)
      BY <2>1, <2>3 DEF Valid, SampleCount
    <2>7. file' <= Len(bytes') + 1
      BY <1>0, <2>1, <2>2 DEF SourceInv
    <2> QED BY <1>0, <2>1, <2>2, <2>3, <2>4, <2>5, <2>6, <2>7 DEF ReadInv
  <1>5. CASE Transform
    <2>1. /\ UNCHANGED <<bytes, counts, selection, samples, file>> /\ pc = "filling"
          /\ file > Len(bytes) /\ pc' = "done"
          /\ output' = [p \in DOMAIN samples |-> [id |-> selection[p], record |-> samples[p]]]
      BY <1>5 DEF Transform, source
    <2>2. file - 1 = Len(counts)
      BY <1>0, <2>1 DEF ReadInv, SourceInv
    <2>3. \A p \in DOMAIN samples : p \in DOMAIN selection /\ Copied(p, samples[p])
      BY <1>0, <2>1, <2>2 DEF ReadInv, Valid, SampleCount
    <2>4. \A p, x : Copied(p, x)' <=> Copied(p, x)
      BY <2>1, SameCopied
    <2>5. ASSUME NEW p \in DOMAIN output'
          PROVE  /\ p \in DOMAIN selection' /\ output'[p].id = selection'[p]
                 /\ Copied(p, output'[p].record)
      BY <2>1, <2>3
    <2>6. \A p \in DOMAIN samples : (samples[p] = Garbage \/ Copied(p, samples[p]))'
      BY <2>1, <2>3, <2>4
    <2>7. \A p \in DOMAIN output' : Copied(p, output[p].record)'
      BY <2>4, <2>5
    <2> QED BY <1>0, <2>1, <2>5, <2>6, <2>7 DEF ReadInv
  <1> QED BY <1>1, <1>2, <1>3, <1>4, <1>5 DEF Next

LEMMA Invariance == Spec => []IInv
  <1>1. IInv /\ [Next]_vars => IInv'
    BY NextSourceInv, NextReadInv DEF IInv
  <1> QED BY <1>1, InitIInv, PTL DEF Spec

\* A copied record exists, and its index is the number of records before it.
LEMMA CopiedIsIndexed ==
    ASSUME IInv, NEW p \in DOMAIN selection, NEW x, Copied(p, x),
           Len(counts) = Len(bytes)
    PROVE  x \in Records /\ Cardinality(Before(x)) = selection[p]
  <1>1. PICK f \in Files : p \in Positions(f) /\ x = RecordOf(f, p)
    BY DEF Copied
  <1> DEFINE m == selection[p] - Offsets[f - 1]
             q == bytes[f] \div RecordBytes
  <1>2. /\ SourceInv /\ counts \in Seq(Nat) /\ f \in 1 .. Len(counts) /\ f - 1 \in 0 .. Len(counts)
        /\ selection[p] \in Nat
    BY DEF IInv, SourceInv, ReadInv, Files
  <1>3. /\ Offsets[f - 1] \in Nat /\ Offsets[f] = Offsets[f - 1] + counts[f]
        /\ counts[f] = q /\ counts[f] \in Nat
    BY <1>2, OffsetsAre DEF SourceInv
  <1>4. selection[p] >= Offsets[f - 1] /\ selection[p] < Offsets[f] /\ x = <<f, m>>
    BY <1>1 DEF Positions, RecordOf
  <1> HIDE DEF q, m
  <1>5. m \in 0 .. q /\ m < q /\ Offsets[f - 1] + m = selection[p]
    BY <1>2, <1>3, <1>4 DEF m
  <1>6. Cardinality(Before(<<f, m>>)) = Offsets[f - 1] + m
    BY <1>2, <1>5, BeforeCounts DEF q
  <1>7. q <= MaxBytes
    <2>1. bytes[f] \in Nat /\ bytes[f] <= MaxBytes /\ RecordBytes \in Nat \ {0}
      BY <1>2, SourceAssumption, SelectionAssumption DEF SourceInv, Files
    <2>2. q \in Nat /\ q <= bytes[f]
      BY <2>1, QuotientBounded DEF q
    <2> QED BY <2>1, <2>2, SelectionAssumption
  <1>8. <<f, m>> \in Records
    BY <1>3, <1>5, <1>7, SelectionAssumption DEF Records, q
  <1> QED BY <1>4, <1>5, <1>6, <1>8

\* No record is read that its file does not have.
THEOREM ReadsAlwaysExist == Spec => []ReadsExist
  <1>1. IInv => ReadsExist
    <2> SUFFICES ASSUME IInv, NEW p \in DOMAIN samples PROVE samples[p] \in Records \cup {Garbage}
      BY DEF ReadsExist
    <2>1. p \in DOMAIN selection /\ (samples[p] = Garbage \/ Copied(p, samples[p]))
      BY DEF IInv, ReadInv
    <2>2. Len(counts) = Len(bytes)
      BY DEF IInv, SourceInv
    <2> QED BY <2>1, <2>2, CopiedIsIndexed
  <1> QED BY <1>1, Invariance, PTL

\* What is returned was read, and each identity stands beside the record that
\* has this index when the files are read one after the other.
THEOREM IdentityIsAlwaysIndex == Spec => []IdentityIsIndex
  <1>1. IInv => IdentityIsIndex
    <2> SUFFICES ASSUME IInv, NEW p \in DOMAIN output
                 PROVE  /\ output[p].record \in Records
                        /\ Cardinality(Before(output[p].record)) = output[p].id
                        /\ output[p].id = selection[p]
      BY DEF IdentityIsIndex
    <2>1. /\ p \in DOMAIN selection /\ output[p].id = selection[p]
          /\ Copied(p, output[p].record)
      BY DEF IInv, ReadInv
    <2>2. Len(counts) = Len(bytes)
      BY DEF IInv, SourceInv
    <2> QED BY <2>1, <2>2, CopiedIsIndexed
  <1> QED BY <1>1, Invariance, PTL
=============================================================================
