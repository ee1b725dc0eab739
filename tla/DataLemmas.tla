----------------------------- MODULE DataLemmas -----------------------------
(***************************************************************************)
(* Facts about the data that the proofs share: products, quotients and     *)
(* remainders, for the layouts that cut a length into pieces; induction    *)
(* over the naturals, for a set of them instead of a formula; and what the *)
(* concatenation of a sequence of sequences holds at each position.        *)
(***************************************************************************)
EXTENDS Integers, SequencesExt, WellFoundedInduction, TLAPS

\* A product is monotone in its first factor.
LEMMA TimesMonotone ==
    ASSUME NEW a \in Int, NEW b \in Int, NEW s \in Nat, a <= b
    PROVE  a * s <= b * s
  <1>1. (b - a) * s >= 0
    BY SMT
  <1>2. (b - a) * s = b * s - a * s
    BY SMT
  <1>3. a * s \in Int /\ b * s \in Int
    OBVIOUS
  <1> QED BY <1>1, <1>2, <1>3

\* Division with remainder, for the quotient by a positive number.
LEMMA Quotient ==
    ASSUME NEW n \in Nat, NEW s \in Nat \ {0}
    PROVE  /\ n \div s \in Nat
           /\ (n \div s) * s <= n
           /\ n < (n \div s) * s + s
  BY SMT

\* A quotient is no more than what was divided.
LEMMA QuotientBounded ==
    ASSUME NEW n \in Nat, NEW s \in Nat \ {0}
    PROVE  n \div s \in Nat /\ n \div s <= n
  <1> DEFINE q == n \div s
  <1>1. q \in Nat /\ q * s <= n
    BY Quotient
  <1> HIDE DEF q
  <1>2. 1 * q <= s * q
    BY <1>1, TimesMonotone
  <1>3. s * q = q * s /\ q * s \in Int /\ 1 * q = q
    BY <1>1
  <1>4. q <= n
    BY <1>1, <1>2, <1>3
  <1> QED BY <1>1, <1>4 DEF q

\* A quotient rounded up is the least number of pieces that cover n.
LEMMA Ceiling ==
    ASSUME NEW n \in Nat, NEW s \in Nat \ {0}
    PROVE  /\ (n + s - 1) \div s \in Nat
           /\ n <= ((n + s - 1) \div s) * s
           /\ ((n + s - 1) \div s) * s <= n + s - 1
  <1> DEFINE q == (n + s - 1) \div s
  <1>1. n + s - 1 \in Nat
    OBVIOUS
  <1>2. q \in Nat /\ q * s <= n + s - 1 /\ n + s - 1 < q * s + s
    BY <1>1, Quotient
  <1>3. q * s \in Int
    BY <1>2
  <1> QED BY <1>2, <1>3

\* Different multiples differ by at least the factor.
LEMMA MultiplesApart ==
    ASSUME NEW a \in Int, NEW b \in Int, NEW s \in Nat, a < b
    PROVE  a * s + s <= b * s /\ a * s \in Int /\ b * s \in Int
  <1>1. (a + 1) * s <= b * s
    <2>1. a + 1 \in Int /\ a + 1 <= b
      OBVIOUS
    <2> QED BY <2>1, TimesMonotone
  <1>2. (a + 1) * s = a * s + s
    BY SMT
  <1> QED BY <1>1, <1>2

\* Division with remainder, for the remainder.
LEMMA Remainder ==
    ASSUME NEW n \in Nat, NEW s \in Nat \ {0}
    PROVE  n % s \in 0 .. s - 1 /\ n - (n % s) = (n \div s) * s
  BY SMT

\* There is only one remainder.
LEMMA RemainderUnique ==
    ASSUME NEW s \in Nat \ {0}, NEW q \in Nat, NEW r \in 0 .. s - 1, NEW n \in Nat,
           n = q * s + r
    PROVE  n \div s = q /\ n % s = r
  <1> DEFINE d == n \div s
  <1>1. d \in Nat /\ d * s <= n /\ n < d * s + s /\ n - (n % s) = d * s /\ n % s \in Int
    <2>1. d \in Nat /\ d * s <= n /\ n < d * s + s
      BY Quotient
    <2>2. n % s \in 0 .. s - 1 /\ n - (n % s) = (n \div s) * s
      BY Remainder
    <2>3. n % s \in Int
      BY <2>2
    <2> QED BY <2>1, <2>2, <2>3
  <1> HIDE DEF d
  <1>2. q * s \in Int /\ d * s \in Int
    BY <1>1
  <1>3. ~(d < q)
    BY <1>1, <1>2, MultiplesApart
  <1>4. ~(q < d)
    BY <1>1, <1>2, MultiplesApart
  <1>5. d = q
    BY <1>1, <1>3, <1>4
  <1> QED BY <1>1, <1>2, <1>5 DEF d
-----------------------------------------------------------------------------
(* Induction                                                               *)

\* A set that holds 0 and the successor of each natural number in it holds all.
LEMMA NatSetInduction ==
    ASSUME NEW S, 0 \in S, \A n \in Nat : n \in S => n + 1 \in S
    PROVE  \A n \in Nat : n \in S
<1> DEFINE R == OpToRel(<, Nat)
<1>1. IsWellFoundedOn(R, Nat)
  BY NatLessThanWellFounded
<1>2. \A m, n \in Nat : m < n => <<m, n>> \in R
  BY DEF OpToRel
<1> HIDE DEF R
<1> SUFFICES ASSUME Nat \ S # {} PROVE FALSE
  OBVIOUS
<1>3. PICK x \in Nat \ S : \A y \in Nat \ S : ~ (<<y, x>> \in R)
  BY <1>1, WFMin
<1>4. x # 0 /\ x - 1 \in Nat /\ x - 1 < x
  BY <1>3
<1>5. x - 1 \in S
  BY <1>2, <1>3, <1>4
<1>6. (x - 1) + 1 \in S
  BY <1>4, <1>5
<1> QED
  BY <1>3, <1>4, <1>6

\* f[i] is the concatenation of the first i sequences.
Joins(seqs, n, f) ==
    f = [i \in 1 .. n |-> IF i = 1 THEN seqs[i] ELSE f[i - 1] \o seqs[i]]

\* They can be joined up to any length.
LEMMA JoinsExist ==
    ASSUME NEW seqs, NEW n \in Nat
    PROVE  \E f : Joins(seqs, n, f)
<1> DEFINE S == {m \in Nat : \E f : Joins(seqs, m, f)}
<1>1. 0 \in S
  <2>1. Joins(seqs, 0, [i \in 1 .. 0 |-> <<>>])
    BY DEF Joins
  <2> QED
    BY <2>1
<1>2. ASSUME NEW m \in Nat, m \in S PROVE m + 1 \in S
  <2>1. PICK f : Joins(seqs, m, f)
    BY <1>2
  <2> DEFINE x == IF m + 1 = 1 THEN seqs[m + 1] ELSE f[m] \o seqs[m + 1]
             g == [i \in 1 .. m + 1 |-> IF i = m + 1 THEN x ELSE f[i]]
  <2>2. \A i \in 1 .. m : f[i] = IF i = 1 THEN seqs[i] ELSE f[i - 1] \o seqs[i]
    BY <2>1 DEF Joins
  <2>3. \A i \in 1 .. m + 1 : g[i] = IF i = 1 THEN seqs[i] ELSE g[i - 1] \o seqs[i]
    <3> SUFFICES ASSUME NEW i \in 1 .. m + 1
                 PROVE  g[i] = IF i = 1 THEN seqs[i] ELSE g[i - 1] \o seqs[i]
      OBVIOUS
    <3>1. CASE i = m + 1
      <4>1. i # 1 => i - 1 \in 1 .. m + 1 /\ i - 1 # m + 1 /\ i - 1 = m
        BY <3>1
      <4>2. g[i] = x
        BY <3>1
      <4>3. i # 1 => g[i - 1] = f[m]
        BY <4>1
      <4> QED
        BY <3>1, <4>2, <4>3
    <3>2. CASE i # m + 1
      <4>1. i \in 1 .. m
        BY <3>2
      <4>2. i # 1 => i - 1 \in 1 .. m + 1 /\ i - 1 # m + 1
        BY <4>1
      <4>3. g[i] = f[i] /\ (i # 1 => g[i - 1] = f[i - 1])
        BY <3>2, <4>2
      <4> QED
        BY <2>2, <4>1, <4>3
    <3> QED
      BY <3>1, <3>2
  <2>4. Joins(seqs, m + 1, g)
    BY <2>3 DEF Joins
  <2> QED
    BY <2>4
<1> HIDE DEF S
<1>3. n \in S
  BY <1>1, <1>2, NatSetInduction
<1> QED
  BY <1>3 DEF S

\* FlattenSeq is the last of them.
LEMMA FlattenJoins ==
    ASSUME NEW seqs, Len(seqs) \in Nat \ {0}
    PROVE  \E f : Joins(seqs, Len(seqs), f) /\ FlattenSeq(seqs) = f[Len(seqs)]
<1> DEFINE n == Len(seqs)
           g == CHOOSE f : Joins(seqs, n, f)
<1>1. Joins(seqs, n, g)
  BY JoinsExist, Zenon
<1>2. FlattenSeq(seqs) = g[n]
  BY DEF FlattenSeq, Joins
<1> QED
  BY <1>1, <1>2

\* A sequence is the function of its positions.
LEMMA AsFunction ==
    ASSUME NEW T, NEW s \in Seq(T), NEW n \in Nat, Len(s) = n
    PROVE  DOMAIN s = 1 .. n /\ s = [k \in 1 .. n |-> s[k]]
  OBVIOUS

\* What a concatenation of two holds.
LEMMA ConcatAt ==
    ASSUME NEW T, NEW a \in Seq(T), NEW b \in Seq(T)
    PROVE  /\ a \o b \in Seq(T) /\ Len(a \o b) = Len(a) + Len(b)
           /\ \A j \in 1 .. Len(a) : j \in 1 .. Len(a) + Len(b) /\ (a \o b)[j] = a[j]
           /\ \A j \in 1 .. Len(b) : /\ Len(a) + j \in 1 .. Len(a) + Len(b)
                                    /\ (a \o b)[Len(a) + j] = b[j]
  OBVIOUS

\* at[i] is where the i-th sequence ends.
Ends(seqs, n, at) ==
    /\ at \in [0 .. n -> Nat] /\ at[0] = 0
    /\ \A i \in 1 .. n : at[i] = at[i - 1] + Len(seqs[i])

\* Each sequence is where the one before it ends, and there is no more than them.
Consists(whole, T, seqs, n, at) ==
    /\ whole \in Seq(T) /\ Len(whole) = at[n]
    /\ \A i \in 1 .. n : \A j \in 1 .. Len(seqs[i]) :
         at[i - 1] + j \in 1 .. at[n] /\ whole[at[i - 1] + j] = seqs[i][j]

\* The concatenation of sequences consists of them, in their order.
LEMMA FlattenAt ==
    ASSUME NEW T, NEW n \in Nat \ {0}, NEW seqs, Len(seqs) = n,
           \A i \in 1 .. n : seqs[i] \in Seq(T), NEW at, Ends(seqs, n, at)
    PROVE  Consists(FlattenSeq(seqs), T, seqs, n, at)
<1>1. PICK f : Joins(seqs, n, f) /\ FlattenSeq(seqs) = f[n]
  BY FlattenJoins
<1>2. \A m \in 1 .. n : f[m] = IF m = 1 THEN seqs[m] ELSE f[m - 1] \o seqs[m]
  BY <1>1 DEF Joins
<1> DEFINE Sound(m) == f[m] \in Seq(T) /\ Len(f[m]) = at[m]
           Holds(m, i) == \A j \in 1 .. Len(seqs[i]) :
                             /\ at[i - 1] + j \in 1 .. at[m]
                             /\ f[m][at[i - 1] + j] = seqs[i][j]
           Good(m) == Sound(m) /\ \A i \in 1 .. m : Holds(m, i)
           S == {m \in Nat : m \in 1 .. n => Good(m)}
<1>3. 0 \in S
  OBVIOUS
<1>4. ASSUME NEW m \in Nat, m \in S PROVE m + 1 \in S
  <2> SUFFICES ASSUME m + 1 \in 1 .. n PROVE Good(m + 1)
    OBVIOUS
  <2> DEFINE b == seqs[m + 1]
             k == m + 1
  <2>1. b \in Seq(T) /\ at[m] \in Nat /\ at[k] = at[m] + Len(b) /\ k - 1 = m
    BY DEF Ends
  <2>2. CASE m = 0
    <3>1. f[k] = b /\ at[m] = 0 /\ k = 1
      BY <1>2, <2>2 DEF Ends
    <3>2. Sound(k)
      BY <2>1, <3>1
    <3>3. Holds(k, k)
      <4>1. ASSUME NEW j \in 1 .. Len(b)
            PROVE  at[m] + j \in 1 .. at[k] /\ f[k][at[m] + j] = b[j]
        <5>1. j \in Int /\ at[m] + j = j /\ at[k] = Len(b)
          BY <2>1, <3>1
        <5> QED
          BY <3>1, <5>1
      <4> QED
        BY <2>1, <4>1
    <3>4. \A i \in 1 .. k : i = k
      BY <3>1
    <3> QED
      BY <3>2, <3>3, <3>4
  <2>3. CASE m # 0
    <3>1. Good(m)
      BY <1>4, <2>3
    <3>2. f[k] = f[m] \o b
      <4>1. k # 1 /\ k \in 1 .. n
        BY <2>3
      <4> HIDE DEF k
      <4>2. f[k] = f[k - 1] \o seqs[k]
        BY <1>2, <4>1
      <4> QED
        BY <2>1, <4>2 DEF k
    <3> DEFINE a == f[m]
    <3>3. a \in Seq(T) /\ Len(a) = at[m] /\ \A i \in 1 .. m : Holds(m, i)
      BY <3>1
    <3> HIDE DEF Holds, b, a, k
    <3>4. /\ a \o b \in Seq(T) /\ Len(a \o b) = at[k]
          /\ \A j \in 1 .. at[m] : j \in 1 .. at[k] /\ (a \o b)[j] = a[j]
          /\ \A j \in 1 .. Len(b) : /\ at[m] + j \in 1 .. at[k]
                                   /\ (a \o b)[at[m] + j] = b[j]
      <4>1. /\ a \o b \in Seq(T) /\ Len(a \o b) = Len(a) + Len(b)
            /\ \A j \in 1 .. Len(a) : j \in 1 .. Len(a) + Len(b) /\ (a \o b)[j] = a[j]
            /\ \A j \in 1 .. Len(b) : /\ Len(a) + j \in 1 .. Len(a) + Len(b)
                                     /\ (a \o b)[Len(a) + j] = b[j]
        <5>1. a \in Seq(T) /\ b \in Seq(T)
          BY <2>1, <3>3
        <5> QED
          BY <5>1, ConcatAt
      <4> QED
        BY <2>1, <3>3, <4>1, Zenon
    <3>5. Sound(k)
      BY <3>2, <3>4 DEF a
    <3>6. Holds(k, k)
      BY <2>1, <3>2, <3>4 DEF Holds, a, b, k
    <3>7. ASSUME NEW i \in 1 .. m PROVE Holds(k, i)
      <4>1. Holds(m, i)
        BY <3>3
      <4> QED
        BY <3>2, <3>4, <4>1 DEF Holds, a
    <3>8. \A i \in 1 .. k : i = k \/ i \in 1 .. m
      BY DEF k
    <3> QED
      BY <3>5, <3>6, <3>7, <3>8 DEF k
  <2> QED
    BY <2>2, <2>3
<1>5. \A m \in Nat : m \in S
  <2> HIDE DEF S
  <2> QED
    BY <1>3, <1>4, NatSetInduction
<1>6. Good(n)
  <2>1. n \in Nat /\ n \in 1 .. n
    OBVIOUS
  <2> QED
    BY <1>5, <2>1
<1> QED
  BY <1>1, <1>6 DEF Consists
=============================================================================
