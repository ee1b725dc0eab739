-------------------------- MODULE RangeArithmetic --------------------------
(***************************************************************************)
(* The byte ranges into which DatasetBuildPipeline._download splits an     *)
(* archive of "size" bytes for "par" connections.                          *)
(***************************************************************************)
EXTENDS Integers

Least(a, b) == IF a <= b THEN a ELSE b

Workers(par, size) == Least(par, size)

\* A variant of Span that the properties must tell from it: the quotient
\* rounded down.
SpanRoundedDown(par, size) == size \div Workers(par, size)

\* The quotient rounded up.
Span(par, size) == (size + Workers(par, size) - 1) \div Workers(par, size)

\* Rounding up may leave the last workers without a range.
Indices(par, size) ==
    {i \in 0 .. Workers(par, size) - 1 : i * Span(par, size) < size}

Start(par, size, i) == i * Span(par, size)

End(par, size, i) == Least(size - 1, (i + 1) * Span(par, size) - 1)

\* What _download expects of the ranges: they are numbered from 0, none is empty,
\* and each offset of the archive lies in exactly one.
RangesTile(par, size) ==
    /\ \A i \in Indices(par, size) :
         /\ 0 <= Start(par, size, i)
         /\ Start(par, size, i) <= End(par, size, i)
         /\ End(par, size, i) < size
         /\ \A j \in 0 .. i : j \in Indices(par, size)
    /\ \A n \in 0 .. size - 1 :
         \E i \in Indices(par, size) :
            /\ Start(par, size, i) <= n /\ n <= End(par, size, i)
            /\ \A j \in Indices(par, size) :
                 Start(par, size, j) <= n /\ n <= End(par, size, j) => j = i
=============================================================================
