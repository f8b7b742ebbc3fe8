----------------------------- MODULE StreamOrder -----------------------------
(***************************************************************************)
(* Positions of a Redis stream in the order in which XPENDING, XAUTOCLAIM  *)
(* and a SELECT ... ORDER BY list them.                                    *)
(***************************************************************************)
EXTENDS Integers, Sequences, FiniteSets

\* The sequences that list a finite set of numbers in ascending order: there
\* is exactly one.
Ascending(S) ==
    {q \in [1..Cardinality(S) -> S] : \A i, j \in DOMAIN q : i < j => q[i] < q[j]}

\* The n lowest numbers of a set.
Lowest(S, n) == {i \in S : Cardinality({j \in S : j < i}) < n}

=============================================================================
