------------------------------ MODULE Ordering ------------------------------
(***************************************************************************)
(* Sets of numbers as lists, lowest first: what the code gets by sorting   *)
(* the keys of a map.                                                      *)
(***************************************************************************)
EXTENDS Integers, FiniteSets

\* The lists of the members of S in ascending order: one, when S is finite.
Sorted(S) ==
    {q \in UNION {[1..n -> S] : n \in 0..Cardinality(S)} :
        /\ \A s \in S : \E i \in DOMAIN q : q[i] = s
        /\ \A i, j \in DOMAIN q : i < j => q[i] < q[j]}

=============================================================================
