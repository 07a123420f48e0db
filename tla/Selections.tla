------------------------------ MODULE Selections ------------------------------
(***************************************************************************)
(* Sets of numbers in ascending order, and the elements of a sequence at   *)
(* such places: what a loop over a sequence keeps when it skips the rest.  *)
(***************************************************************************)
EXTENDS Integers, Sequences, FiniteSets

NthLeast(S, k) == CHOOSE x \in S : Cardinality({y \in S : y < x}) = k - 1

Ascending(S) == [k \in 1..Cardinality(S) |-> NthLeast(S, k)]

\* The elements of s at the places in K, in their order.
Pick(s, K) == [k \in 1..Cardinality(K) |-> s[NthLeast(K, k)]]
===============================================================================
