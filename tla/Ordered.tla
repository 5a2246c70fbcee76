------------------------------ MODULE Ordered ------------------------------
(***************************************************************************)
(* Sequences that keep the order of numbers, or of another sequence.       *)
(***************************************************************************)
EXTENDS Integers, Sequences, FiniteSets

\* The numbers of a finite set, from the lowest.
InOrder(S) == [k \in 1 .. Cardinality(S) |-> CHOOSE x \in S : Cardinality({y \in S : y < x}) = k - 1]

\* The elements of a sequence at some positions, in their order.
Kept(s, positions) == [k \in 1 .. Cardinality(positions) |-> s[InOrder(positions)[k]]]
=============================================================================
