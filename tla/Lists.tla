-------------------------------- MODULE Lists --------------------------------
(***************************************************************************)
(* Lists of which some elements are kept, in their order: what the         *)
(* comprehensions of src/zxcode do.  Said by counting places off, so that  *)
(* proofs can reason about it (SelectSeq is opaque to them).               *)
(***************************************************************************)
EXTENDS Naturals, Sequences, FiniteSets

\* The n-th of a set of numbers.
Nth(numbers, n) == CHOOSE k \in numbers : Cardinality({j \in numbers : j <= k}) = n

\* The elements of a list at some places.
Picked(s, places) == [n \in 1..Cardinality(places) |-> s[Nth(places, n)]]
=============================================================================
