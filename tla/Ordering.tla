------------------------------ MODULE Ordering -------------------------------
(* The elements of a finite set as a sequence, as sorting gives them.        *)
EXTENDS Naturals, FiniteSets

\* The elements of a set in the order Before, each after those before it.
InOrder(S, Before(_, _)) ==
  [k \in 1..Cardinality(S) |->
     CHOOSE x \in S : Cardinality({y \in S : Before(y, x)}) = k - 1]
=============================================================================
