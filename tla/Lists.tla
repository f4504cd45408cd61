------------------------------- MODULE Lists -------------------------------
(* What is left of a list when some of its elements are dropped.            *)
EXTENDS Naturals, FiniteSets

\* The elements at the places ix, in their order.
Place(ix, n) == CHOOSE i \in ix : Cardinality({k \in ix : k <= i}) = n
Picked(list, ix) == [n \in 1..Cardinality(ix) |-> list[Place(ix, n)]]
=============================================================================
