------------------------------ MODULE Listing -------------------------------
(***************************************************************************)
(* Filters and stable sorts of lists, said by the places of the elements   *)
(* instead of by recursion, so that they can be reasoned about.            *)
(***************************************************************************)
EXTENDS Naturals, FiniteSets

\* The elements of s at the places K, in a strict order of these places.
Arrange(s, K, Before(_, _)) ==
    LET Place(i) == Cardinality({j \in K : j = i \/ Before(j, i)})
    IN [k \in 1 .. Cardinality(K) |-> s[CHOOSE i \in K : Place(i) = k]]

\* The elements of a sequence at the places K, in its order.
Pick(s, K) == Arrange(s, K, <)
=============================================================================
