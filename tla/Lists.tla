---------------------------------- MODULE Lists ----------------------------------
(***************************************************************************)
(* What a sort and a filtering loop return.                                *)
(***************************************************************************)
EXTENDS Integers, FiniteSets, Sequences

\* The elements of S, where order has the pairs of which the first goes before the second.
InOrder(S, order) ==
  [n \in 1..Cardinality(S) |-> CHOOSE x \in S : Cardinality({y \in S : <<y, x>> \in order}) = n - 1]

\* The elements of s that stand at the given places.
AtPlaces(s, places) ==
  LET place == InOrder(places, {p \in places \X places : p[1] < p[2]})
  IN  [n \in 1..Cardinality(places) |-> s[place[n]]]
===============================================================================
