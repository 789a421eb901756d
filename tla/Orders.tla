------------------------------- MODULE Orders -------------------------------
(***************************************************************************)
(* Finite sets in an order, and the members of a list at some of its       *)
(* positions. The member in place n has n - 1 members before it.           *)
(***************************************************************************)
EXTENDS Integers, FiniteSets

Ordered(S, Before(_,_)) ==
  [n \in 1..Cardinality(S) |-> CHOOSE x \in S : Cardinality({y \in S : Before(y, x)}) = n - 1]

Ascend(S) == Ordered(S, LAMBDA a, b : a < b)

PlacedAt(s, positions) == [n \in 1..Cardinality(positions) |-> s[Ascend(positions)[n]]]

Selected(s, Test(_)) == PlacedAt(s, {i \in DOMAIN s : Test(s[i])})

=============================================================================
