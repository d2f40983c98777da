------------------------------- MODULE RankOrder -------------------------------
(***************************************************************************)
(* The elements of a finite set in an order, as a query with ORDER BY or a *)
(* sort leaves them, given for each of them how many come before it.       *)
(***************************************************************************)
EXTENDS Naturals, FiniteSets

InOrder(before) ==
  [n \in 1..Cardinality(DOMAIN before) |-> CHOOSE x \in DOMAIN before : before[x] = n - 1]
=============================================================================
