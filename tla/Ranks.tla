------------------------------- MODULE Ranks -------------------------------
(* Lists made of a set and an order, as a sort makes them: the rows of the    *)
(* home list (HomeList) and of the Summary pane (SessionWork).                *)
EXTENDS Naturals, Sequences, FiniteSets

\* The members of a finite set in the order of a relation.
Ranked(S, before) ==
    [n \in 1 .. Cardinality(S) |->
        CHOOSE x \in S : Cardinality({y \in S : <<y, x>> \in before}) = n - 1]

\* The rows in some places, in their order.
Picked(rs, places) ==
    LET order == Ranked(places, {p \in places \X places : p[1] < p[2]})
    IN [n \in 1 .. Cardinality(places) |-> rs[order[n]]]
=============================================================================
