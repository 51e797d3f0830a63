------------------------------- MODULE MCShop -------------------------------
(* An instance of Shop for TLC: one customer, two orders that compete for a  *)
(* single unit, the first of them to be paid online.                         *)
EXTENDS Shop, TLC

CONSTANTS u1, o1, o2, p1, d1, d2, h1

OneCustomer == {u1}
NoOrder == {}
NoTotal == {}
OneOrder == {o1}
TwoOrders == {o1, o2}
OneProduct == {p1}
TwoDetails == {d1, d2}
OneHandler == {h1}

NoDetailYet == [d \in Details |-> None]
Prices == [p \in Products |-> 2]
OneUnit == [p \in Products |-> 1]
Floor == 0

Straight == {"PREPARES_PACKAGE", "SUCCESS"}
KeepPayment == {None}

DetailSymmetry == Permutations(Details)
=============================================================================
