-------------------------------- MODULE MCCart --------------------------------
(* An instance of CartHistory for TLC. *)
EXTENDS CartHistory, TLC

CONSTANTS u1, o1, p1, p2, d1, d2, h1, h2

OneCustomer == {u1}
OneOrder == {o1}
NoOrder == {}
TwoProducts == {p1, p2}
TwoDetails == {d1, d2}
TwoHandlers == {h1, h2}

Prices == [p \in Products |-> IF p = p1 THEN 2 ELSE 1]
Stock == [p \in Products |-> 2]

\* Slots and details are interchangeable.
SlotSymmetry ==
    {f @@ g : f \in Permutations(Handlers), g \in Permutations(Details)}
==============================================================================
