------------------------------ MODULE MCReceipt ------------------------------
(* Instances of ReceiptHistory for TLC. *)
EXTENDS ReceiptHistory, TLC

CONSTANTS r1, p1, p2, h1, h2

OneReceipt == {r1}
OneProduct == {p1}
TwoProducts == {p1, p2}
OneHandler == {h1}
TwoHandlers == {h1, h2}

One == [p \in Products |-> IF p = p1 THEN 1 ELSE 0]
Both == [p \in Products |-> 1]
Two == [p \in Products |-> IF p = p1 THEN 2 ELSE 0]
Lists == {Nothing, One, Both}
Amounts == {Nothing, One, Two}

HandlerSymmetry == Permutations(Handlers)
==============================================================================
