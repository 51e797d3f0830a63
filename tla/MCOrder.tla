------------------------------- MODULE MCOrder -------------------------------
(* Instances of OrderHistory for TLC. *)
EXTENDS OrderHistory, TLC

CONSTANTS o1, p1, d1, h1, h2

OneOrder == {o1}
NoOrder == {}
NoProduct == {}
OneProduct == {p1}
NoDetail == {}
OneDetail == {d1}
OneHandler == {h1}
TwoHandlers == {h1, h2}
NoTotal == {}

\* One order that takes the single unit there is of one product.
OneUnit == [d \in Details |-> [order |-> o1, product |-> p1, quantity |-> 1]]
NoStock == [p \in Products |-> 1]
Floor == 0

ShortCut == {"IN_TRANSPORT", "SUCCESS"}
PackAndUndo == {"PENDING", "PREPARES_PACKAGE", "IN_TRANSPORT"}

KeepPayment == {None}
ReopenPayment == {None, "PENDING"}

HandlerSymmetry == Permutations(Handlers)
==============================================================================
