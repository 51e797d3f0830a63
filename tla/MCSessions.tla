------------------------------ MODULE MCSessions ------------------------------
(* An instance of SessionHistory for TLC: two clients of one account. *)
EXTENDS SessionHistory, TLC

CONSTANTS c1, c2, a1, h1, h2

TwoClients == {c1, c2}
OneAccount == {a1}
SameUser == [c \in Clients |-> a1]
TwoHandlers == {h1, h2}

SlotSymmetry == Permutations(TwoClients) \cup Permutations(TwoHandlers)
==============================================================================
