----------------------------- MODULE MCRegistered -----------------------------
(* An instance of RegisteredHistory for TLC. *)
EXTENDS RegisteredHistory, TLC

CONSTANTS c1, s1, n1, n2, x1, x2, h1, h2

OneCustomer == {c1}
OneStaff == {s1}
OneRole == {"CUSTOMER"}
TwoNames == {n1, n2}
TwoAddresses == {x1, x2}
TwoHandlers == {h1, h2}
Nobody == {}

SlotSymmetry == Permutations(TwoNames) \cup Permutations(TwoAddresses)
                    \cup Permutations(TwoHandlers)
==============================================================================
