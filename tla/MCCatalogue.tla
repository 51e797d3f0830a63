----------------------------- MODULE MCCatalogue -----------------------------
(* Instances of CatalogueHistory for TLC. *)
EXTENDS CatalogueHistory, TLC

CONSTANTS c0, c1, c2, c3, c4, p1, p2, g1, h1, h2

Tree == {c0, c1, c2, c3, c4}
TwoProducts == {p1, p2}
OneLister == {g1}
TwoHandlers == {h1, h2}

\* Of what follows creates that spoilt each other's numbers no property says
\* more than its types, and a request begun after an answer is like the first.
UnspoiltAndUnanswered ==
    spoilt = {} /\ \A g \in Listers : listing[g].pc \notin {"found", "answered"}

SlotSymmetry == Permutations(Tree \ {c0}) \cup Permutations(TwoProducts)
                    \cup Permutations(TwoHandlers)
==============================================================================
