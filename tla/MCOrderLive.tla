----------------------------- MODULE MCOrderLive -----------------------------
(* An instance of OrderHistory for liveness: one slot for everybody, one for *)
(* VNPay alone, and a total that requests on carts change.                    *)
EXTENDS OrderHistory

CONSTANTS o1, h1, h2

OneOrder == {o1}
OneHandler == {h1}
TwoHandlers == {h1, h2}
NoProduct == {}
NoDetail == {}
NoneListed == [d \in Details |-> None]
TwoTotals == {0, 1}
NoStock == [p \in Products |-> 0]
PendAndUndo == {"CART", "PENDING"}
Reopen == {"PENDING"}
==============================================================================
