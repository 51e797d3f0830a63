------------------------------ MODULE OrderBook ------------------------------
(***************************************************************************)
(* What the orders promise to those who look at them: an order changes by  *)
(* one of the moves below, made at once and from the state it is in,       *)
(* though a request takes several commands for it, and a copy that is put  *)
(* back is of a state the order was in.  An order that a request overtook  *)
(* another's reading of has no such promise.                               *)
(***************************************************************************)
EXTENDS OrderDocuments

VARIABLES
    book,       \* book[o]: the order as it is
    copies,     \* copies[o]: what requests and the cache know it to have been
    overtaken   \* the orders without the promise

vars == <<book, copies, overtaken>>

Rank == [CART |-> 0, PENDING |-> 1, PREPARES_PACKAGE |-> 2, IN_TRANSPORT |-> 3,
         SUCCESS |-> 4]

Init ==
    /\ book = [o \in Orders |-> NewOrder]
    /\ copies = [o \in Orders |-> {NewOrder}]
    /\ overtaken = {}

\* Checkout, with the payment of create_payment or without.
Place(d, e) ==
    /\ d.status = "CART" /\ e.status = "PENDING"
    /\ e.pay \in {d.pay, "SUCCESS"}
    /\ e.total = d.total

\* An admin confirms: stages may be skipped and a cancelled order taken up again,
\* and an order is delivered as a paid one.
Confirm(d, e) ==
    /\ e.status # "CANCEL"
    /\ d.status = "CANCEL" \/ Rank[d.status] <= Rank[e.status]
    /\ e.status = "SUCCESS" => e.pay = "SUCCESS"
    /\ e.total = d.total

Cancel(d, e) == e = [d EXCEPT !.status = "CANCEL"]

\* VNPay reports on a payment that is still open.
Settle(d, e) ==
    /\ d.pay = "PENDING" /\ d.status # "SUCCESS"
    /\ \/ e = [d EXCEPT !.status = "PENDING", !.pay = "SUCCESS"]
       \/ e = [d EXCEPT !.pay = "FAIL"]

\* An admin rolls back an order that was placed: it gets what it was once.
Restore(d, e, known) == d.status \notin {"CART", "CANCEL"} /\ e \in known

Change(o) ==
    LET d == book[o]
        e == book'[o]
    IN  \/ o \in overtaken
        \/ Place(d, e) \/ Confirm(d, e) \/ Cancel(d, e) \/ Settle(d, e)
        \/ Restore(d, e, copies[o])

\* Copies are taken of what an order is, kept and lost.
Copy ==
    /\ overtaken \subseteq overtaken'
    /\ \A o \in Orders : copies'[o] \subseteq copies[o] \cup {book'[o]}

Next ==
    /\ Copy
    /\ \/ book' = book
       \/ \E o \in Orders : Change(o) /\ \A p \in Orders \ {o} : book'[p] = book[p]

Spec == Init /\ [][Next]_vars

\* Where customers fill carts: one adds up, which changes a total and nothing else.
Recount(o) ==
    /\ Copy
    /\ book' = [book EXCEPT ![o].total = book'[o].total]
=============================================================================
