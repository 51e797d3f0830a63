---------------------------- MODULE OrderHistory ----------------------------
(***************************************************************************)
(* OrderLifecycle with history variables, each a function of the steps     *)
(* taken, and the correctness properties that need them.                   *)
(***************************************************************************)
EXTENDS OrderLifecycle

VARIABLES
    raced,    \* orders written by one request inside another's read-write window
    asked,    \* orders for which an admin's confirm to SUCCESS was accepted
    cut       \* orders whose stock update a crash may have cut off

history == <<raced, asked, cut>>
hvars == <<vars, history>>

\* The request has read its order and has not written it yet.
Open(r) == r.pc \in {"lines", "check", "fetch", "update",
                     "cancel", "checkout", "pay", "ipn"}

\* Orders this step changes while another request holds an earlier reading.
Overtaken ==
    {o \in Orders : /\ doc'[o] # doc[o]
                    /\ \E h \in Handlers : /\ req[h].order = o
                                           /\ Open(req[h]) /\ Open(req'[h])}

AskedNow ==
    {o \in Orders : \E h \in Handlers :
        /\ req[h].pc = "idle" /\ req'[h].pc \in ConfirmSteps
        /\ req'[h].order = o /\ req'[h].data.status = "SUCCESS"}

AwaitingStock(o) == \E h \in Handlers :
    /\ req[h].order = o
    /\ \/ req[h].pc = "deduct"
       \/ req[h].pc = "remember" /\ req[h].data.status = "PREPARES_PACKAGE"

HInit ==
    /\ Init
    /\ raced = {}
    /\ asked = {}
    /\ cut = {}

Record ==
    /\ raced' = raced \cup Overtaken
    /\ asked' = asked \cup AskedNow

HNext ==
    \/ Serve /\ Record /\ UNCHANGED cut
    \/ Crash /\ Record /\ cut' = cut \cup {o \in Orders : AwaitingStock(o)}

HSpec == HInit /\ [][HNext]_hvars

FairHSpec == HSpec /\ Fairness

-----------------------------------------------------------------------------
(* Safety *)

\* As long as no request overwrites an order inside another's read-write
\* window, a delivered order is a paid one (order.controller.ts:251-253), and
\* stays so through rollbacks, payments, cancels and crashes.
PaidWhenDelivered ==
    \A o \in Orders \ raced :
        doc[o].status = "SUCCESS" => doc[o].pay = "SUCCESS"

LeavesDelivered(o) == doc[o].status = "SUCCESS" /\ doc'[o].status # "SUCCESS"

Undoes(h, o) ==
    /\ req[h].order = o
    /\ At(h, "update") \/ (At(h, "cancel") /\ req[h].arg = "staff")

\* An order that no two requests fought over leaves SUCCESS only by an admin's
\* rollback or a staff cancel: never by its owner, a checkout, a payment page
\* or a late IPN (order.controller.ts:371-385, payment.service.ts:93-109).
DeliveredStands ==
    [][\A o \in Orders \ raced : LeavesDelivered(o) => \E h \in Handlers : Undoes(h, o)]_hvars

\* Even when requests race, and whatever a rollback copies out of the cache, an
\* order is SUCCESS only after an admin confirmed it to SUCCESS.
DeliveredByAdmin ==
    \A o \in Orders : doc[o].status = "SUCCESS" => o \in asked

\* What the cache and the requests in progress hold of order o.
Copies(o) == {d \in {doc[o], cache[o]} \cup
                    UNION {{req[h].seen, req[h].data} :
                            h \in {g \in Handlers : req[g].order = o}} : d \in Doc}

\* For everyone who looks at an order that no request overtook, the handlers are
\* as good as atomic: it changes as OrderBook says, from the state it is in, and
\* what a rollback puts back it has been (order.controller.ts:212-302, 371-385,
\* payment.controller.ts:45-60, payment.service.ts:90-109).
Book == INSTANCE OrderBook WITH
            book <- doc, copies <- [o \in Orders |-> Copies(o)], overtaken <- raced
MovesAtOnce ==
    /\ Book!Init
    /\ [][Book!Next \/ \E o \in Orders : Recount(o) /\ Book!Recount(o)]_Book!vars

-----------------------------------------------------------------------------
(* Why these hold *)

Paid(d) == d # None => (d.status = "SUCCESS" => d.pay = "SUCCESS")

\* What the request of h was told when it read its order is still true.
Undisturbed(h) ==
    LET r == req[h]
        d == doc[r.order]
    IN  /\ r.pc \in {"lines", "check", "fetch", "update"} => r.seen = d
        /\ r.pc = "cancel" => CancelAllowed(d.status, r.arg)
        /\ r.pc \in {"checkout", "pay"} => d.status = "CART"
        /\ r.pc = "ipn" => d.pay = "PENDING"

\* The copies of an order, in Redis and in a confirm, are paid if delivered.
CopiesPaid(h) == Paid(req[h].seen) /\ Paid(req[h].data)

\* Inductive: an order nobody overtook is paid when delivered wherever a copy
\* of it is kept (order.controller.ts:277-302), and every request in progress
\* on it still stands on what it read.
UnracedOrders ==
    /\ raced \subseteq Orders
    /\ \A o \in Orders \ raced : Paid(doc[o]) /\ Paid(cache[o])
    /\ \A h \in Handlers :
        (req[h].pc # "idle" /\ req[h].order \notin raced)
            => Undisturbed(h) /\ CopiesPaid(h)

\* Inductive: no copy of an order says SUCCESS before an admin asked for it.
Asked(o, d) == d # None => (d.status = "SUCCESS" => o \in asked)

AskedOrders ==
    /\ \A o \in Orders : Asked(o, doc[o]) /\ Asked(o, cache[o])
    /\ \A h \in Handlers : req[h].pc # "idle" =>
        Asked(req[h].order, req[h].seen) /\ Asked(req[h].order, req[h].data)

-----------------------------------------------------------------------------
(* What the source says, and the code does not keep *)

\* order.controller.ts:255 "check product has enough quantity": a stock never
\* goes below zero.
StockNeverNegative == \A p \in Products : stock[p] >= 0

\* order.controller.ts:285 "case rollback previous status": what a rollback puts
\* back is no later status than the one the order has.
RollbackGoesBack ==
    [][\A h \in Handlers :
        (At(h, "fetch") /\ req'[h].pc = "update" /\ req'[h].data # None) =>
            StepIndex(req'[h].data.status) <= StepIndex(req[h].seen.status)
      ]_hvars

\* payment.service.ts:96 "This order has been updated to the payment status":
\* when the IPN is answered so, the order's payment is what VNPay reports.
AlreadyUpdatedIsTrue ==
    [][\A h \in Handlers, o \in Orders :
        (req[h].pc = "idle" /\ req'[h].pc = "reply" /\ req'[h].order = o) =>
            (doc[o].pay = "SUCCESS" <=> gateway[o] = "paid")
      ]_hvars
=============================================================================
