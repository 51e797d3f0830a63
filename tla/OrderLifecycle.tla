--------------------------- MODULE OrderLifecycle ---------------------------
(***************************************************************************)
(* The life of an order document: checkout, VNPay payment, the admin's     *)
(* confirm/rollback, and cancel (order.controller.ts,                      *)
(* payment.controller.ts, payment.service.ts).  None of these handlers     *)
(* writes an order detail.  Alone, an order meets carts as changes of its  *)
(* total (Recount); Shop puts the handlers of Cart in their place.         *)
(*                                                                         *)
(* MongoDB makes one command on one document atomic and nothing more: a    *)
(* request handler is a sequence of awaits, so here it is a slot of `req`  *)
(* whose `pc` names the command it is about to send.  Every await is a     *)
(* step of its own and any other handler may run in between.  The          *)
(* delivery address, merchandiser and note of an order are left out: no    *)
(* guard below reads them.                                                 *)
(***************************************************************************)
EXTENDS OrderDocuments

CONSTANTS
    Handlers,     \* slots for requests in progress
    InitLine,     \* InitLine[d]: the order detail document d at the start
    InitStock,    \* InitStock[p]: product.quantity at the start
    OnlineOrders, \* the orders whose customers pay through VNPay
    Targets,      \* the statuses admins ask for in a confirm
    PayArgs,      \* the paymentStatus values admins put in a confirm
    Totals,       \* the totals requests on carts give to an order
    Visitors,     \* bound: the slots for customers and admins, who leave the
                  \* others to VNPay
    Expiring,     \* bound: the orders whose cached copy may expire
    MaxStock,     \* bound: a receipt stops adding stock here
    StockFloor    \* bound: no confirm is accepted once a stock is below it

\* What a confirm writes; without a total the update leaves it alone.
Update == [status : OrderStatuses, pay : PaymentStatuses, total : Int \cup {None}]

ASSUME OrderAssumption ==
    /\ None \notin Update \cup PaymentStatuses \cup Orders \cup OrderDetail \cup Int
    /\ InitLine \in [Details -> OrderDetail \cup {None}]
    /\ InitStock \in [Products -> Nat]
    /\ OnlineOrders \subseteq Orders /\ Expiring \subseteq Orders
    /\ Targets \subseteq OrderStatuses
    /\ PayArgs \subseteq PaymentStatuses \cup {None}
    /\ Totals \subseteq Int
    /\ MaxStock \in Nat
    /\ StockFloor \in Int

VARIABLES
    doc,      \* doc[o]: the order document in MongoDB
    line,     \* line[d]: the order detail document, None if there is none
    stock,    \* stock[p]: product.quantity in MongoDB
    cache,    \* cache[o]: Redis key order-<id>, the document before a confirm
    gateway,  \* gateway[o]: what VNPay knows of the order's payment
    bill,     \* bill[o]: the amount VNPay was told to collect
    req       \* req[h]: the request handler h is working on

vars == <<doc, line, stock, cache, gateway, bill, req>>

-----------------------------------------------------------------------------
(* Requests in progress *)

ConfirmSteps == {"lines", "check", "fetch", "update", "remember", "deduct"}
OtherSteps == {"cancel", "checkout", "pay", "redirect", "ipn", "reply"}
Actors == {"owner", "staff"}
Settlements == {"paid", "declined"}

\* order: the order named by the request; seen: the document findOneBy
\* returned; data: what is about to be written (None: nothing); lines: the
\* details findOrderDetail returned; todo: those still to check or deduct;
\* arg: who cancels, or the IPN's response code.
Request(pc, o, seen, data, lines, todo, arg) ==
    [pc |-> pc, order |-> o, seen |-> seen, data |-> data, lines |-> lines,
     todo |-> todo, arg |-> arg]

NoLines == [d \in Details |-> None]

Idle == Request("idle", None, None, None, NoLines, {}, None)
Confirming(pc, o, seen, data, lines, todo) ==
    Request(pc, o, seen, data, lines, todo, None)
Deducting(o, lines, todo) == Request("deduct", o, None, None, lines, todo, None)
Paying(pc, o, seen) == Request(pc, o, seen, None, NoLines, {}, None)
Serving(pc, o, arg) == Request(pc, o, None, None, NoLines, {}, arg)

Requests == {Idle} \cup
    [pc : ConfirmSteps \cup OtherSteps, order : Orders,
     seen : Doc \cup {None}, data : Update \cup {None},
     lines : [Details -> OrderDetail \cup {None}], todo : SUBSET Details,
     arg : Actors \cup Settlements \cup {None}]

TypedSlot(r) ==
    /\ r.pc \in {"lines", "check", "fetch", "update", "remember", "pay", "redirect"}
         => r.seen \in Doc
    /\ r.pc \in {"lines", "check", "fetch"} => r.data \in Update
    /\ r.pc = "remember" => r.data \in Doc
    /\ \A d \in r.todo : r.lines[d] \in OrderDetail

\* Types of the state; a confirm holds the document it read until the end and
\* always knows what it will write, except after a rollback missed the cache,
\* and it checks and deducts only details it has read.
TypeOK ==
    /\ doc \in [Orders -> Doc]
    /\ line \in [Details -> OrderDetail \cup {None}]
    /\ stock \in [Products -> Int]
    /\ cache \in [Orders -> Doc \cup {None}]
    /\ gateway \in [Orders -> {"none", "issued", "acked"} \cup Settlements]
    /\ bill \in [Orders -> Int]
    /\ req \in [Handlers -> Requests]
    /\ \A h \in Handlers : TypedSlot(req[h])

Init ==
    /\ doc = [o \in Orders |-> NewOrder]
    /\ line = InitLine
    /\ stock = InitStock
    /\ cache = [o \in Orders |-> None]
    /\ gateway = [o \in Orders |-> "none"]
    /\ bill = [o \in Orders |-> 0]
    /\ req = [h \in Handlers |-> Idle]

Become(h, request) == req' = [req EXCEPT ![h] = request]
Begin(h, request) == req[h] = Idle /\ Become(h, request)
Finish(h) == Become(h, Idle)
At(h, step) == req[h].pc = step

-----------------------------------------------------------------------------
(* PATCH order/:id/confirm -- OrderController.changeStatus *)

\* Position in orderSteps, with lodash's -1 for a status that is not there.
StepIndex(status) ==
    CASE status = "CART" -> 0
      [] status = "PENDING" -> 1
      [] status = "PREPARES_PACKAGE" -> 2
      [] status = "IN_TRANSPORT" -> 3
      [] status = "SUCCESS" -> 4
      [] status = "CANCEL" -> -1

Confirmable(from, to) ==
    StepIndex(from) - StepIndex(to) <= 1 /\ StepIndex(to) # -1

\* Variant: a rollback is recognised from the second step back on.
IsRollbackLater(from, to) == StepIndex(from) - StepIndex(to) > 1

IsRollback(from, to) == StepIndex(from) - StepIndex(to) = 1

\* Variant: SUCCESS does not force the payment status.
ConfirmedPaymentKept(order, to, payArg) ==
    IF payArg # None THEN payArg ELSE order.pay

\* The paymentStatus to write: forced to SUCCESS with status SUCCESS, else the
\* one supplied, else the one that was read.
ConfirmedPayment(order, to, payArg) ==
    IF to = "SUCCESS" THEN "SUCCESS"
    ELSE IF payArg # None THEN payArg ELSE order.pay

\* Read the order, pass the two status guards and prepare the update.
ConfirmRead(h, o, to, payArg) ==
    LET seen == doc[o]
        data == [status |-> to, pay |-> ConfirmedPayment(seen, to, payArg),
                 total |-> None]
    IN  /\ Confirmable(seen.status, to)
        /\ \A p \in Products : stock[p] >= StockFloor
        /\ Begin(h, Confirming("lines", o, seen, data, NoLines, {}))
        /\ UNCHANGED <<doc, line, stock, cache, gateway, bill>>

DetailsOf(o) == {d \in Details : line[d] # None /\ line[d].order = o}

\* The stock of every line is checked only on the way to PREPARES_PACKAGE.
LinesToCheck(o, to) == IF to = "PREPARES_PACKAGE" THEN DetailsOf(o) ELSE {}

AfterChecks(seen, data) ==
    IF IsRollback(seen.status, data.status) THEN "fetch" ELSE "update"

\* findOrderDetail: the details of the order, as they are now.
ReadLines(h) ==
    LET r == req[h]
        lines == [d \in Details |-> IF d \in DetailsOf(r.order) THEN line[d] ELSE None]
        todo == LinesToCheck(r.order, r.data.status)
    IN  /\ At(h, "lines")
        /\ Become(h, Confirming(
                IF todo = {} THEN AfterChecks(r.seen, r.data) ELSE "check",
                r.order, r.seen, r.data, lines, todo))
        /\ UNCHANGED <<doc, line, stock, cache, gateway, bill>>

\* Variant: a line may exceed the stock by one unit.
EnoughStockPlusOne(l) == l.quantity <= stock[l.product] + 1

EnoughStock(l) == l.quantity <= stock[l.product]

\* One findById of the loop over the lines; the update follows the last one.
CheckLine(h, d) ==
    LET r == req[h] IN
    /\ At(h, "check") /\ d \in r.todo /\ EnoughStock(r.lines[d])
    /\ Become(h, Confirming(
            IF r.todo = {d} THEN AfterChecks(r.seen, r.data) ELSE "check",
            r.order, r.seen, r.data, r.lines, r.todo \ {d}))
    /\ UNCHANGED <<doc, line, stock, cache, gateway, bill>>

RejectLine(h, d) ==
    /\ At(h, "check") /\ d \in req[h].todo
    /\ ~EnoughStock(req[h].lines[d])
    /\ Finish(h)
    /\ UNCHANGED <<doc, line, stock, cache, gateway, bill>>

\* Rollback: the update becomes a copy of the cached document, or {} on a miss.
FetchPrevious(h) ==
    LET r == req[h]
        previous == cache[r.order]
    IN  /\ At(h, "fetch")
        /\ Become(h, Confirming("update", r.order, r.seen, previous, r.lines, {}))
        /\ UNCHANGED <<doc, line, stock, cache, gateway, bill>>

\* Variant: a rollback stores what the cache returned, even nothing.
UpdateOrderRaw(h) ==
    LET r == req[h] IN
    /\ At(h, "update")
    /\ doc' = [doc EXCEPT ![r.order] = r.data]
    /\ Become(h, Confirming("remember", r.order, r.seen, doc[r.order], r.lines, {}))
    /\ UNCHANGED <<line, stock, cache, gateway, bill>>

\* Variant: a copy is put back without its total.
UpdatedButTotal(d, data) ==
    IF data = None THEN d ELSE [status |-> data.status, pay |-> data.pay, total |-> d.total]

\* The document d after an update: nothing given, nothing changed.
Updated(d, data) ==
    IF data = None THEN d
    ELSE [status |-> data.status, pay |-> data.pay,
          total |-> IF data.total = None THEN d.total ELSE data.total]

\* findOneAndUpdate by _id alone; data becomes the document it returns.
UpdateOrder(h) ==
    LET r == req[h]
        stored == Updated(doc[r.order], r.data)
    IN  /\ At(h, "update")
        /\ doc' = [doc EXCEPT ![r.order] = stored]
        /\ Become(h, Confirming("remember", r.order, r.seen, stored, r.lines, {}))
        /\ UNCHANGED <<line, stock, cache, gateway, bill>>

Listed(lines) == {d \in Details : lines[d] # None}

\* Variant: the stock is updated if the order was PREPARES_PACKAGE when read.
RememberSeen(h) ==
    LET r == req[h]
        deduct == r.seen.status = "PREPARES_PACKAGE" /\ Listed(r.lines) # {}
    IN  /\ At(h, "remember")
        /\ cache' = [cache EXCEPT ![r.order] = r.seen]
        /\ Become(h, IF deduct THEN Deducting(r.order, r.lines, Listed(r.lines))
                     ELSE Idle)
        /\ UNCHANGED <<doc, line, stock, gateway, bill>>

\* The continuation of the update: cache the order as it was read, and send
\* the stock update if the order is now PREPARES_PACKAGE.
Remember(h) ==
    LET r == req[h]
        deduct == r.data.status = "PREPARES_PACKAGE" /\ Listed(r.lines) # {}
    IN  /\ At(h, "remember")
        /\ cache' = [cache EXCEPT ![r.order] = r.seen]
        /\ Become(h, IF deduct THEN Deducting(r.order, r.lines, Listed(r.lines))
                     ELSE Idle)
        /\ UNCHANGED <<doc, line, stock, gateway, bill>>

\* One update of the bulkWrite, which is atomic only line by line.
DeductLine(h, d) ==
    LET r == req[h] IN
    /\ At(h, "deduct") /\ d \in r.todo
    /\ stock' = [stock EXCEPT ![r.lines[d].product] = @ - r.lines[d].quantity]
    /\ Become(h, IF r.todo = {d} THEN Idle
                 ELSE Deducting(r.order, r.lines, r.todo \ {d}))
    /\ UNCHANGED <<doc, line, cache, gateway, bill>>

-----------------------------------------------------------------------------
(* PATCH order/:orderId/cancel and PATCH order/:id/checkout *)

\* Variant: the owner may also cancel a delivered order.
CancelAllowedToOwner(status, who) == who = "owner" \/ status = "SUCCESS"

\* The owner cancels until the order is delivered, others only afterwards.
CancelAllowed(status, who) ==
    IF status = "SUCCESS" THEN who = "staff" ELSE who = "owner"

CancelRead(h, o, who) ==
    /\ CancelAllowed(doc[o].status, who)
    /\ Begin(h, Serving("cancel", o, who))
    /\ UNCHANGED <<doc, line, stock, cache, gateway, bill>>

CancelWrite(h) ==
    /\ At(h, "cancel")
    /\ doc' = [doc EXCEPT ![req[h].order].status = "CANCEL"]
    /\ Finish(h)
    /\ UNCHANGED <<line, stock, cache, gateway, bill>>

CheckoutRead(h, o) ==
    /\ doc[o].status = "CART"
    /\ Begin(h, Serving("checkout", o, None))
    /\ UNCHANGED <<doc, line, stock, cache, gateway, bill>>

CheckoutWrite(h) ==
    /\ At(h, "checkout")
    /\ doc' = [doc EXCEPT ![req[h].order].status = "PENDING"]
    /\ Finish(h)
    /\ UNCHANGED <<line, stock, cache, gateway, bill>>

-----------------------------------------------------------------------------
(* POST payment/vnp/create_payment *)

CreatePaymentRead(h, o) ==
    /\ doc[o].status = "CART"
    /\ Begin(h, Paying("pay", o, doc[o]))
    /\ UNCHANGED <<doc, line, stock, cache, gateway, bill>>

\* The order is marked paid before the customer has seen the payment page.
CreatePaymentWrite(h) ==
    /\ At(h, "pay")
    /\ doc' = [doc EXCEPT
            ![req[h].order] = [@ EXCEPT !.status = "PENDING", !.pay = "SUCCESS"]]
    /\ Become(h, Paying("redirect", req[h].order, req[h].seen))
    /\ UNCHANGED <<line, stock, cache, gateway, bill>>

\* The URL, with the total read before the write, reaches the customer; VNPay
\* takes one transaction per order code.
Redirect(h) ==
    LET o == req[h].order IN
    /\ At(h, "redirect")
    /\ IF gateway[o] = "none"
       THEN /\ gateway' = [gateway EXCEPT ![o] = "issued"]
            /\ bill' = [bill EXCEPT ![o] = req[h].seen.total]
       ELSE UNCHANGED <<gateway, bill>>
    /\ Finish(h)
    /\ UNCHANGED <<doc, line, stock, cache>>

-----------------------------------------------------------------------------
(* GET payment/vnpay_ipn -- PaymentService.handleVnpIpn, for well signed    *)
(* calls about an existing order; a call about another amount than the      *)
(* order's total is answered 04 (payment.service.ts:90), writes nothing and *)
(* is repeated.                                                             *)

\* Outside the system: the customer pays, or fails to, on VNPay's page.
Settle(o, result) ==
    /\ gateway[o] = "issued"
    /\ gateway' = [gateway EXCEPT ![o] = result]
    /\ UNCHANGED <<doc, line, stock, cache, bill, req>>

Unanswered(o) == gateway[o] \in Settlements

\* The amount VNPay collected is the total the order has now.
AmountMatches(o) == bill[o] = doc[o].total

\* VNPay calls, again and again until answered.  The payment is still open.
IpnRead(h, o) ==
    /\ Unanswered(o) /\ AmountMatches(o)
    /\ doc[o].pay = "PENDING"
    /\ Begin(h, Serving("ipn", o, gateway[o]))
    /\ UNCHANGED <<doc, line, stock, cache, gateway, bill>>

\* Variant: only a successful payment counts as set already.
IpnAlreadyPaid(h, o) ==
    /\ Unanswered(o) /\ AmountMatches(o)
    /\ doc[o].pay = "SUCCESS"
    /\ Begin(h, Serving("reply", o, None))
    /\ UNCHANGED <<doc, line, stock, cache, gateway, bill>>

\* Reply 02: the payment status has been set already.
IpnAlready(h, o) ==
    /\ Unanswered(o) /\ AmountMatches(o)
    /\ doc[o].pay # "PENDING"
    /\ Begin(h, Serving("reply", o, None))
    /\ UNCHANGED <<doc, line, stock, cache, gateway, bill>>

\* Variant: a paid order is written as delivered.
IpnWriteDelivers(h) ==
    LET r == req[h] IN
    /\ At(h, "ipn")
    /\ doc' = [doc EXCEPT ![r.order] =
            IF r.arg = "paid" THEN [@ EXCEPT !.status = "SUCCESS", !.pay = "SUCCESS"]
            ELSE [@ EXCEPT !.pay = "FAIL"]]
    /\ Become(h, Serving("reply", r.order, None))
    /\ UNCHANGED <<line, stock, cache, gateway, bill>>

IpnWrite(h) ==
    LET r == req[h] IN
    /\ At(h, "ipn")
    /\ doc' = [doc EXCEPT ![r.order] =
            IF r.arg = "paid" THEN [@ EXCEPT !.status = "PENDING", !.pay = "SUCCESS"]
            ELSE [@ EXCEPT !.pay = "FAIL"]]
    /\ Become(h, Serving("reply", r.order, None))
    /\ UNCHANGED <<line, stock, cache, gateway, bill>>

IpnReply(h) ==
    /\ At(h, "reply")
    /\ gateway' = [gateway EXCEPT ![req[h].order] = "acked"]
    /\ Finish(h)
    /\ UNCHANGED <<doc, line, stock, cache, bill>>

\* The answer is lost on its way and VNPay will call again.
IpnReplyLost(h) ==
    /\ At(h, "reply")
    /\ Finish(h)
    /\ UNCHANGED <<doc, line, stock, cache, gateway, bill>>

-----------------------------------------------------------------------------
(* The environment *)

\* The cached document outlives LIMIT_TIME_ALLOW_ROLLBACK_ORDER_STATUS.
CacheExpire(o) ==
    /\ cache[o] # None
    /\ cache' = [cache EXCEPT ![o] = None]
    /\ UNCHANGED <<doc, line, stock, gateway, bill, req>>

\* A warehouse receipt reaches SUCCESS and adds a unit.
Restock(p) ==
    /\ stock[p] < MaxStock
    /\ stock' = [stock EXCEPT ![p] = @ + 1]
    /\ UNCHANGED <<doc, line, cache, gateway, bill, req>>

\* A request on the cart ends: its last command is one $inc of the totals by the
\* order's id, whatever became of the order.
Recount(o) ==
    /\ \E total \in Totals \ {doc[o].total} :
            doc' = [doc EXCEPT ![o].total = total]
    /\ UNCHANGED <<line, stock, cache, gateway, bill, req>>

\* The process stops and docker restarts it: MongoDB and Redis keep their
\* data, every request in progress is gone.
Crash ==
    /\ \E h \in Handlers : req[h] # Idle
    /\ req' = [h \in Handlers |-> Idle]
    /\ UNCHANGED <<doc, line, stock, cache, gateway, bill>>

-----------------------------------------------------------------------------

Confirm(h) ==
    \/ \E o \in Orders, to \in Targets, payArg \in PayArgs :
            ConfirmRead(h, o, to, payArg)
    \/ ReadLines(h)
    \/ \E d \in Details : CheckLine(h, d)
    \/ \E d \in Details : RejectLine(h, d)
    \/ FetchPrevious(h)
    \/ UpdateOrder(h)
    \/ Remember(h)
    \/ \E d \in Details : DeductLine(h, d)

Customer(h) ==
    \/ \E o \in Orders, who \in Actors : CancelRead(h, o, who)
    \/ CancelWrite(h)
    \/ \E o \in Orders : CheckoutRead(h, o)
    \/ CheckoutWrite(h)
    \/ \E o \in OnlineOrders : CreatePaymentRead(h, o)
    \/ CreatePaymentWrite(h)
    \/ Redirect(h)

Ipn(h) ==
    \/ \E o \in Orders : IpnRead(h, o)
    \/ \E o \in Orders : IpnAlready(h, o)
    \/ IpnWrite(h)
    \/ IpnReply(h)
    \/ IpnReplyLost(h)

Environment ==
    \/ \E o \in Orders, result \in Settlements : Settle(o, result)
    \/ \E o \in Expiring : CacheExpire(o)
    \/ \E p \in Products : Restock(p)

Serve ==
    \/ \E h \in Handlers : (h \in Visitors /\ (Confirm(h) \/ Customer(h))) \/ Ipn(h)
    \/ Environment
    \/ \E o \in Orders : Recount(o)

Next == Serve \/ Crash

Spec == Init /\ [][Next]_vars

-----------------------------------------------------------------------------
(* Fairness.  A handler that has started goes on (the event loop and MongoDB *)
(* serve every pending command), and VNPay repeats an unanswered call, so a  *)
(* call that can be received, processed and answered again and again        *)
(* eventually is, whatever crashes and losses come in between.  Nobody has  *)
(* to start a request, to pay, to change a cart or to let a cache entry     *)
(* expire.                                                                  *)

Continue(h) ==
    \/ \E d \in Details : CheckLine(h, d) \/ RejectLine(h, d) \/ DeductLine(h, d)
    \/ ReadLines(h) \/ FetchPrevious(h) \/ UpdateOrder(h) \/ Remember(h)
    \/ CancelWrite(h) \/ CheckoutWrite(h) \/ CreatePaymentWrite(h) \/ Redirect(h)
    \/ IpnWrite(h) \/ IpnReply(h) \/ IpnReplyLost(h)

Fairness ==
    /\ \A h \in Handlers : WF_vars(Continue(h))
    /\ \A o \in Orders :
        /\ SF_vars(\E h \in Handlers : IpnRead(h, o) \/ IpnAlready(h, o))
        /\ SF_vars(\E h \in Handlers : req[h].order = o /\ IpnWrite(h))
        /\ SF_vars(\E h \in Handlers : req[h].order = o /\ IpnReply(h))

\* A payment VNPay has settled is eventually answered by the IPN handler
\* (payment.service.ts handleVnpIpn), across restarts, lost answers, confirms
\* that reopen the payment, and totals that a cart request or a rollback changes
\* after the bill was made out, as long as the total is the amount of the bill
\* again and again: if it stays another one, every call is answered 04 (:90).
PaymentAcknowledged ==
    \A o \in Orders :
        []<>AmountMatches(o) => (Unanswered(o) ~> gateway[o] = "acked")
=============================================================================
