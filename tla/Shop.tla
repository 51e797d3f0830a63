-------------------------------- MODULE Shop --------------------------------
(***************************************************************************)
(* The order handlers (OrderLifecycle) and the cart handlers (Cart) over   *)
(* the same documents, served by the same process: what a customer puts in *)
(* a cart is what is billed, packed, taken from the stock and reported.    *)
(* The history variables of both, and four of the composition, are each a  *)
(* function of the steps taken.                                            *)
(***************************************************************************)
EXTENDS OrderHistory, FiniteSets, Functions

CONSTANTS
    Customers, Price, MaxTotal,     \* as in Cart
    Revisited   \* bound: the orders that are served even when irregular

ASSUME ShopAssumption ==
    /\ None \notin Customers \cup Products
    /\ Price \in [Products -> Nat]
    /\ MaxTotal \in Nat
    /\ IsFiniteSet(Orders) /\ IsFiniteSet(Products)
    /\ IsFiniteSet(Details) /\ IsFiniteSet(Handlers)

VARIABLES
    owner,      \* as in Cart
    visit,      \* visit[h]: the cart request handler h executes
    overlapped, doubled, stale, torn,   \* the history of Cart
    taken,      \* taken[o]: what the units taken from the stock for o are worth
    offtrack,   \* orders that once left the sequence of statuses
    changed,    \* orders with a detail or a total written when not a cart
    drained     \* drained[h][p]: units others took of p while h holds the lines
                \* it read

Carts == INSTANCE CartHistory WITH
            req <- visit, raced <- overlapped, cut <- torn

cartVars == <<owner, visit, overlapped, doubled, stale, torn>>
shopVars == <<hvars, cartVars, taken, offtrack, changed, drained>>

\* The orders a race, a restart or a turn of their own makes an exception below.
Irregular == raced \cup overlapped \cup stale \cup cut \cup torn \cup offtrack \cup changed

\* Bound: no request about these starts and VNPay does nothing more for them;
\* when every order is one of them only a restart is left.
LeftAlone == Irregular \ Revisited

Starts(slot, idle, h, o) == slot[h] = idle /\ slot'[h].order = o

-----------------------------------------------------------------------------
(* Steps *)

\* A request about an order finds the document, or answers "not found".
OrderStep(h) ==
    /\ visit[h] = Carts!Idle
    /\ (h \in Visitors /\ (Confirm(h) \/ Customer(h))) \/ Ipn(h)
    /\ \A o \in Orders : Starts(req, Idle, h, o) =>
            owner[o] # None /\ o \notin LeftAlone
    /\ UNCHANGED <<owner, visit>>

CartStep(h) ==
    /\ req[h] = Idle
    /\ Carts!Update(h) \/ Carts!Delete(h)
    /\ \A o \in LeftAlone : ~Starts(visit, Carts!Idle, h, o)
    /\ UNCHANGED <<cache, gateway, bill, req>>

\* The process stops and docker restarts it: MongoDB and Redis keep their data.
Restart ==
    /\ \E h \in Handlers : req[h] # Idle \/ visit[h] # Carts!Idle
    /\ req' = [h \in Handlers |-> Idle]
    /\ visit' = [h \in Handlers |-> Carts!Idle]
    /\ UNCHANGED <<owner, doc, line, stock, cache, gateway, bill>>

-----------------------------------------------------------------------------
(* History *)

\* The status goes back, jumps over PREPARES_PACKAGE, comes back from CANCEL, or
\* is written as PREPARES_PACKAGE once more.
LeavesTrack(o) ==
    LET from == doc[o].status
        to == doc'[o].status
    IN  \/ /\ from # to /\ to # "CANCEL"
           /\ \/ from = "CANCEL" \/ StepIndex(to) < StepIndex(from)
              \/ StepIndex(from) < 2 /\ StepIndex(to) > 2
        \/ /\ from = "PREPARES_PACKAGE" /\ to = "PREPARES_PACKAGE"
           /\ \E h \in Handlers : /\ req[h].order = o
                                  /\ At(h, "update") /\ req'[h].pc = "remember"

Rewritten(o) ==
    /\ doc[o].status # "CART"
    /\ \/ doc'[o].total # doc[o].total
       \/ \E d \in Details : line'[d] # line[d]
                             /\ d \in DetailsOf(o) \cup DetailsOf(o)'

TakenNow(o) ==
    IF \E h \in Handlers : At(h, "deduct") /\ req[h].order = o /\ req'[h] # req[h]
    THEN SumFunction([p \in Products |-> Price[p] * (stock[p] - stock'[p])])
    ELSE 0

\* A confirm has read the lines of its order and is not done with them.
HoldsLines(r) == r.pc \in {"check", "fetch", "update", "remember", "deduct"}

DrainedNow(h, p) ==
    IF ~HoldsLines(req'[h]) THEN 0
    ELSE IF req'[h] = req[h] /\ stock'[p] < stock[p]
         THEN drained[h][p] + (stock[p] - stock'[p])
         ELSE drained[h][p]

ShopInit ==
    /\ HInit /\ Carts!HInit
    /\ taken = [o \in Orders |-> 0]
    /\ offtrack = {} /\ changed = {}
    /\ drained = [h \in Handlers |-> [p \in Products |-> 0]]

ShopRecord ==
    /\ Record /\ Carts!Record
    /\ taken' = [o \in Orders |-> taken[o] + TakenNow(o)]
    /\ offtrack' = offtrack \cup {o \in Orders : LeavesTrack(o)}
    /\ changed' = changed \cup {o \in Orders : Rewritten(o)}
    /\ drained' = [h \in Handlers |-> [p \in Products |-> DrainedNow(h, p)]]

ShopNext ==
    \/ /\ LeftAlone # Orders
       /\ \/ \E h \in Handlers : OrderStep(h) \/ CartStep(h)
          \/ /\ Environment /\ UNCHANGED <<owner, visit>>
             /\ \A o \in LeftAlone : gateway'[o] = gateway[o]
       /\ ShopRecord /\ UNCHANGED <<cut, torn>>
    \/ /\ Restart /\ ShopRecord
       /\ cut' = cut \cup {o \in Orders : AwaitingStock(o)}
       /\ torn' = torn \cup {o \in Orders : Carts!Counted(o)}

ShopSpec == ShopInit /\ [][ShopNext]_shopVars

-----------------------------------------------------------------------------
(* Safety *)

\* The types of both parts over the shared documents; a request is about an
\* order that exists.
ShopTypeOK ==
    /\ TypeOK /\ Carts!TypeOK
    /\ \A h \in Handlers : req[h] # Idle => owner[req[h].order] # None

AtRest(o) == \A h \in Handlers : req[h].order # o /\ visit[h].order # o

\* An order that took its statuses one by one, and that no race, restart or
\* late write touched, has had exactly its details taken from the stock once
\* it is packed, and nothing before (order.controller.ts:304-319, whichever
\* handlers brought it there).
GoodsTaken ==
    \A o \in Orders \ Irregular : AtRest(o) =>
        CASE doc[o].status \in {"CART", "PENDING"} -> taken[o] = 0
          [] doc[o].status = "CANCEL" -> taken[o] \in {0, Carts!Listed(o)}
          [] OTHER -> taken[o] = Carts!Listed(o)

Delivered == {o \in Orders : doc[o].status = "SUCCESS"}

\* GET order/statistical/revenue.
Revenue == SumFunction([o \in Delivered |-> doc[o].total])

\* The revenue report is what the delivered goods taken from the stock are
\* worth, as long as every delivered order is a regular one
\* (order.service.ts:320-336 against the totals the cart adds up).
RevenueIsWorth ==
    (\A o \in Delivered : o \notin Irregular /\ AtRest(o)) =>
        Revenue = SumFunctionOnSet(taken, Delivered)

\* VNPay is told to collect what the goods that leave the warehouse are worth:
\* the total read before the payment is written (payment.controller.ts:48-58) is
\* what the cart added up line by line and what packing takes from the stock.
PaidForGoods ==
    \A o \in Delivered \ Irregular :
        (AtRest(o) /\ gateway[o] # "none") => bill[o] = taken[o]

\* The check of order.controller.ts:255-276 is enough but for what other requests
\* take before the update of :306-319, which has no condition: packing takes a
\* product below zero by no more than that, and not at all if they took nothing,
\* unless the order left the sequence of statuses (what a rollback finds in the
\* cache is written without that check) or has a product on two lines.
PackingCovered ==
    [][\A h \in Handlers, p \in Products :
        (/\ At(h, "deduct") /\ req'[h] # req[h] /\ stock'[p] < stock[p]
         /\ req[h].order \notin offtrack \cup overlapped)
            => stock'[p] + drained[h][p] >= 0
      ]_shopVars

\* Those who look at an order see the handlers make their moves at once, as
\* OrderBook has them, among the requests on carts too (MovesAtOnce of
\* OrderHistory): these change an order by the last of their commands, which
\* writes a total and nothing else (order.service.ts:252-261, 284-293).
MovesAmongCarts ==
    /\ Book!Init
    /\ [][\/ Book!Next
          \/ \E o \in Orders : Carts!Counted(o) /\ Book!Recount(o)]_Book!vars

\* A customer has one cart at most (the lookup before createOrder,
\* order.controller.ts:72-102), unless two requests looked for it together or a
\* placed order was put back to CART.
OneCart == \A u \in Customers \ doubled : Cardinality(Carts!CartsOf(u)) <= 1
=============================================================================
