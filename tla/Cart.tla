--------------------------------- MODULE Cart ---------------------------------
(***************************************************************************)
(* The customer's cart: updateCart and deleteOrderDetail of                *)
(* order.controller.ts with updateOrderDetailByCartAction of               *)
(* order.service.ts.  A cart is an order with status CART; its detail      *)
(* documents and its totals are written by separate, unguarded updates.    *)
(* Prices never change (no route writes them).  Alone, a cart meets orders *)
(* that are placed, confirmed and rolled back, each at once, and a stock     *)
(* that stands still; Shop puts the handlers of OrderLifecycle there.      *)
(***************************************************************************)
EXTENDS OrderDocuments, FiniteSets, Functions

CONSTANTS
    Customers,  \* account ids of customers
    Handlers,   \* slots for requests in progress
    Price,      \* Price[p]: Product.price
    InitStock,  \* InitStock[p]: Product.quantity at the start
    MaxTotal    \* bound: no request starts on an order, and no admin's request
                \* is served, whose total is outside 0..MaxTotal or that has a
                \* line of fewer than no or more than MaxTotal units

CartConstants ==
    /\ None \notin Customers \cup Orders \cup Products \cup OrderDetail
    /\ Price \in [Products -> Nat]
    /\ InitStock \in [Products -> Nat]
    /\ MaxTotal \in Nat
    /\ IsFiniteSet(Details) /\ IsFiniteSet(Handlers)

ASSUME CartAssumption == CartConstants

VARIABLES
    owner,      \* owner[o]: who the order document belongs to, None if there
                \* is no such document yet
    doc,        \* doc[o]: the rest of it, the schema's defaults until then
    line,       \* line[d]: the order detail document, None if there is none
    stock,      \* stock[p]: product.quantity, which no request here writes
    cache,      \* cache[o]: Redis key order-<id>, the document before a confirm
    req         \* req[h]: the request handler h executes

vars == <<owner, doc, line, stock, cache, req>>

\* change: the units a request adds to a line and to the total; held: the units
\* it found on the line.
Request(pc, u, o, p, change, held) ==
    [pc |-> pc, owner |-> u, order |-> o, product |-> p, change |-> change,
     held |-> held]

Idle == Request("idle", None, None, None, 0, 0)

Choosing == {"add", "compare", "minus"}
Writing == {"upsert", "insert", "remove"}
Counting == {"total", "uncount"}

Requests == {Idle} \cup
    [pc : {"create"} \cup Choosing \cup Writing \cup Counting,
     owner : Customers \cup {None}, order : Orders \cup {None},
     product : Products, change : Int, held : Int]

\* Types of the state; every line and every request past the cart lookup
\* belongs to an order that exists.
TypeOK ==
    /\ owner \in [Orders -> Customers \cup {None}]
    /\ doc \in [Orders -> Doc]
    /\ line \in [Details -> OrderDetail \cup {None}]
    /\ stock \in [Products -> Int]
    /\ cache \in [Orders -> Doc \cup {None}]
    /\ req \in [Handlers -> Requests]
    /\ \A d \in Details : line[d] # None => owner[line[d].order] # None
    /\ \A h \in Handlers :
        req[h].pc \notin {"idle", "create"} =>
            req[h].order \in Orders /\ owner[req[h].order] # None

Init ==
    /\ owner = [o \in Orders |-> None]
    /\ doc = [o \in Orders |-> NewOrder]
    /\ line = [d \in Details |-> None]
    /\ stock = InitStock
    /\ cache = [o \in Orders |-> None]
    /\ req = [h \in Handlers |-> Idle]

Become(h, request) == req' = [req EXCEPT ![h] = request]
Begin(h, request) == req[h] = Idle /\ Become(h, request)
GoTo(h, step) == req' = [req EXCEPT ![h].pc = step, ![h].held = 0]
Finish(h) == Become(h, Idle)
At(h, step) == req[h].pc = step

CartsOf(u) == {o \in Orders : owner[o] = u /\ doc[o].status = "CART"}
LinesOf(o, p) == {d \in Details : line[d] # None /\ line[d].order = o
                                  /\ line[d].product = p}

Countable(o) ==
    /\ doc[o].total \in 0..MaxTotal
    /\ \A d \in Details : (line[d] # None /\ line[d].order = o)
                            => line[d].quantity \in 0..MaxTotal

Step(change) == IF change = 1 THEN "add" ELSE "minus"

-----------------------------------------------------------------------------
(* PATCH order/cart *)

\* findOneBy finds a cart of the customer.
FindCart(h, u, p, change) ==
    /\ \E o \in CartsOf(u) :
        /\ Countable(o)
        /\ Begin(h, Request(Step(change), u, o, p, change, 0))
    /\ UNCHANGED <<owner, doc, line, stock, cache>>

\* Variant: the cart is looked for only when something is added.
NoCartAny(h, u, p, change) ==
    /\ CartsOf(u) = {} \/ change = -1
    /\ Begin(h, Request("create", u, None, p, change, 0))
    /\ UNCHANGED <<owner, doc, line, stock, cache>>

NoCart(h, u, p, change) ==
    /\ CartsOf(u) = {}
    /\ Begin(h, Request("create", u, None, p, change, 0))
    /\ UNCHANGED <<owner, doc, line, stock, cache>>

\* Variant: the handler goes on with an order that was never stored.
CreateCartUnsaved(h, o) ==
    LET r == req[h] IN
    /\ At(h, "create") /\ owner[o] = None
    /\ Become(h, Request(Step(r.change), r.owner, o, r.product, r.change, 0))
    /\ UNCHANGED <<owner, doc, line, stock, cache>>

\* createOrder: every field but the owner and the code has its default.
CreateCart(h, o) ==
    LET r == req[h] IN
    /\ At(h, "create") /\ owner[o] = None
    /\ owner' = [owner EXCEPT ![o] = r.owner]
    /\ doc' = [doc EXCEPT ![o] = NewOrder]
    /\ Become(h, Request(Step(r.change), r.owner, o, r.product, r.change, 0))
    /\ UNCHANGED <<line, stock, cache>>

\* ADD reads the line, if there is one.
AddRead(h) ==
    LET lines == LinesOf(req[h].order, req[h].product)
        held == IF lines = {} THEN {0} ELSE {line[d].quantity : d \in lines}
    IN  /\ At(h, "add")
        /\ \E quantity \in held :
                req' = [req EXCEPT ![h].pc = "compare", ![h].held = quantity]
        /\ UNCHANGED <<owner, doc, line, stock, cache>>

\* Variant: the quantity there is, not the one there will be, is compared.
EnoughLeftBefore(quantity, p) == quantity <= stock[p]

EnoughLeft(quantity, p) == quantity + 1 <= stock[p]

\* It reads the product once more and compares what the line would hold with
\* the stock.
AddCompare(h) ==
    /\ At(h, "compare")
    /\ IF EnoughLeft(req[h].held, req[h].product) THEN GoTo(h, "upsert")
       ELSE Finish(h)
    /\ UNCHANGED <<owner, doc, line, stock, cache>>

\* MINUS of a product that is not in the cart fails on the missing detail.
MinusMissing(h) ==
    /\ At(h, "minus") /\ LinesOf(req[h].order, req[h].product) = {}
    /\ Finish(h)
    /\ UNCHANGED <<owner, doc, line, stock, cache>>

\* Variant: a line with one unit left is decreased, not deleted.
LastUnitNone(quantity) == quantity < 1

LastUnit(quantity) == quantity <= 1

\* MINUS deletes a line down to its last unit and decreases the others.
MinusRead(h) ==
    /\ At(h, "minus")
    /\ \E d \in LinesOf(req[h].order, req[h].product) :
            GoTo(h, IF LastUnit(line[d].quantity) THEN "remove" ELSE "upsert")
    /\ UNCHANGED <<owner, doc, line, stock, cache>>

\* findOneAndUpdate with upsert: $inc on a matching line is atomic ...
IncrementLine(h) ==
    LET r == req[h] IN
    /\ At(h, "upsert")
    /\ \E d \in LinesOf(r.order, r.product) :
            line' = [line EXCEPT ![d].quantity = @ + r.change]
    /\ GoTo(h, "total")
    /\ UNCHANGED <<owner, doc, stock, cache>>

\* Variant: the search of the upsert is not repeated on the way to the insert,
\* and finds nothing even when there is a line.
NoLineFoundAny(h) ==
    /\ At(h, "upsert")
    /\ GoTo(h, "insert")
    /\ UNCHANGED <<owner, doc, line, stock, cache>>

\* ... but when none matches the insert comes later, and no index is unique.
NoLineFound(h) ==
    /\ At(h, "upsert") /\ LinesOf(req[h].order, req[h].product) = {}
    /\ GoTo(h, "insert")
    /\ UNCHANGED <<owner, doc, line, stock, cache>>

InsertLine(h, d) ==
    LET r == req[h] IN
    /\ At(h, "insert") /\ line[d] = None
    /\ line' = [line EXCEPT ![d] =
            [order |-> r.order, product |-> r.product, quantity |-> r.change]]
    /\ GoTo(h, "total")
    /\ UNCHANGED <<owner, doc, stock, cache>>

\* findOneAndDelete by order and product, whatever is there by now.
RemoveLine(h) ==
    LET lines == LinesOf(req[h].order, req[h].product) IN
    /\ At(h, "remove")
    /\ \/ lines = {} /\ UNCHANGED line
       \/ \E d \in lines : line' = [line EXCEPT ![d] = None]
    /\ GoTo(h, "total")
    /\ UNCHANGED <<owner, doc, stock, cache>>

\* Variant: the totals count units.
AddUnits(h) ==
    LET r == req[h] IN
    /\ At(h, "total")
    /\ doc' = [doc EXCEPT ![r.order].total = @ + r.change]
    /\ Finish(h)
    /\ UNCHANGED <<owner, line, stock, cache>>

\* Variant: the total is raised by ADD and left alone by MINUS.
AddOnly(h) ==
    LET r == req[h] IN
    /\ At(h, "total")
    /\ doc' = [doc EXCEPT ![r.order].total =
            IF r.change = 1 THEN @ + Price[r.product] ELSE @]
    /\ Finish(h)
    /\ UNCHANGED <<owner, line, stock, cache>>

\* updateOneOrder by _id alone.
AddToTotal(h) ==
    LET r == req[h] IN
    /\ At(h, "total")
    /\ doc' = [doc EXCEPT ![r.order].total = @ + r.change * Price[r.product]]
    /\ Finish(h)
    /\ UNCHANGED <<owner, line, stock, cache>>

-----------------------------------------------------------------------------
(* DELETE order/cart/detail/:orderDetailId *)

DeleteLine(h, d) ==
    /\ line[d] # None /\ Countable(line[d].order)
    /\ line' = [line EXCEPT ![d] = None]
    /\ Begin(h, Request("uncount", None, line[d].order, line[d].product,
                        -line[d].quantity, 0))
    /\ UNCHANGED <<owner, doc, stock, cache>>

\* Variant: one unit is taken from the total, whatever the line held.
UncountOne(h) ==
    LET r == req[h] IN
    /\ At(h, "uncount")
    /\ doc' = [doc EXCEPT ![r.order].total =
            IF doc[r.order].status = "CART" THEN @ - Price[r.product] ELSE @]
    /\ Finish(h)
    /\ UNCHANGED <<owner, line, stock, cache>>

\* The total follows only while the order is still a cart.
Uncount(h) ==
    LET r == req[h] IN
    /\ At(h, "uncount")
    /\ doc' = [doc EXCEPT ![r.order].total =
            IF doc[r.order].status = "CART"
            THEN @ + r.change * Price[r.product] ELSE @]
    /\ Finish(h)
    /\ UNCHANGED <<owner, line, stock, cache>>

-----------------------------------------------------------------------------
(* What the rest of the system does to a cart *)

\* Its owner or a payment takes it out of CART; here every status but CART is
\* PENDING.
Place(o) ==
    /\ owner[o] # None /\ doc[o].status = "CART"
    /\ doc' = [doc EXCEPT ![o].status = "PENDING"]
    /\ UNCHANGED <<owner, line, stock, cache, req>>

\* An admin confirms it, to a later status, to the one it has or, cancelled
\* before, to CART; the document as it was is cached.
Confirm(o) ==
    /\ owner[o] # None /\ Countable(o)
    /\ \E status \in {"CART", "PENDING"} : doc' = [doc EXCEPT ![o].status = status]
    /\ cache' = [cache EXCEPT ![o] = doc[o]]
    /\ UNCHANGED <<owner, line, stock, req>>

\* An admin rolls it back: the cached document, totals included, takes the place
\* of the one there is, which is cached.  (When the copy has expired nothing is
\* written, as in a confirm to the same status.)
Rollback(o) ==
    /\ owner[o] # None /\ Countable(o)
    /\ doc[o].status = "PENDING" /\ cache[o] # None
    /\ doc' = [doc EXCEPT ![o] = cache[o]]
    /\ cache' = [cache EXCEPT ![o] = doc[o]]
    /\ UNCHANGED <<owner, line, stock, req>>

\* The process stops and docker restarts it; MongoDB keeps its data.
Crash ==
    /\ \E h \in Handlers : req[h] # Idle
    /\ req' = [h \in Handlers |-> Idle]
    /\ UNCHANGED <<owner, doc, line, stock, cache>>

-----------------------------------------------------------------------------

Update(h) ==
    \/ \E u \in Customers, p \in Products, change \in {1, -1} :
            FindCart(h, u, p, change) \/ NoCart(h, u, p, change)
    \/ \E o \in Orders : CreateCart(h, o)
    \/ AddRead(h) \/ AddCompare(h) \/ MinusMissing(h) \/ MinusRead(h)
    \/ IncrementLine(h) \/ NoLineFound(h) \/ RemoveLine(h)
    \/ \E d \in Details : InsertLine(h, d)
    \/ AddToTotal(h)

Delete(h) == (\E d \in Details : DeleteLine(h, d)) \/ Uncount(h)

Environment == \E o \in Orders : Place(o) \/ Confirm(o) \/ Rollback(o)

Serve == (\E h \in Handlers : Update(h) \/ Delete(h)) \/ Environment

Next == Serve \/ Crash

Spec == Init /\ [][Next]_vars
=============================================================================
