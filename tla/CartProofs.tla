----------------------------- MODULE CartProofs -----------------------------
(* Theorems about CartHistory, for any number of customers, orders, products, *)
(* details and handlers, any prices and any stock.                            *)
EXTENDS CartHistory, SumLemmas, TLAPS

-----------------------------------------------------------------------------
(* Type correctness *)

Steps == {"create"} \cup Choosing \cup Writing \cup Counting

InProgress == [pc : Steps, owner : Customers \cup {None}, order : Orders \cup {None},
               product : Products, change : Int, held : Int]

\* The fields of the idle request and of one in progress.
LEMMA RequestFields ==
    /\ Idle \in Requests /\ Idle.pc = "idle" /\ Idle.order = None /\ Idle.owner = None
    /\ \A q \in Requests : q.pc # "idle" =>
        /\ q \in InProgress /\ q.pc \in Steps /\ q.product \in Products
        /\ q.change \in Int /\ q.held \in Int
    /\ "idle" \notin Steps
BY DEF Requests, InProgress, Idle, Request, Steps, Choosing, Writing, Counting

\* The fields of a new request.
LEMMA NewRequest ==
    ASSUME NEW pc \in Steps, NEW u \in Customers \cup {None}, NEW o \in Orders \cup {None},
           NEW p \in Products, NEW change \in Int
    PROVE  LET q == Request(pc, u, o, p, change, 0) IN
           /\ q \in Requests
           /\ q.pc = pc /\ q.owner = u /\ q.order = o /\ q.product = p
           /\ q.change = change /\ q.held = 0
BY DEF Requests, Request, Steps

\* A slot that gets a request, or none, keeps the others.
LEMMA Becoming ==
    ASSUME TypeOK, NEW h \in Handlers, NEW q \in Requests, Become(h, q)
    PROVE  /\ req' \in [Handlers -> Requests]
           /\ req'[h] = q
           /\ \A g \in Handlers : g # h => req'[g] = req[g]
BY DEF TypeOK, Become

\* A slot that goes on keeps everything of its request but the step and what it
\* found on the line.
Goes(h, step, held) ==
    /\ req' \in [Handlers -> Requests]
    /\ req'[h].pc = step /\ req'[h].held = held
    /\ req'[h].owner = req[h].owner /\ req'[h].order = req[h].order
    /\ req'[h].product = req[h].product /\ req'[h].change = req[h].change
    /\ \A g \in Handlers : g # h => req'[g] = req[g]

LEMMA Going ==
    ASSUME TypeOK, NEW h \in Handlers, req[h].pc # "idle", NEW step \in Steps,
           NEW held \in Int,
           req' = [req EXCEPT ![h].pc = step, ![h].held = held]
    PROVE  Goes(h, step, held)
<1>1. req[h] \in InProgress
  BY RequestFields DEF TypeOK
<1>2. [req[h] EXCEPT !.pc = step, !.held = held] \in Requests
  BY <1>1 DEF InProgress, Requests, Steps
<1>3. req'[h] = [req[h] EXCEPT !.pc = step, !.held = held]
  BY DEF TypeOK
<1>4. /\ req'[h].pc = step /\ req'[h].held = held
      /\ req'[h].owner = req[h].owner /\ req'[h].order = req[h].order
      /\ req'[h].product = req[h].product /\ req'[h].change = req[h].change
  <2>1. \A q \in InProgress :
            LET new == [q EXCEPT !.pc = step, !.held = held]
            IN  /\ new.pc = step /\ new.held = held
                /\ new.owner = q.owner /\ new.order = q.order
                /\ new.product = q.product /\ new.change = q.change
    BY DEF InProgress
  <2> QED
    BY <1>1, <1>3, <2>1
<1>5. req' \in [Handlers -> Requests] /\ \A g \in Handlers : g # h => req'[g] = req[g]
  BY <1>2 DEF TypeOK
<1> QED
  BY <1>4, <1>5 DEF Goes

\* What the types say of one slot; a cart is created for a customer.
TypedSlot(h) ==
    /\ req[h].pc = "create" => req[h].owner \in Customers
    /\ req[h].pc \notin {"idle", "create"} =>
        req[h].order \in Orders /\ owner[req[h].order] # None

\* Inductive: the declared types, and what they say of the slots.
Typed == TypeOK /\ \A h \in Handlers : TypedSlot(h)

\* A slot that goes on, in a step that takes no order away.
LEMMA TypedGoing ==
    ASSUME Typed, NEW h \in Handlers, req[h].pc \notin {"idle", "create"},
           NEW step \in Steps \ {"create"}, NEW held \in Int, Goes(h, step, held),
           owner' = owner
    PROVE  \A g \in Handlers : TypedSlot(g)'
BY DEF Typed, TypedSlot, Goes

LEMMA TypedDone ==
    ASSUME Typed, NEW h \in Handlers, Finish(h), owner' = owner
    PROVE  /\ req' \in [Handlers -> Requests] /\ req'[h] = Idle
           /\ \A g \in Handlers : g # h => req'[g] = req[g]
           /\ \A g \in Handlers : TypedSlot(g)'
BY RequestFields, Becoming DEF Typed, TypedSlot, Finish

\* A slot that starts on an order that exists.
LEMMA TypedBegun ==
    ASSUME Typed, NEW h \in Handlers, NEW step \in Steps \ {"create"},
           NEW u \in Customers \cup {None}, NEW o \in Orders, NEW p \in Products,
           NEW change \in Int, Become(h, Request(step, u, o, p, change, 0)),
           owner' \in [Orders -> Customers \cup {None}], owner'[o] # None,
           \A e \in Orders : owner[e] # None => owner'[e] # None
    PROVE  /\ req' \in [Handlers -> Requests]
           /\ \A g \in Handlers : TypedSlot(g)'
<1>0. LET q == Request(step, u, o, p, change, 0) IN
        q \in Requests /\ q.pc = step /\ q.order = o
  BY NewRequest
<1>1. /\ req' \in [Handlers -> Requests]
      /\ req'[h] = Request(step, u, o, p, change, 0)
      /\ \A g \in Handlers : g # h => req'[g] = req[g]
  <2> DEFINE q == Request(step, u, o, p, change, 0)
  <2>1. q \in Requests /\ Become(h, q) /\ TypeOK
    BY <1>0 DEF Typed
  <2> HIDE DEF q
  <2>2. req' \in [Handlers -> Requests] /\ req'[h] = q
        /\ \A g \in Handlers : g # h => req'[g] = req[g]
    BY <2>1, Becoming
  <2> QED
    BY <2>2 DEF q
<1>2. req'[h].pc = step /\ req'[h].order = o /\ step # "create"
  BY <1>0, <1>1
<1>3. TypedSlot(h)'
  BY <1>2 DEF TypedSlot
<1>4. ASSUME NEW g \in Handlers, g # h PROVE TypedSlot(g)'
  BY <1>1, <1>4 DEF Typed, TypedSlot
<1> QED
  BY <1>1, <1>3, <1>4

\* A slot that goes on and writes a line of an order that exists, if any.
LEMMA MovedOn ==
    ASSUME Typed, NEW h \in Handlers, NEW step \in Steps \ {"create"}, NEW held \in Int,
           req[h].pc \notin {"idle", "create"},
           req' = [req EXCEPT ![h].pc = step, ![h].held = held],
           UNCHANGED <<owner, doc, stock, cache>>,
           line' \in [Details -> OrderDetail \cup {None}],
           \A d \in Details : line'[d] # None => owner[line'[d].order] # None
    PROVE  Typed'
<1>1. Goes(h, step, held)
  BY Going DEF Typed
<1>2. req' \in [Handlers -> Requests] /\ \A g \in Handlers : TypedSlot(g)'
  BY <1>1, TypedGoing DEF Goes
<1> QED
  BY <1>2 DEF Typed, TypeOK, TypedSlot

\* A step of PATCH order/cart keeps the types.
LEMMA TypedUpdate ==
    ASSUME Typed, NEW h \in Handlers, Update(h)
    PROVE  Typed'
<1> USE CartAssumption, RequestFields DEF CartConstants
<1>a. /\ "create" \in Steps /\ "add" \in Steps /\ "minus" \in Steps
      /\ "compare" \in Steps /\ "upsert" \in Steps /\ "insert" \in Steps
      /\ "remove" \in Steps /\ "total" \in Steps
  BY DEF Steps, Choosing, Writing, Counting
<1>b. \A o \in Orders, p \in Products : \A d \in LinesOf(o, p) :
        /\ d \in Details /\ line[d] \in OrderDetail
        /\ line[d].order = o /\ line[d].product = p /\ line[d].quantity \in Int
  BY DEF LinesOf, Typed, TypeOK, OrderDetail
<1>c. req[h].pc \notin {"idle", "create"} =>
        /\ req[h] \in InProgress /\ req[h].order \in Orders /\ req[h].product \in Products
        /\ owner[req[h].order] # None /\ req[h].change \in Int
  BY DEF Typed, TypeOK, TypedSlot
<1>1. ASSUME NEW u \in Customers, NEW p \in Products, NEW change \in {1, -1},
             FindCart(h, u, p, change)
      PROVE  Typed'
  <2>1. PICK o \in CartsOf(u) : Become(h, Request(Step(change), u, o, p, change, 0))
    BY <1>1 DEF FindCart, Begin
  <2>2. o \in Orders /\ owner[o] # None /\ Step(change) \in Steps \ {"create"}
    BY <1>a DEF CartsOf, Step
  <2>3. UNCHANGED <<owner, doc, line, stock, cache>>
    BY <1>1 DEF FindCart
  <2>4. req' \in [Handlers -> Requests] /\ \A g \in Handlers : TypedSlot(g)'
    BY <2>1, <2>2, <2>3, TypedBegun DEF Typed, TypeOK
  <2> QED
    BY <2>3, <2>4 DEF Typed, TypeOK, TypedSlot
<1>2. ASSUME NEW u \in Customers, NEW p \in Products, NEW change \in {1, -1},
             NoCart(h, u, p, change)
      PROVE  Typed'
  <2>1. Become(h, Request("create", u, None, p, change, 0))
        /\ UNCHANGED <<owner, doc, line, stock, cache>>
    BY <1>2 DEF NoCart, Begin
  <2>2. /\ req' \in [Handlers -> Requests]
        /\ req'[h] = Request("create", u, None, p, change, 0)
        /\ \A g \in Handlers : g # h => req'[g] = req[g]
    BY <1>a, <2>1, NewRequest, Becoming DEF Typed
  <2>3. req'[h].pc = "create" /\ req'[h].owner = u
    BY <1>a, <2>2, NewRequest
  <2>4. \A g \in Handlers : TypedSlot(g)'
    BY <2>1, <2>2, <2>3 DEF Typed, TypedSlot
  <2> QED
    BY <2>1, <2>2, <2>4 DEF Typed, TypeOK, TypedSlot
<1>3. ASSUME NEW o \in Orders, CreateCart(h, o) PROVE Typed'
  <2>1. /\ req[h] \in InProgress /\ owner[o] = None /\ req[h].owner \in Customers
        /\ owner' = [owner EXCEPT ![o] = req[h].owner]
        /\ doc' = [doc EXCEPT ![o] = NewOrder]
        /\ UNCHANGED <<line, stock, cache>>
        /\ Become(h, Request(Step(req[h].change), req[h].owner, o, req[h].product,
                             req[h].change, 0))
    BY <1>3 DEF CreateCart, At, Typed, TypeOK, TypedSlot
  <2>2. /\ req[h].product \in Products /\ req[h].change \in Int
        /\ Step(req[h].change) \in Steps \ {"create"}
    BY <1>a, <2>1 DEF InProgress, Step
  <2>3. /\ owner' \in [Orders -> Customers \cup {None}] /\ owner'[o] # None
        /\ \A e \in Orders : owner[e] # None => owner'[e] # None
    BY <2>1 DEF Typed, TypeOK
  <2>4. req' \in [Handlers -> Requests] /\ \A g \in Handlers : TypedSlot(g)'
    BY <2>1, <2>2, <2>3, TypedBegun
  <2>5. NewOrder \in Doc
    BY DEF NewOrder, Doc, OrderStatuses, PaymentStatuses
  <2>6. /\ line \in [Details -> OrderDetail \cup {None}]
        /\ \A d \in Details : line[d] # None =>
                line[d].order \in Orders /\ owner'[line[d].order] # None
    BY <2>3 DEF Typed, TypeOK, OrderDetail
  <2>7. doc' \in [Orders -> Doc] /\ stock' \in [Products -> Int]
    BY <2>1, <2>5 DEF Typed, TypeOK
  <2> QED
    BY <2>1, <2>3, <2>4, <2>6, <2>7 DEF Typed, TypeOK, TypedSlot
<1>5. ASSUME NEW step \in Steps \ {"create"}, NEW held \in Int,
             req[h].pc \notin {"idle", "create"},
             req' = [req EXCEPT ![h].pc = step, ![h].held = held],
             UNCHANGED <<owner, doc, line, stock, cache>>
      PROVE  Typed'
  BY <1>5, MovedOn DEF Typed, TypeOK
<1>6. ASSUME Finish(h), UNCHANGED <<owner, doc, line, stock, cache>> PROVE Typed'
  BY <1>6, TypedDone DEF Typed, TypeOK
<1>7. CASE AddRead(h)
  <2>1. PICK quantity \in Int :
            req' = [req EXCEPT ![h].pc = "compare", ![h].held = quantity]
    <3>1. req[h].order \in Orders /\ req[h].product \in Products
      BY <1>7, <1>c DEF AddRead, At
    <3>2. \A d \in LinesOf(req[h].order, req[h].product) : line[d].quantity \in Int
      BY <1>b, <3>1
    <3>3. PICK quantity \in
            IF LinesOf(req[h].order, req[h].product) = {} THEN {0}
            ELSE {line[d].quantity : d \in LinesOf(req[h].order, req[h].product)} :
                req' = [req EXCEPT ![h].pc = "compare", ![h].held = quantity]
      BY <1>7 DEF AddRead
    <3>4. quantity \in Int
      BY <3>2
    <3> QED
      BY <3>3, <3>4
  <2>2. UNCHANGED <<owner, doc, line, stock, cache>> /\ req[h].pc = "add"
    BY <1>7 DEF AddRead, At
  <2> QED
    BY <1>5, <1>a, <2>1, <2>2
<1>8. CASE AddCompare(h) \/ MinusMissing(h) \/ MinusRead(h) \/ NoLineFound(h)
  <2>1. UNCHANGED <<owner, doc, line, stock, cache>> /\ req[h].pc \notin {"idle", "create"}
    BY <1>8 DEF AddCompare, MinusMissing, MinusRead, NoLineFound, At
  <2>2. \/ Finish(h)
        \/ \E step \in {"upsert", "remove", "insert"} : GoTo(h, step)
    BY <1>8 DEF AddCompare, MinusMissing, MinusRead, NoLineFound
  <2>3. CASE Finish(h)
    BY <1>6, <2>1, <2>3
  <2>4. ASSUME NEW step \in {"upsert", "remove", "insert"}, GoTo(h, step)
        PROVE  Typed'
    <3>1. step \in Steps \ {"create"} /\ 0 \in Int
      BY <1>a
    <3>2. req' = [req EXCEPT ![h].pc = step, ![h].held = 0]
      BY <2>4 DEF GoTo
    <3> QED
      BY <1>5, <2>1, <3>1, <3>2
  <2> QED
    BY <2>2, <2>3, <2>4
<1>d. ASSUME req[h].pc \notin {"idle", "create"}, GoTo(h, "total"),
             UNCHANGED <<owner, doc, stock, cache>>,
             line' \in [Details -> OrderDetail \cup {None}],
             \A d \in Details : line'[d] # None => owner[line'[d].order] # None
      PROVE  Typed'
  <2>1. req' = [req EXCEPT ![h].pc = "total", ![h].held = 0]
    BY <1>d DEF GoTo
  <2>2. "total" \in Steps \ {"create"} /\ 0 \in Int
    BY <1>a
  <2> QED
    BY <1>d, <2>1, <2>2, MovedOn
<1>9. CASE IncrementLine(h)
  <2>1. PICK d \in LinesOf(req[h].order, req[h].product) :
            line' = [line EXCEPT ![d].quantity = @ + req[h].change]
    BY <1>9 DEF IncrementLine
  <2>2. d \in Details /\ line[d] \in OrderDetail
    BY <1>9, <1>b, <1>c, <2>1 DEF IncrementLine, At
  <2>3. [line[d] EXCEPT !.quantity = @ + req[h].change] \in OrderDetail
        /\ [line[d] EXCEPT !.quantity = @ + req[h].change].order = line[d].order
    BY <1>9, <1>c, <2>2 DEF IncrementLine, At, OrderDetail
  <2>4. /\ line' \in [Details -> OrderDetail \cup {None}]
        /\ \A e \in Details : line'[e] # None => owner[line'[e].order] # None
    BY <2>1, <2>2, <2>3 DEF Typed, TypeOK
  <2> QED
    BY <1>9, <1>d, <2>4 DEF IncrementLine, At
<1>10. ASSUME NEW d \in Details, InsertLine(h, d) PROVE Typed'
  <2>1. [order |-> req[h].order, product |-> req[h].product, quantity |-> req[h].change]
            \in OrderDetail
    BY <1>10, <1>c DEF InsertLine, At, OrderDetail
  <2>2. /\ line' \in [Details -> OrderDetail \cup {None}]
        /\ \A e \in Details : line'[e] # None => owner[line'[e].order] # None
    BY <1>10, <1>c, <2>1 DEF InsertLine, At, Typed, TypeOK
  <2> QED
    BY <1>10, <1>d, <2>2 DEF InsertLine, At
<1>11. CASE RemoveLine(h)
  <2>1. \/ line' = line
        \/ \E d \in Details : line' = [line EXCEPT ![d] = None]
    BY <1>11 DEF RemoveLine, LinesOf
  <2>2. /\ line' \in [Details -> OrderDetail \cup {None}]
        /\ \A e \in Details : line'[e] # None => owner[line'[e].order] # None
    BY <2>1 DEF Typed, TypeOK
  <2> QED
    BY <1>11, <1>d, <2>2 DEF RemoveLine, At
<1>12. CASE AddToTotal(h)
  <2>1. Finish(h) /\ UNCHANGED <<owner, line, stock, cache>> /\ req[h].pc = "total"
    BY <1>12 DEF AddToTotal, At
  <2>2. req[h].change * Price[req[h].product] \in Int
    BY <1>c, <2>1
  <2>3. doc' \in [Orders -> Doc]
    <3>1. PICK o \in Orders : o = req[h].order
      BY <1>c, <2>1
    <3>2. [doc[o] EXCEPT !.total = @ + req[h].change * Price[req[h].product]] \in Doc
      BY <2>2 DEF Typed, TypeOK, Doc
    <3>3. doc' = [doc EXCEPT ![o].total = @ + req[h].change * Price[req[h].product]]
      BY <1>12, <3>1 DEF AddToTotal
    <3> QED
      BY <3>2, <3>3 DEF Typed, TypeOK
  <2> QED
    BY <2>1, <2>3, TypedDone DEF Typed, TypeOK
<1> QED
  BY <1>1, <1>2, <1>3, <1>7, <1>8, <1>9, <1>10, <1>11, <1>12 DEF Update

\* A step of DELETE order/cart/detail keeps the types.
LEMMA TypedDelete ==
    ASSUME Typed, NEW h \in Handlers, Delete(h)
    PROVE  Typed'
<1> USE CartAssumption, RequestFields DEF CartConstants
<1>1. ASSUME NEW d \in Details, DeleteLine(h, d) PROVE Typed'
  <2>1. /\ line[d] \in OrderDetail /\ owner[line[d].order] # None
        /\ line[d].order \in Orders /\ line[d].product \in Products
        /\ -line[d].quantity \in Int
    BY <1>1 DEF DeleteLine, Typed, TypeOK, OrderDetail
  <2>2. /\ Become(h, Request("uncount", None, line[d].order, line[d].product,
                             -line[d].quantity, 0))
        /\ UNCHANGED <<owner, doc, stock, cache>> /\ line' = [line EXCEPT ![d] = None]
    BY <1>1 DEF DeleteLine, Begin
  <2>3. "uncount" \in Steps \ {"create"}
    BY DEF Steps, Counting
  <2>4. owner \in [Orders -> Customers \cup {None}]
    BY DEF Typed, TypeOK
  <2>5. req' \in [Handlers -> Requests] /\ \A g \in Handlers : TypedSlot(g)'
    BY <2>1, <2>2, <2>3, <2>4, TypedBegun
  <2>6. /\ line' \in [Details -> OrderDetail \cup {None}]
        /\ \A e \in Details : line'[e] # None => owner'[line'[e].order] # None
    BY <2>2 DEF Typed, TypeOK
  <2> QED
    BY <2>2, <2>5, <2>6 DEF Typed, TypeOK, TypedSlot
<1>2. CASE Uncount(h)
  <2>1. /\ req[h] \in InProgress /\ req[h].order \in Orders
        /\ req[h].product \in Products /\ req[h].change \in Int
    BY <1>2 DEF Uncount, At, Typed, TypeOK, TypedSlot
  <2>2. Finish(h) /\ UNCHANGED <<owner, line, stock, cache>>
    BY <1>2 DEF Uncount
  <2>3. PICK o \in Orders : o = req[h].order
    BY <2>1
  <2>4. PICK amount \in Int : amount = req[h].change * Price[req[h].product]
    BY <2>1
  <2>5. [doc[o] EXCEPT !.total = IF doc[o].status = "CART" THEN @ + amount ELSE @] \in Doc
    BY <2>4 DEF Typed, TypeOK, Doc
  <2>6. doc' = [doc EXCEPT ![o].total =
                    IF doc[o].status = "CART" THEN @ + amount ELSE @]
    BY <1>2, <2>3, <2>4 DEF Uncount
  <2>7. doc' \in [Orders -> Doc]
    BY <2>5, <2>6 DEF Typed, TypeOK
  <2> QED
    BY <2>2, <2>7, TypedDone DEF Typed, TypeOK
<1> QED
  BY <1>1, <1>2 DEF Delete

LEMMA TypedStep == Typed /\ [Next]_vars => Typed'
<1> SUFFICES ASSUME Typed, [Next]_vars PROVE Typed'
  OBVIOUS
<1>1. ASSUME NEW h \in Handlers, Update(h) \/ Delete(h) PROVE Typed'
  BY <1>1, TypedUpdate, TypedDelete
<1>2. CASE Environment
  <2>1. PICK o \in Orders : Place(o) \/ Confirm(o) \/ Rollback(o)
    BY <1>2 DEF Environment
  <2>2. PICK d \in Doc : doc' = [doc EXCEPT ![o] = d]
    <3>1. CASE Rollback(o)
      BY <3>1 DEF Rollback, Typed, TypeOK
    <3>2. CASE Place(o) \/ Confirm(o)
      <4>1. PICK status \in OrderStatuses : doc' = [doc EXCEPT ![o].status = status]
        BY <3>2 DEF Place, Confirm, OrderStatuses
      <4>2. [doc[o] EXCEPT !.status = status] \in Doc
        BY DEF Typed, TypeOK, Doc
      <4> QED
        BY <4>1, <4>2
    <3> QED
      BY <2>1, <3>1, <3>2
  <2>3. doc' \in [Orders -> Doc] /\ cache' \in [Orders -> Doc \cup {None}]
    BY <2>1, <2>2 DEF Place, Confirm, Rollback, Typed, TypeOK
  <2>4. UNCHANGED <<owner, line, stock, req>>
    BY <2>1 DEF Place, Confirm, Rollback
  <2> QED
    BY <2>3, <2>4 DEF Typed, TypeOK, TypedSlot
<1>3. CASE Crash
  BY <1>3, RequestFields DEF Crash, Typed, TypeOK, TypedSlot
<1>4. CASE UNCHANGED vars
  BY <1>4 DEF vars, Typed, TypeOK, TypedSlot
<1> QED
  BY <1>1, <1>2, <1>3, <1>4 DEF Next, Serve

LEMMA TypedInit == Init => Typed
<1> SUFFICES ASSUME Init PROVE Typed
  OBVIOUS
<1>1. NewOrder \in Doc
  BY DEF NewOrder, Doc, OrderStatuses, PaymentStatuses
<1>2. stock \in [Products -> Int]
  BY CartAssumption DEF CartConstants, Init
<1> QED
  BY <1>1, <1>2, RequestFields DEF Init, Typed, TypeOK, TypedSlot

\* The steps with history are steps of the cart.
LEMMA PlainStep == [HNext]_hvars => [Next]_vars
BY DEF HNext, hvars, Next

LEMMA TypedAlways == HSpec => []Typed
<1>1. HInit => Typed
  BY TypedInit DEF HInit
<1>2. Typed /\ [HNext]_hvars => Typed'
  BY PlainStep, TypedStep
<1> QED
  BY <1>1, <1>2, PTL DEF HSpec

\* Documents and requests are well typed, and every line and every request past
\* the lookup of the cart is of an order that exists
\* (order.controller.ts:57-103 and 127-147).
THEOREM TypeCorrect == HSpec => []TypeOK
BY TypedAlways, PTL DEF Typed

-----------------------------------------------------------------------------
(* Lines *)

\* Request h is about product p of order o.
About(h, o, p) == req[h].order = o /\ req[h].product = p

\* The unit a request adds or takes, before it found a line.
Chosen(h) ==
    /\ req[h].pc = "create" => req[h].change \in {1, -1}
    /\ req[h].pc = "add" => req[h].change = 1
    /\ req[h].pc = "minus" => req[h].change = -1

\* What h found of the lines of its product still holds when it relies on it; of
\* the stock only where that stands still.
Sound(still, h, o, p) ==
    /\ req[h].pc = "compare" =>
        /\ req[h].change = 1
        /\ LinesOf(o, p) = {} => req[h].held = 0
        /\ \A d \in LinesOf(o, p) : line[d].quantity = req[h].held
    /\ req[h].pc = "upsert" =>
        \/ /\ req[h].change = 1 /\ (still => 1 <= stock[p])
           /\ \A d \in LinesOf(o, p) : still => line[d].quantity + 1 <= stock[p]
        \/ /\ req[h].change = -1 /\ LinesOf(o, p) # {}
           /\ \A d \in LinesOf(o, p) : line[d].quantity >= 2
    /\ req[h].pc = "insert" =>
        req[h].change = 1 /\ LinesOf(o, p) = {} /\ (still => 1 <= stock[p])
    /\ req[h].pc = "remove" =>
        /\ req[h].change = -1 /\ LinesOf(o, p) # {}
        /\ \A d \in LinesOf(o, p) : line[d].quantity = 1

\* One line, with a quantity the stock covers where it stands still.
Kept(still, o, p) ==
    /\ \A d, e \in LinesOf(o, p) : d = e
    /\ \A d \in LinesOf(o, p) :
        1 <= line[d].quantity /\ (still => line[d].quantity <= stock[p])

Relied(still, o, p) == \A h \in Handlers : About(h, o, p) => Sound(still, h, o, p)

\* Inductive: every line is kept, and every request that relies on what it found
\* of it still can.
LinesKept(still) ==
    /\ \A h \in Handlers : Chosen(h)
    /\ \A o \in Orders \ raced, p \in Products : Kept(still, o, p) /\ Relied(still, o, p)

Others(h) == \A g \in Handlers : g # h => req'[g] = req[g]

LinesSame(o, p) ==
    /\ LinesOf(o, p)' = LinesOf(o, p)
    /\ \A d \in LinesOf(o, p) : line'[d] = line[d]

\* No line of product p changes, and slot h goes on soundly.
LEMMA LinesLeft ==
    ASSUME NEW still, NEW o \in Orders, NEW p \in Products, NEW h \in Handlers,
           Kept(still, o, p), Relied(still, o, p), LinesSame(o, p),
           stock' = stock, Others(h),
           About(h, o, p)' => Sound(still, h, o, p)'
    PROVE  Kept(still, o, p)' /\ Relied(still, o, p)'
<1>1. Kept(still, o, p)'
  BY DEF Kept, LinesSame
<1>2. ASSUME NEW g \in Handlers, g # h, About(g, o, p)' PROVE Sound(still, g, o, p)'
  <2>1. Sound(still, g, o, p) /\ req'[g] = req[g]
    BY <1>2 DEF Relied, Others, About
  <2> QED
    BY <2>1 DEF Sound, LinesSame
<1> QED
  BY <1>1, <1>2 DEF Relied

\* A line of product p is written, and no other request relied on it.
LEMMA LinesWritten ==
    ASSUME NEW still, NEW o \in Orders, NEW p \in Products, NEW h \in Handlers,
           \/ LinesOf(o, p)' # LinesOf(o, p)
           \/ {line[d] : d \in LinesOf(o, p)} # {line'[d] : d \in LinesOf(o, p)'},
           Record, o \notin raced', Others(h), req'[h].pc \notin Relying
    PROVE  Relied(still, o, p)'
<1>1. ~Overtaken(o)
  BY DEF Record
<1>2. ASSUME NEW g \in Handlers, About(g, o, p)' PROVE req'[g].pc \notin Relying
  BY <1>1, <1>2 DEF Overtaken, About, Others
<1> QED
  BY <1>2 DEF Relied, Sound, Relying, Writing

LEMMA Incremented ==
    ASSUME NEW still, Typed, LinesKept(still), NEW h \in Handlers, IncrementLine(h), Record,
           NEW o \in Orders \ raced', NEW p \in Products
    PROVE  Kept(still, o, p)' /\ Relied(still, o, p)'
<1>1. /\ req[h].order \in Orders /\ req[h].product \in Products
      /\ req[h].change \in Int /\ req[h].pc = "upsert"
  BY RequestFields DEF IncrementLine, At, Typed, TypeOK, TypedSlot
<1>2. PICK d \in LinesOf(req[h].order, req[h].product) :
            line' = [line EXCEPT ![d].quantity = @ + req[h].change]
  BY DEF IncrementLine
<1>3. d \in Details /\ line[d] \in OrderDetail /\ line[d] # None
      /\ line[d].order = req[h].order /\ line[d].product = req[h].product
  BY <1>2 DEF LinesOf, Typed, TypeOK
<1>4. /\ \A e \in Details : e # d => line'[e] = line[e]
      /\ line'[d] \in OrderDetail
      /\ line'[d].order = line[d].order /\ line'[d].product = line[d].product
      /\ line'[d].quantity = line[d].quantity + req[h].change
  BY <1>1, <1>2, <1>3 DEF Typed, TypeOK, OrderDetail
<1>5. line'[d] # None
  BY <1>4, CartAssumption DEF CartConstants
<1>6. Goes(h, "total", 0) /\ Others(h) /\ stock' = stock
  <2>1. req' = [req EXCEPT ![h].pc = "total", ![h].held = 0] /\ stock' = stock
    BY DEF IncrementLine, GoTo
  <2>2. "total" \in Steps /\ 0 \in Int /\ req[h].pc # "idle"
    BY <1>1 DEF Steps, Counting
  <2>3. Goes(h, "total", 0)
    BY <2>1, <2>2, Going DEF Typed
  <2> QED
    BY <2>1, <2>3 DEF Goes, Others
<1>7. Kept(still, o, p) /\ Relied(still, o, p)
  BY DEF LinesKept, Record
<1>8. CASE About(h, o, p)
  <2>1. LinesOf(o, p)' = LinesOf(o, p) /\ d \in LinesOf(o, p)
    BY <1>2, <1>3, <1>4, <1>5, <1>8 DEF About, LinesOf
  <2>2. LinesOf(o, p) = {d}
    BY <1>7, <2>1 DEF Kept
  <2>3. /\ req[h].change \in {1, -1}
        /\ 1 <= line'[d].quantity /\ (still => line'[d].quantity <= stock[p])
    BY <1>1, <1>3, <1>4, <1>7, <1>8, <2>1 DEF Kept, Relied, Sound, OrderDetail, Typed, TypeOK
  <2>4. Kept(still, o, p)'
    BY <1>6, <2>1, <2>2, <2>3 DEF Kept
  <2>5. line'[d] # line[d]
    BY <1>3, <1>4, <2>3 DEF OrderDetail
  <2>6. {line[e] : e \in LinesOf(o, p)} # {line'[e] : e \in LinesOf(o, p)'}
    BY <2>1, <2>2, <2>5
  <2>7. req'[h].pc \notin Relying
    BY <1>6 DEF Goes, Relying, Writing
  <2> QED
    BY <1>6, <2>4, <2>6, <2>7, LinesWritten
<1>9. CASE ~About(h, o, p)
  <2>1. LinesSame(o, p)
    BY <1>3, <1>4, <1>9 DEF LinesSame, LinesOf, About
  <2>2. ~About(h, o, p)'
    BY <1>6, <1>9 DEF About, Goes
  <2> QED
    BY <1>6, <1>7, <2>1, <2>2, LinesLeft
<1> QED
  BY <1>8, <1>9

LEMMA Inserted ==
    ASSUME NEW still, Typed, LinesKept(still), NEW h \in Handlers, NEW d \in Details,
           InsertLine(h, d),
           Record, NEW o \in Orders \ raced', NEW p \in Products
    PROVE  Kept(still, o, p)' /\ Relied(still, o, p)'
<1>1. /\ req[h].order \in Orders /\ req[h].product \in Products
      /\ req[h].change \in Int /\ req[h].pc = "insert"
  BY RequestFields DEF InsertLine, At, Typed, TypeOK, TypedSlot
<1>2. /\ line[d] = None
      /\ \A e \in Details : e # d => line'[e] = line[e]
      /\ line'[d] \in OrderDetail
      /\ line'[d].order = req[h].order /\ line'[d].product = req[h].product
      /\ line'[d].quantity = req[h].change
  BY <1>1 DEF InsertLine, Typed, TypeOK, OrderDetail
<1>3. line'[d] # None
  BY <1>2, CartAssumption DEF CartConstants
<1>4. Goes(h, "total", 0) /\ Others(h) /\ stock' = stock
  <2>1. req' = [req EXCEPT ![h].pc = "total", ![h].held = 0] /\ stock' = stock
    BY DEF InsertLine, GoTo
  <2>2. "total" \in Steps /\ 0 \in Int /\ req[h].pc # "idle"
    BY <1>1 DEF Steps, Counting
  <2>3. Goes(h, "total", 0)
    BY <2>1, <2>2, Going DEF Typed
  <2> QED
    BY <2>1, <2>3 DEF Goes, Others
<1>5. Kept(still, o, p) /\ Relied(still, o, p)
  BY DEF LinesKept, Record
<1>6. CASE About(h, o, p)
  <2>1. LinesOf(o, p) = {} /\ req[h].change = 1 /\ (still => 1 <= stock[p])
    BY <1>1, <1>5, <1>6 DEF Relied, Sound
  <2>2. LinesOf(o, p)' = {d}
    BY <1>2, <1>3, <1>6, <2>1 DEF About, LinesOf
  <2>3. Kept(still, o, p)'
    BY <1>2, <1>4, <2>1, <2>2 DEF Kept
  <2>4. req'[h].pc \notin Relying
    BY <1>4 DEF Goes, Relying, Writing
  <2> QED
    BY <1>4, <2>1, <2>2, <2>3, <2>4, LinesWritten
<1>7. CASE ~About(h, o, p)
  <2>1. LinesSame(o, p)
    BY <1>2, <1>7 DEF LinesSame, LinesOf, About
  <2>2. ~About(h, o, p)'
    BY <1>4, <1>7 DEF About, Goes
  <2> QED
    BY <1>4, <1>5, <2>1, <2>2, LinesLeft
<1> QED
  BY <1>6, <1>7

\* A line goes: of product p of order o, or of another.
LEMMA Removed ==
    ASSUME NEW still, Typed, LinesKept(still), NEW h \in Handlers, NEW d \in Details,
           line[d] # None,
           line' = [line EXCEPT ![d] = None], stock' = stock, Others(h),
           req'[h].pc \in Counting, Record, NEW o \in Orders \ raced', NEW p \in Products
    PROVE  Kept(still, o, p)' /\ Relied(still, o, p)'
<1>1. LinesOf(o, p)' = LinesOf(o, p) \ {d}
      /\ \A e \in LinesOf(o, p)' : line'[e] = line[e]
  BY CartAssumption DEF CartConstants, LinesOf, Typed, TypeOK
<1>2. Kept(still, o, p) /\ Relied(still, o, p)
  BY DEF LinesKept, Record
<1>3. Kept(still, o, p)'
  BY <1>1, <1>2 DEF Kept
<1>4. CASE d \in LinesOf(o, p)
  <2>1. LinesOf(o, p)' # LinesOf(o, p) /\ req'[h].pc \notin Relying
    BY <1>1, <1>4 DEF Counting, Relying, Writing
  <2> QED
    BY <1>3, <2>1, LinesWritten
<1>5. CASE d \notin LinesOf(o, p)
  <2>1. LinesSame(o, p) /\ Sound(still, h, o, p)'
    BY <1>1, <1>5 DEF LinesSame, Sound, Counting
  <2> QED
    BY <1>2, <2>1, LinesLeft
<1> QED
  BY <1>4, <1>5

\* A slot that goes on in its request.
LEMMA WentOn ==
    ASSUME Typed, NEW h \in Handlers, req[h].pc # "idle", NEW step \in Steps,
           NEW held \in Int, req' = [req EXCEPT ![h].pc = step, ![h].held = held]
    PROVE  Goes(h, step, held) /\ Others(h)
<1>1. Goes(h, step, held)
  BY Going DEF Typed
<1> QED
  BY <1>1 DEF Goes, Others

LEMMA GoneTo ==
    ASSUME Typed, NEW h \in Handlers, req[h].pc # "idle", NEW step \in Steps, GoTo(h, step)
    PROVE  Goes(h, step, 0) /\ Others(h)
<1>1. req' = [req EXCEPT ![h].pc = step, ![h].held = 0] /\ 0 \in Int
  BY DEF GoTo
<1> QED
  BY <1>1, WentOn

\* A step of a slot that writes no line.
LEMMA Unwritten ==
    ASSUME NEW still, Typed, LinesKept(still), NEW h \in Handlers, Others(h),
           UNCHANGED <<line, stock>>,
           Record, NEW o \in Orders \ raced', NEW p \in Products,
           (Kept(still, o, p) /\ Relied(still, o, p) /\ About(h, o, p)')
               => Sound(still, h, o, p)'
    PROVE  Kept(still, o, p)' /\ Relied(still, o, p)'
<1>1. Kept(still, o, p) /\ Relied(still, o, p)
  BY DEF LinesKept, Record
<1>2. LinesSame(o, p)
  BY DEF LinesSame, LinesOf
<1> QED
  BY <1>1, <1>2, LinesLeft

\* What PATCH order/cart does to the lines.
LEMMA LinesUpdate ==
    ASSUME NEW still, Typed, LinesKept(still), NEW h \in Handlers, Update(h), Record,
           NEW o \in Orders \ raced', NEW p \in Products
    PROVE  Kept(still, o, p)' /\ Relied(still, o, p)'
<1> USE RequestFields
<1>a. /\ "compare" \in Steps /\ "upsert" \in Steps /\ "insert" \in Steps
      /\ "remove" \in Steps /\ "total" \in Steps /\ "create" \in Steps
      /\ "add" \in Steps /\ "minus" \in Steps
  BY DEF Steps, Choosing, Writing, Counting
<1>1. ASSUME NEW q \in Requests, Become(h, q), UNCHANGED <<line, stock>>,
             q.pc \notin {"compare", "upsert", "insert", "remove"}
      PROVE  Kept(still, o, p)' /\ Relied(still, o, p)'
  <2>1. Others(h) /\ req'[h] = q
    BY <1>1, Becoming DEF Typed, Others
  <2> QED
    BY <1>1, <2>1, Unwritten DEF Sound
<1>2. ASSUME NEW u \in Customers, NEW r \in Products, NEW change \in {1, -1},
             FindCart(h, u, r, change) \/ NoCart(h, u, r, change)
      PROVE  Kept(still, o, p)' /\ Relied(still, o, p)'
  <2>1. PICK pc \in {"add", "minus", "create"}, e \in Orders \cup {None} :
            Become(h, Request(pc, u, e, r, change, 0))
    BY <1>2 DEF FindCart, NoCart, Begin, Step, CartsOf
  <2>2. LET q == Request(pc, u, e, r, change, 0) IN q \in Requests /\ q.pc = pc
    BY <1>a, NewRequest
  <2> QED
    BY <1>1, <1>2, <2>1, <2>2 DEF FindCart, NoCart
<1>3. ASSUME NEW e \in Orders, CreateCart(h, e)
      PROVE  Kept(still, o, p)' /\ Relied(still, o, p)'
  <2>1. req[h] \in InProgress
    BY <1>3 DEF CreateCart, At, Typed, TypeOK
  <2>2. PICK pc \in {"add", "minus"} :
            Become(h, Request(pc, req[h].owner, e, req[h].product, req[h].change, 0))
    BY <1>3 DEF CreateCart, Step
  <2>3. LET q == Request(pc, req[h].owner, e, req[h].product, req[h].change, 0)
        IN  q \in Requests /\ q.pc = pc
    <3>1. /\ req[h].owner \in Customers \cup {None} /\ e \in Orders \cup {None}
          /\ req[h].product \in Products /\ req[h].change \in Int /\ pc \in Steps
      BY <1>a, <2>1 DEF InProgress
    <3> QED
      BY <3>1 DEF Requests, Request, Steps
  <2> QED
    BY <1>1, <1>3, <2>2, <2>3 DEF CreateCart
<1>4. CASE AddRead(h)
  <2>1. /\ req[h].pc = "add" /\ req[h].order \in Orders /\ req[h].product \in Products
        /\ UNCHANGED <<line, stock>>
    BY <1>4 DEF AddRead, At, Typed, TypeOK, TypedSlot
  <2>2. PICK held \in
            IF LinesOf(req[h].order, req[h].product) = {} THEN {0}
            ELSE {line[d].quantity : d \in LinesOf(req[h].order, req[h].product)} :
                req' = [req EXCEPT ![h].pc = "compare", ![h].held = held]
    BY <1>4 DEF AddRead
  <2>3. \A d \in LinesOf(req[h].order, req[h].product) : line[d].quantity \in Int
    BY DEF LinesOf, Typed, TypeOK, OrderDetail
  <2>4. held \in Int
    BY <2>2, <2>3
  <2>5. Goes(h, "compare", held) /\ Others(h)
    BY <1>a, <2>1, <2>2, <2>4, WentOn
  <2>6. ASSUME Kept(still, o, p), About(h, o, p)' PROVE Sound(still, h, o, p)'
    <3>1. /\ req[h].order = o /\ req[h].product = p /\ req[h].change = 1
          /\ req'[h].change = 1 /\ req'[h].pc = "compare" /\ req'[h].held = held
      BY <2>1, <2>5, <2>6 DEF About, Goes, LinesKept, Chosen
    <3>2. LinesOf(o, p)' = LinesOf(o, p) /\ line' = line
      BY <2>1 DEF LinesOf
    <3>3. /\ LinesOf(o, p) = {} => held = 0
          /\ \A d \in LinesOf(o, p) : line[d].quantity = held
      BY <2>2, <2>6, <3>1 DEF Kept
    <3> QED
      BY <3>1, <3>2, <3>3 DEF Sound
  <2> QED
    BY <2>1, <2>5, <2>6, Unwritten
<1>5. CASE Finish(h) /\ UNCHANGED <<line, stock>>
  BY <1>1, <1>5 DEF Finish
<1>6. ASSUME NEW step \in Steps, GoTo(h, step), req[h].pc # "idle",
             UNCHANGED <<line, stock>>,
             (Kept(still, o, p) /\ About(h, o, p) /\ Sound(still, h, o, p)
                /\ Goes(h, step, 0) /\ LinesOf(o, p)' = LinesOf(o, p))
                    => Sound(still, h, o, p)'
      PROVE  Kept(still, o, p)' /\ Relied(still, o, p)'
  <2>1. Goes(h, step, 0) /\ Others(h) /\ LinesOf(o, p)' = LinesOf(o, p)
    BY <1>6, GoneTo DEF LinesOf
  <2>2. About(h, o, p)' => About(h, o, p)
    BY <2>1 DEF Goes, About
  <2> QED
    BY <1>6, <2>1, <2>2, Unwritten DEF Relied
<1>7. CASE AddCompare(h) /\ GoTo(h, "upsert")
  <2>1. /\ req[h].pc = "compare" /\ UNCHANGED <<line, stock>>
        /\ req[h].held + 1 <= stock[req[h].product]
    <3>1. req[h].pc = "compare" /\ UNCHANGED <<line, stock>>
      BY <1>7 DEF AddCompare, At
    <3>2. ~Finish(h)
      <4>1. req'[h].pc = "upsert"
        BY <1>7, <3>1, <1>a, GoneTo DEF Goes
      <4> QED
        BY <4>1, Becoming DEF Finish, Typed
    <3> QED
      BY <1>7, <3>1, <3>2 DEF AddCompare, EnoughLeft
  <2>2. ASSUME Kept(still, o, p), About(h, o, p), Sound(still, h, o, p), Goes(h,
               "upsert", 0),
               LinesOf(o, p)' = LinesOf(o, p)
        PROVE  Sound(still, h, o, p)'
    <3>1. \A d \in LinesOf(o, p) :
            line[d].quantity + 1 <= stock[p] /\ 1 <= line[d].quantity
                /\ line[d].quantity \in Int
      BY <2>1, <2>2 DEF Kept, About, Sound, LinesOf, Typed, TypeOK, OrderDetail
    <3>2. 1 <= stock[p]
      BY <2>1, <2>2, <3>1 DEF About, Sound, Typed, TypeOK
    <3> QED
      BY <2>1, <2>2, <3>1, <3>2 DEF Sound, Goes
  <2> QED
    BY <1>6, <1>7, <1>a, <2>1, <2>2
<1>8. CASE MinusRead(h)
  <2>1. PICK d \in LinesOf(req[h].order, req[h].product) :
            GoTo(h, IF LastUnit(line[d].quantity) THEN "remove" ELSE "upsert")
    BY <1>8 DEF MinusRead
  <2>2. req[h].pc = "minus" /\ UNCHANGED <<line, stock>>
    BY <1>8 DEF MinusRead, At
  <2>3. CASE LastUnit(line[d].quantity)
    <3>1. GoTo(h, "remove")
      BY <2>1, <2>3
    <3>2. ASSUME Kept(still, o, p), About(h, o, p), Goes(h, "remove", 0),
                 LinesOf(o, p)' = LinesOf(o, p)
          PROVE  Sound(still, h, o, p)'
      <4>1. LinesOf(o, p) = {d} /\ line[d].quantity \in Int /\ 1 <= line[d].quantity
        BY <2>1, <3>2 DEF Kept, About, LinesOf, Typed, TypeOK, OrderDetail
      <4>2. line[d].quantity = 1 /\ req'[h].change = -1 /\ line' = line
        BY <2>2, <2>3, <3>2, <4>1 DEF LastUnit, Goes, LinesKept, Chosen
      <4> QED
        BY <3>2, <4>1, <4>2 DEF Sound, Goes
    <3> QED
      BY <1>6, <1>a, <2>2, <3>1, <3>2
  <2>4. CASE ~LastUnit(line[d].quantity)
    <3>1. GoTo(h, "upsert")
      BY <2>1, <2>4
    <3>2. ASSUME Kept(still, o, p), About(h, o, p), Goes(h, "upsert", 0),
                 LinesOf(o, p)' = LinesOf(o, p)
          PROVE  Sound(still, h, o, p)'
      <4>1. LinesOf(o, p) = {d} /\ line[d].quantity \in Int
        BY <2>1, <3>2 DEF Kept, About, LinesOf, Typed, TypeOK, OrderDetail
      <4>2. line[d].quantity >= 2 /\ req'[h].change = -1 /\ line' = line
        BY <2>2, <2>4, <3>2, <4>1 DEF LastUnit, Goes, LinesKept, Chosen
      <4> QED
        BY <3>2, <4>1, <4>2 DEF Sound, Goes
    <3> QED
      BY <1>6, <1>a, <2>2, <3>1, <3>2
  <2> QED
    BY <2>3, <2>4
<1>9. CASE NoLineFound(h)
  <2>1. /\ req[h].pc = "upsert" /\ UNCHANGED <<line, stock>> /\ GoTo(h, "insert")
        /\ LinesOf(req[h].order, req[h].product) = {}
    BY <1>9 DEF NoLineFound, At
  <2>2. ASSUME About(h, o, p), Sound(still, h, o, p), Goes(h, "insert", 0),
               LinesOf(o, p)' = LinesOf(o, p)
        PROVE  Sound(still, h, o, p)'
    BY <2>1, <2>2 DEF About, Sound, Goes
  <2> QED
    BY <1>6, <1>a, <2>1, <2>2
<1>10. CASE RemoveLine(h)
  <2>1. req[h].pc = "remove" /\ stock' = stock /\ GoTo(h, "total")
    BY <1>10 DEF RemoveLine, At
  <2>2. Goes(h, "total", 0) /\ Others(h)
    BY <1>a, <2>1, GoneTo
  <2>3. CASE line' = line
    <3>1. Sound(still, h, o, p)'
      BY <2>2 DEF Goes, Sound
    <3> QED
      BY <1>6, <1>a, <2>1, <2>3, <3>1
  <2>4. CASE line' # line
    <3>1. PICK d \in LinesOf(req[h].order, req[h].product) :
                line' = [line EXCEPT ![d] = None]
      BY <1>10, <2>4 DEF RemoveLine
    <3>2. d \in Details /\ line[d] # None /\ req'[h].pc \in Counting
      BY <2>2, <3>1 DEF LinesOf, Goes, Counting
    <3> QED
      BY <2>1, <2>2, <3>1, <3>2, Removed
  <2> QED
    BY <2>3, <2>4
<1>11. CASE AddCompare(h) \/ MinusMissing(h) \/ AddToTotal(h)
  BY <1>5, <1>7, <1>11 DEF AddCompare, MinusMissing, AddToTotal
<1> QED
  BY <1>2, <1>3, <1>4, <1>8, <1>9, <1>10, <1>11, Incremented, Inserted DEF Update

\* The unit a request adds or takes does not change.
LEMMA ChosenStep ==
    ASSUME Typed, NEW h \in Handlers, Update(h) \/ Delete(h), \A g \in Handlers : Chosen(g)
    PROVE  (\A g \in Handlers : Chosen(g)') /\ Others(h)
<1> USE RequestFields
<1>a. /\ "compare" \in Steps /\ "upsert" \in Steps /\ "insert" \in Steps
      /\ "remove" \in Steps /\ "total" \in Steps /\ "create" \in Steps
      /\ "add" \in Steps /\ "minus" \in Steps /\ "uncount" \in Steps
  BY DEF Steps, Choosing, Writing, Counting
<1> SUFFICES Chosen(h)' /\ Others(h)
  BY DEF Chosen, Others
<1>1. ASSUME NEW q \in Requests, Become(h, q),
             q.pc = "create" => q.change \in {1, -1},
             q.pc = "add" => q.change = 1, q.pc = "minus" => q.change = -1
      PROVE  Chosen(h)' /\ Others(h)
  BY <1>1, Becoming DEF Chosen, Typed, Others
<1>2. CASE Finish(h)
  BY <1>1, <1>2 DEF Finish
<1>3. ASSUME NEW step \in {"compare", "upsert", "insert", "remove", "total"},
             Goes(h, step, req'[h].held)
      PROVE  Chosen(h)' /\ Others(h)
  BY <1>3 DEF Chosen, Goes, Others
<1>4. ASSUME NEW step \in {"upsert", "insert", "remove", "total"},
             GoTo(h, step), req[h].pc # "idle"
      PROVE  Chosen(h)' /\ Others(h)
  <2>1. step \in Steps
    BY <1>a
  <2>2. Goes(h, step, 0)
    BY <1>4, <2>1, GoneTo
  <2> QED
    BY <2>2 DEF Chosen, Goes, Others
<1>5. ASSUME NEW u \in Customers, NEW p \in Products, NEW change \in {1, -1},
             FindCart(h, u, p, change) \/ NoCart(h, u, p, change)
      PROVE  Chosen(h)' /\ Others(h)
  <2>1. PICK pc \in {"add", "minus", "create"}, o \in Orders \cup {None} :
            /\ Become(h, Request(pc, u, o, p, change, 0))
            /\ pc = "create" \/ pc = Step(change)
    BY <1>5 DEF FindCart, NoCart, Begin, Step, CartsOf
  <2>2. LET q == Request(pc, u, o, p, change, 0)
        IN  q \in Requests /\ q.pc = pc /\ q.change = change
    BY <1>a, NewRequest
  <2> QED
    BY <1>1, <2>1, <2>2 DEF Step
<1>6. ASSUME NEW o \in Orders, CreateCart(h, o) PROVE Chosen(h)' /\ Others(h)
  <2>1. /\ req[h] \in InProgress /\ req[h].pc = "create"
        /\ Become(h, Request(Step(req[h].change), req[h].owner, o, req[h].product,
                             req[h].change, 0))
    BY <1>6 DEF CreateCart, At, Typed, TypeOK
  <2>2. PICK pc \in {"add", "minus"}, u \in Customers \cup {None}, p \in Products,
             change \in {1, -1} :
            Become(h, Request(pc, u, o, p, change, 0)) /\ pc = Step(change)
    <3>1. /\ req[h].owner \in Customers \cup {None} /\ req[h].product \in Products
          /\ Step(req[h].change) \in {"add", "minus"} /\ req[h].change \in {1, -1}
      BY <2>1 DEF InProgress, Step, Chosen
    <3> QED
      BY <2>1, <3>1
  <2>3. LET q == Request(pc, u, o, p, change, 0)
        IN  q \in Requests /\ q.pc = pc /\ q.change = change
    BY DEF Request, Requests, Choosing
  <2> QED
    BY <1>1, <2>2, <2>3 DEF Step
<1>7. CASE AddRead(h)
  <2>1. req[h].pc = "add"
    BY <1>7 DEF AddRead, At
  <2>2. \A d \in LinesOf(req[h].order, req[h].product) : line[d].quantity \in Int
    BY DEF LinesOf, Typed, TypeOK, OrderDetail
  <2>3. PICK held \in
            IF LinesOf(req[h].order, req[h].product) = {} THEN {0}
            ELSE {line[d].quantity : d \in LinesOf(req[h].order, req[h].product)} :
                req' = [req EXCEPT ![h].pc = "compare", ![h].held = held]
    BY <1>7 DEF AddRead
  <2>4. held \in Int
    BY <2>2, <2>3
  <2>5. Goes(h, "compare", held)
    BY <1>a, <2>1, <2>3, <2>4, WentOn
  <2> QED
    BY <2>5 DEF Chosen, Goes, Others
<1>8. CASE AddCompare(h) \/ MinusRead(h) \/ IncrementLine(h) \/ NoLineFound(h)
           \/ RemoveLine(h) \/ \E d \in Details : InsertLine(h, d)
  BY <1>2, <1>4, <1>8
     DEF AddCompare, MinusRead, IncrementLine, NoLineFound, RemoveLine, InsertLine, At
<1>9. CASE MinusMissing(h) \/ AddToTotal(h) \/ Uncount(h)
  BY <1>2, <1>9 DEF MinusMissing, AddToTotal, Uncount
<1>10. ASSUME NEW d \in Details, DeleteLine(h, d) PROVE Chosen(h)' /\ Others(h)
  <2>1. PICK o \in Orders \cup {None}, p \in Products, change \in Int :
            Become(h, Request("uncount", None, o, p, change, 0))
    <3>1. /\ line[d].order \in Orders \cup {None} /\ line[d].product \in Products
          /\ -line[d].quantity \in Int
      BY <1>10 DEF DeleteLine, Typed, TypeOK, OrderDetail
    <3> QED
      BY <1>10, <3>1 DEF DeleteLine, Begin
  <2>2. LET q == Request("uncount", None, o, p, change, 0)
        IN  q \in Requests /\ q.pc = "uncount"
    BY DEF Request, Requests, Counting
  <2> QED
    BY <1>1, <2>1, <2>2
<1> QED
  BY <1>5, <1>6, <1>7, <1>8, <1>9, <1>10 DEF Update, Delete

\* A step of one slot keeps the lines.
LEMMA LinesServed ==
    ASSUME NEW still, Typed, LinesKept(still), NEW h \in Handlers,
           Update(h) \/ Delete(h), Record
    PROVE  LinesKept(still)'
<1> USE RequestFields
<1>1. (\A g \in Handlers : Chosen(g)') /\ Others(h)
  BY ChosenStep DEF LinesKept
<1>2. ASSUME NEW o \in Orders \ raced', NEW p \in Products
      PROVE  Kept(still, o, p)' /\ Relied(still, o, p)'
  <2>1. CASE Update(h)
    BY <2>1, LinesUpdate
  <2>2. ASSUME NEW d \in Details, DeleteLine(h, d)
        PROVE  Kept(still, o, p)' /\ Relied(still, o, p)'
    <3>1. /\ line[d] # None /\ line' = [line EXCEPT ![d] = None] /\ stock' = stock
          /\ Become(h, Request("uncount", None, line[d].order, line[d].product,
                               -line[d].quantity, 0))
      BY <2>2 DEF DeleteLine, Begin
    <3>2. req'[h].pc \in Counting
      BY <3>1 DEF Become, Request, Counting, Typed, TypeOK
    <3> QED
      BY <1>1, <3>1, <3>2, Removed
  <2>3. CASE Uncount(h)
    <3>1. req'[h] = Idle /\ UNCHANGED <<line, stock>>
      BY <2>3 DEF Uncount, Finish, Become, Typed, TypeOK
    <3> QED
      BY <1>1, <3>1, Unwritten DEF Sound
  <2> QED
    BY <2>1, <2>2, <2>3 DEF Delete
<1> QED
  BY <1>1, <1>2 DEF LinesKept

\* So does a step that writes none, if the stock stands still or does not count.
LEMMA LinesAside ==
    ASSUME NEW still, LinesKept(still), line' = line, still => stock' = stock,
           raced \subseteq raced', \A h \in Handlers : req'[h] \in {req[h], Idle}
    PROVE  LinesKept(still)'
<1> USE RequestFields
<1>1. \A o \in Orders, p \in Products :
          LinesOf(o, p)' = LinesOf(o, p) /\ (Kept(still, o, p) => Kept(still, o, p)')
  BY DEF LinesOf, Kept
<1>2. ASSUME NEW o \in Orders, NEW p \in Products, Relied(still, o, p)
      PROVE  Relied(still, o, p)'
  BY <1>1, <1>2 DEF Relied, About, Sound
<1>3. \A h \in Handlers : Chosen(h)'
  BY DEF LinesKept, Chosen
<1> QED
  BY <1>1, <1>2, <1>3 DEF LinesKept

LEMMA LinesStep ==
    ASSUME NEW still, Typed, LinesKept(still), [HNext]_hvars
    PROVE  LinesKept(still)'
<1>1. ASSUME NEW h \in Handlers, Update(h) \/ Delete(h), Record PROVE LinesKept(still)'
  BY <1>1, LinesServed
<1>2. CASE Environment /\ Record
  BY <1>2, LinesAside DEF Environment, Place, Confirm, Rollback, Record
<1>3. CASE Crash /\ Record
  BY <1>3, LinesAside DEF Crash, Record
<1>4. CASE UNCHANGED hvars
  BY <1>4, LinesAside DEF hvars, vars, history
<1> QED
  BY <1>1, <1>2, <1>3, <1>4 DEF HNext, Serve

LEMMA LinesAlways == HSpec => []LinesKept(TRUE)
<1>1. HInit => LinesKept(TRUE)
  BY RequestFields
     DEF HInit, Init, LinesKept, Chosen, Kept, Relied, Sound, LinesOf
<1>2. Typed /\ LinesKept(TRUE) /\ [HNext]_hvars => LinesKept(TRUE)'
  BY LinesStep
<1> QED
  BY <1>1, <1>2, TypedAlways, PTL DEF HSpec

\* Where a line of an order that no request raced for lives.
LEMMA LineOf ==
    ASSUME Typed, LinesKept(TRUE), NEW d \in Details, line[d] # None,
           line[d].order \notin raced
    PROVE  1 <= line[d].quantity /\ line[d].quantity <= stock[line[d].product]
<1>1. /\ line[d].order \in Orders \ raced /\ line[d].product \in Products
      /\ d \in LinesOf(line[d].order, line[d].product)
  BY DEF Typed, TypeOK, OrderDetail, LinesOf
<1> QED
  BY <1>1 DEF LinesKept, Kept

\* A line never asks for more than the stock the ADD branch compared it with,
\* unless requests overlapped on it (order.service.ts:217-302).
THEOREM StockCoversLines == HSpec => []LinesWithinStock
<1>1. Typed /\ LinesKept(TRUE) => LinesWithinStock
  BY LineOf DEF LinesWithinStock
<1> QED
  BY <1>1, TypedAlways, LinesAlways, PTL

\* No line is left without units (the MINUS branch deletes the last one), unless
\* requests overlapped on it (order.service.ts:217-302).
THEOREM UnitsOnLines == HSpec => []LinesHaveUnits
<1>1. Typed /\ LinesKept(TRUE) => LinesHaveUnits
  <2> SUFFICES ASSUME Typed, LinesKept(TRUE), NEW d \in Details, line[d] # None,
                      line[d].order \notin raced
               PROVE  line[d].quantity >= 1
    BY DEF LinesHaveUnits
  <2>1. line[d].quantity \in Int /\ 1 <= line[d].quantity
    BY LineOf DEF Typed, TypeOK, OrderDetail
  <2> QED
    BY <2>1
<1> QED
  BY <1>1, TypedAlways, LinesAlways, PTL

\* A set any two members of which are the same has one member at most.
LEMMA AtMostOne ==
    ASSUME NEW S, \A x, y \in S : x = y
    PROVE  Cardinality(S) <= 1
<1>1. CASE S = {}
  BY <1>1, FS_EmptySet
<1>2. ASSUME NEW x \in S PROVE Cardinality(S) <= 1
  <2>1. S = {x}
    BY <1>2
  <2> QED
    BY <2>1, FS_Singleton
<1> QED
  BY <1>1, <1>2

\* A cart has one line for a product (the upsert on order and product), unless
\* requests overlapped on it (order.service.ts:217-302).
THEOREM LinePerProduct == HSpec => []OneLinePerProduct
<1>1. LinesKept(TRUE) => OneLinePerProduct
  BY AtMostOne DEF LinesKept, Kept, OneLinePerProduct
<1> QED
  BY <1>1, LinesAlways, PTL

-----------------------------------------------------------------------------
(* Totals *)

\* What is owed to a total and what a line adds up to are numbers, before a
\* step and after it.
AmountsTyped == \A o \in Orders :
    /\ doc[o].total \in Int
    /\ \A h \in Handlers : Owed(h, o) \in Int
    /\ \A d \in Details : Amount(d, o) \in Int

LEMMA Amounts == Typed => AmountsTyped
<1> SUFFICES ASSUME Typed, NEW o \in Orders
             PROVE  /\ doc[o].total \in Int
                    /\ \A h \in Handlers : Owed(h, o) \in Int
                    /\ \A d \in Details : Amount(d, o) \in Int
  BY DEF AmountsTyped
<1>1. \A p \in Products : Price[p] \in Int
  BY CartAssumption DEF CartConstants
<1>2. \A a, b \in Int : a * b \in Int
  OBVIOUS
<1>3. doc[o].total \in Int
  BY DEF Typed, TypeOK, Doc
<1>4. \A h \in Handlers : Owed(h, o) \in Int
  <2>1. \A h \in Handlers : req[h].pc \in Counting =>
            req[h].change \in Int /\ req[h].product \in Products
    BY RequestFields DEF Typed, TypeOK, Counting
  <2> QED
    BY <1>1, <1>2, <2>1 DEF Owed
<1>5. \A d \in Details : Amount(d, o) \in Int
  BY <1>1, <1>2 DEF Amount, Typed, TypeOK, OrderDetail
<1> QED
  BY <1>3, <1>4, <1>5

LEMMA AmountsNext == Typed' => AmountsTyped'
BY Amounts, PTL

\* A step of one slot changes what is pending by what that slot owes.
LEMMA PendingStep ==
    ASSUME AmountsTyped, AmountsTyped', NEW h \in Handlers, Others(h), NEW o \in Orders
    PROVE  /\ Pending(o) \in Int
           /\ Pending(o)' = Pending(o) - Owed(h, o) + Owed(h, o)'
<1> DEFINE f == [g \in Handlers |-> Owed(g, o)]
           fn == [g \in Handlers |-> Owed(g, o)']
<1>1. \A g \in Handlers : Owed(g, o) \in Int /\ Owed(g, o)' \in Int
  BY DEF AmountsTyped
<1>2. /\ \A g \in Handlers : f[g] \in Int /\ fn[g] \in Int
      /\ \A g \in Handlers \ {h} : f[g] = fn[g]
      /\ f[h] = Owed(h, o) /\ fn[h] = Owed(h, o)'
  BY <1>1 DEF Others, Owed
<1>3. /\ Pending(o) = SumFunctionOnSet(f, Handlers)
      /\ Pending(o)' = SumFunctionOnSet(fn, Handlers)
  BY DEF Pending, SumFunction
<1>4. IsFiniteSet(Handlers)
  BY CartAssumption DEF CartConstants
<1> HIDE DEF f, fn
<1> QED
  BY <1>2, <1>3, <1>4, SumChanged, SumInt

\* A step that writes one line changes what is listed by that line.
LEMMA ListedStep ==
    ASSUME AmountsTyped, AmountsTyped', NEW d \in Details,
           \A e \in Details \ {d} : line'[e] = line[e], NEW o \in Orders
    PROVE  /\ Listed(o) \in Int
           /\ Listed(o)' = Listed(o) - Amount(d, o) + Amount(d, o)'
<1> DEFINE f == [e \in Details |-> Amount(e, o)]
           fn == [e \in Details |-> Amount(e, o)']
<1>1. \A e \in Details : Amount(e, o) \in Int /\ Amount(e, o)' \in Int
  BY DEF AmountsTyped
<1>2. /\ \A e \in Details : f[e] \in Int /\ fn[e] \in Int
      /\ \A e \in Details \ {d} : f[e] = fn[e]
      /\ f[d] = Amount(d, o) /\ fn[d] = Amount(d, o)'
  BY <1>1 DEF Amount
<1>3. /\ Listed(o) = SumFunctionOnSet(f, Details)
      /\ Listed(o)' = SumFunctionOnSet(fn, Details)
  BY DEF Listed, SumFunction
<1>4. IsFiniteSet(Details)
  BY CartAssumption DEF CartConstants
<1> HIDE DEF f, fn
<1> QED
  BY <1>2, <1>3, <1>4, SumChanged, SumInt

LEMMA ListedTyped == ASSUME AmountsTyped, NEW o \in Orders PROVE Listed(o) \in Int
<1> DEFINE f == [e \in Details |-> Amount(e, o)]
<1>1. Listed(o) = SumFunctionOnSet(f, Details) /\ IsFiniteSet(Details)
  BY CartAssumption DEF Listed, SumFunction, CartConstants
<1>2. \A e \in Details : f[e] \in Int
  BY DEF AmountsTyped
<1> HIDE DEF f
<1> QED
  BY <1>1, <1>2, SumInt

LEMMA ListedSame == line' = line => \A o : Listed(o)' = Listed(o)
BY DEF Listed, Amount

\* The total of an order and what is pending is what is listed.
Balanced(o) == doc[o].total + Pending(o) = Listed(o)

\* What the lines gain, the total and what the slot owes to it gain.
LEMMA BalanceKept ==
    ASSUME Typed, Typed', NEW h \in Handlers, Others(h), NEW o \in Orders,
           Balanced(o), NEW gain \in Int, Listed(o)' = Listed(o) + gain,
           doc'[o].total + Owed(h, o)' = doc[o].total + Owed(h, o) + gain
    PROVE  Balanced(o)'
<1>1. AmountsTyped /\ AmountsTyped'
  BY Amounts, AmountsNext
<1>2. Pending(o) \in Int /\ Pending(o)' = Pending(o) - Owed(h, o) + Owed(h, o)'
  BY <1>1, PendingStep
<1>3. /\ doc[o].total \in Int /\ doc'[o].total \in Int
      /\ Owed(h, o) \in Int /\ Owed(h, o)' \in Int /\ Listed(o) \in Int
  BY <1>1, ListedTyped DEF AmountsTyped
<1> QED
  BY <1>2, <1>3 DEF Balanced

\* A step that writes no line and no total, of a slot that owes nothing.
LEMMA BalanceLeft ==
    ASSUME Typed, Typed', NEW h \in Handlers, Others(h), NEW o \in Orders,
           Balanced(o), line' = line, doc'[o].total = doc[o].total,
           req[h].pc \notin Counting, req'[h].pc \notin Counting
    PROVE  Balanced(o)'
<1>1. Owed(h, o) = 0 /\ Owed(h, o)' = 0
  BY DEF Owed
<1>2. Listed(o)' = Listed(o) + 0
  <2>1. Listed(o)' = Listed(o) /\ Listed(o) \in Int
    BY ListedSame, ListedTyped, Amounts
  <2> QED
    BY <2>1
<1>3. doc[o].total \in Int
  BY Amounts DEF AmountsTyped
<1> QED
  BY <1>1, <1>2, <1>3, BalanceKept

LEMMA Distributes ==
    /\ \A a, b, c \in Int : (a + b) * c = a * c + b * c
    /\ \A a, c \in Int : (-a) * c = -(a * c)
OBVIOUS
\* A slot writes a line and owes from then on what it added to it.
LEMMA BalanceWritten ==
    ASSUME Typed, Typed', NEW h \in Handlers, Others(h), NEW d \in Details,
           \A e \in Details \ {d} : line'[e] = line[e], doc' = doc,
           req[h].pc \notin Counting, NEW o \in Orders, Balanced(o),
           Amount(d, o)' = Amount(d, o) + Owed(h, o)'
    PROVE  Balanced(o)'
<1>1. AmountsTyped /\ AmountsTyped'
  BY Amounts, AmountsNext
<1>2. /\ Owed(h, o) = 0 /\ Owed(h, o)' \in Int /\ Amount(d, o) \in Int
      /\ doc[o].total \in Int /\ Amount(d, o)' \in Int
  BY <1>1 DEF Owed, AmountsTyped
<1>3. Listed(o) \in Int /\ Listed(o)' = Listed(o) - Amount(d, o) + Amount(d, o)'
  BY <1>1, ListedStep
<1>4. Listed(o)' = Listed(o) + Owed(h, o)'
  BY <1>2, <1>3
<1>5. doc'[o].total + Owed(h, o)' = doc[o].total + Owed(h, o) + Owed(h, o)'
  BY <1>2
<1>6. PICK gain \in Int : gain = Owed(h, o)'
  BY <1>2
<1> QED
  BY <1>4, <1>5, <1>6, BalanceKept

\* The line of a slot that is about to write the lines of its product.
LEMMA WritingSlot ==
    ASSUME Typed, NEW h \in Handlers, req[h].pc \in Writing, GoTo(h, "total")
    PROVE  /\ Goes(h, "total", 0) /\ Others(h)
           /\ req[h].pc \notin Counting /\ req'[h].pc \in Counting
           /\ req[h].order \in Orders /\ req[h].product \in Products
           /\ req[h].change \in Int
           /\ \A o \in Orders : Owed(h, o)' =
                IF req[h].order = o THEN req[h].change * Price[req[h].product] ELSE 0
<1>1. req[h].pc # "idle" /\ req[h].pc \notin Counting /\ "total" \in Steps
  BY DEF Writing, Counting, Steps
<1>2. Goes(h, "total", 0) /\ Others(h)
  BY <1>1, GoneTo
<1>3. req'[h].pc \in Counting
  BY <1>2 DEF Goes, Counting
<1>4. /\ req[h].order \in Orders /\ req[h].product \in Products
      /\ req[h].change \in Int
  BY <1>1, RequestFields DEF Typed, TypeOK, TypedSlot, Writing
<1>5. \A o \in Orders : Owed(h, o)' =
            IF req[h].order = o THEN req[h].change * Price[req[h].product] ELSE 0
  BY <1>2, <1>3 DEF Owed, Goes
<1> QED
  BY <1>1, <1>2, <1>3, <1>4, <1>5

LEMMA BalanceIncremented ==
    ASSUME Typed, Typed', NEW h \in Handlers, IncrementLine(h),
           NEW o \in Orders, Balanced(o)
    PROVE  Balanced(o)'
<1>1. req[h].pc \in Writing /\ GoTo(h, "total") /\ doc' = doc
  BY DEF IncrementLine, At, Writing
<1>2. PICK d \in LinesOf(req[h].order, req[h].product) :
            line' = [line EXCEPT ![d].quantity = @ + req[h].change]
  BY DEF IncrementLine
<1>3. d \in Details /\ line[d] \in OrderDetail /\ line[d] # None
      /\ line[d].order = req[h].order /\ line[d].product = req[h].product
  BY <1>2 DEF LinesOf, Typed, TypeOK
<1>4. /\ \A e \in Details \ {d} : line'[e] = line[e]
      /\ line'[d] \in OrderDetail
      /\ line'[d].order = line[d].order /\ line'[d].product = line[d].product
      /\ line'[d].quantity = line[d].quantity + req[h].change
  BY <1>1, <1>2, <1>3, WritingSlot DEF Typed, TypeOK, OrderDetail
<1>5. line'[d] # None
  BY <1>4, CartAssumption DEF CartConstants
<1>6. Amount(d, o)' = Amount(d, o) + Owed(h, o)'
  <2>1. CASE req[h].order = o
    <3> DEFINE price == Price[req[h].product]
    <3>1. Amount(d, o) = line[d].quantity * price
      BY <1>3, <2>1 DEF Amount
    <3>2. Amount(d, o)' = (line[d].quantity + req[h].change) * price
      BY <1>3, <1>4, <1>5, <2>1 DEF Amount
    <3>3. Owed(h, o)' = req[h].change * price
      BY <1>1, <2>1, WritingSlot
    <3>4. line[d].quantity \in Int /\ req[h].change \in Int /\ price \in Int
      BY <1>1, <1>3, WritingSlot, CartAssumption DEF OrderDetail, CartConstants
    <3> QED
      BY <3>1, <3>2, <3>3, <3>4, Distributes
  <2>2. CASE req[h].order # o
    BY <1>1, <1>3, <1>4, <2>2, WritingSlot DEF Amount
  <2> QED
    BY <2>1, <2>2
<1> QED
  BY <1>1, <1>3, <1>4, <1>6, WritingSlot, BalanceWritten

LEMMA BalanceInserted ==
    ASSUME Typed, Typed', NEW h \in Handlers, NEW d \in Details, InsertLine(h, d),
           NEW o \in Orders, Balanced(o)
    PROVE  Balanced(o)'
<1>1. req[h].pc \in Writing /\ GoTo(h, "total") /\ doc' = doc
  BY DEF InsertLine, At, Writing
<1>2. /\ line[d] = None
      /\ \A e \in Details \ {d} : line'[e] = line[e]
      /\ line'[d] \in OrderDetail
      /\ line'[d].order = req[h].order /\ line'[d].product = req[h].product
      /\ line'[d].quantity = req[h].change
  BY <1>1, WritingSlot DEF InsertLine, Typed, TypeOK, OrderDetail
<1>3. line'[d] # None
  BY <1>2, CartAssumption DEF CartConstants
<1>4. Amount(d, o)' = Amount(d, o) + Owed(h, o)'
  <2>1. Amount(d, o) = 0 /\ Amount(d, o)' = Owed(h, o)'
    BY <1>1, <1>2, <1>3, WritingSlot DEF Amount
  <2>2. Owed(h, o)' \in Int
    BY AmountsNext DEF AmountsTyped
  <2> QED
    BY <2>1, <2>2
<1> QED
  BY <1>1, <1>2, <1>4, WritingSlot, BalanceWritten

\* A MINUS that deletes a line of an order nobody raced for deletes one unit.
LEMMA BalanceRemoved ==
    ASSUME NEW still, Typed, Typed', LinesKept(still), NEW h \in Handlers,
           RemoveLine(h), Record,
           NEW o \in Orders \ raced', Balanced(o)
    PROVE  Balanced(o)'
<1>1. req[h].pc = "remove" /\ req[h].pc \in Writing /\ GoTo(h, "total") /\ doc' = doc
  BY DEF RemoveLine, At, Writing
<1>2. req[h].order = o =>
        /\ req[h].change = -1 /\ LinesOf(o, req[h].product) # {}
        /\ \A d \in LinesOf(o, req[h].product) : line[d].quantity = 1
  <2> SUFFICES ASSUME req[h].order = o
               PROVE  /\ req[h].change = -1 /\ LinesOf(o, req[h].product) # {}
                      /\ \A d \in LinesOf(o, req[h].product) : line[d].quantity = 1
    OBVIOUS
  <2>1. req[h].product \in Products /\ o \notin raced
    BY <1>1, WritingSlot DEF Record
  <2>2. Sound(still, h, o, req[h].product)
    BY <2>1 DEF LinesKept, Relied, About
  <2> QED
    BY <1>1, <2>2 DEF Sound
<1>3. CASE line' = line /\ LinesOf(req[h].order, req[h].product) = {}
  <2>1. req[h].order # o
    BY <1>2, <1>3
  <2>2. Owed(h, o) = 0 /\ Owed(h, o)' = 0
    BY <1>1, <2>1, WritingSlot DEF Owed
  <2>3. Listed(o)' = Listed(o) + 0
    <3>1. Listed(o)' = Listed(o) /\ Listed(o) \in Int
      BY <1>3, ListedSame, ListedTyped, Amounts
    <3> QED
      BY <3>1
  <2>4. doc[o].total \in Int
    BY Amounts DEF AmountsTyped
  <2> QED
    BY <1>1, <2>2, <2>3, <2>4, WritingSlot, BalanceKept
<1>4. ASSUME NEW d \in LinesOf(req[h].order, req[h].product),
             line' = [line EXCEPT ![d] = None]
      PROVE  Balanced(o)'
  <2>1. /\ d \in Details /\ line[d] # None
        /\ line[d].order = req[h].order /\ line[d].product = req[h].product
    BY <1>4 DEF LinesOf
  <2>2. line'[d] = None /\ \A e \in Details \ {d} : line'[e] = line[e]
    BY <1>4, <2>1 DEF Typed, TypeOK
  <2>3. Amount(d, o)' = Amount(d, o) + Owed(h, o)'
    <3>1. Amount(d, o)' = 0
      BY <2>2 DEF Amount
    <3>2. CASE req[h].order = o
      <4> DEFINE price == Price[req[h].product]
      <4>1. Amount(d, o) = 1 * price /\ Owed(h, o)' = (-1) * price
        BY <1>1, <1>2, <1>4, <2>1, <3>2, WritingSlot DEF Amount
      <4>2. price \in Int
        BY <1>1, WritingSlot, CartAssumption DEF CartConstants
      <4> QED
        BY <3>1, <4>1, <4>2
    <3>3. CASE req[h].order # o
      BY <1>1, <2>1, <3>1, <3>3, WritingSlot DEF Amount
    <3> QED
      BY <3>2, <3>3
  <2> QED
    BY <1>1, <2>1, <2>2, <2>3, WritingSlot, BalanceWritten
<1> QED
  BY <1>3, <1>4 DEF RemoveLine
LEMMA BalanceDeleted ==
    ASSUME Typed, Typed', NEW h \in Handlers, NEW d \in Details, DeleteLine(h, d),
           NEW o \in Orders, Balanced(o)
    PROVE  Balanced(o)'
<1> DEFINE q == Request("uncount", None, line[d].order, line[d].product,
                        -line[d].quantity, 0)
<1>1. /\ line[d] # None /\ line' = [line EXCEPT ![d] = None] /\ doc' = doc
      /\ req[h] = Idle /\ Become(h, q)
  BY DEF DeleteLine, Begin
<1>2. line[d] \in OrderDetail /\ line[d].order \in Orders
      /\ line[d].product \in Products /\ line[d].quantity \in Int
  BY <1>1 DEF Typed, TypeOK, OrderDetail
<1>3. /\ q \in Requests /\ q.pc = "uncount" /\ q.order = line[d].order
      /\ q.product = line[d].product /\ q.change = -line[d].quantity
  BY <1>2 DEF Requests, Request, Counting
<1> HIDE DEF q
<1>4. Others(h) /\ req'[h] = q
  BY <1>1, <1>3, Becoming DEF Typed, Others
<1>5. req[h].pc \notin Counting /\ req'[h].pc \in Counting
  BY <1>1, <1>3, <1>4, RequestFields DEF Counting
<1>6. line'[d] = None /\ \A e \in Details \ {d} : line'[e] = line[e]
  BY <1>1 DEF Typed, TypeOK
<1>7. Amount(d, o)' = Amount(d, o) + Owed(h, o)'
  <2>1. Amount(d, o)' = 0
    BY <1>6 DEF Amount
  <2>2. CASE line[d].order = o
    <3> DEFINE price == Price[line[d].product]
    <3>1. /\ Amount(d, o) = line[d].quantity * price
          /\ Owed(h, o)' = (-line[d].quantity) * price
      BY <1>1, <1>3, <1>4, <1>5, <2>2 DEF Amount, Owed
    <3>2. price \in Int /\ line[d].quantity * price \in Int
      BY <1>2, CartAssumption DEF CartConstants
    <3>3. (-line[d].quantity) * price = -(line[d].quantity * price)
      BY <1>2, <3>2, Distributes
    <3> QED
      BY <2>1, <3>1, <3>2, <3>3
  <2>3. CASE line[d].order # o
    BY <1>3, <1>4, <2>1, <2>3 DEF Amount, Owed
  <2> QED
    BY <2>2, <2>3
<1> QED
  BY <1>1, <1>4, <1>5, <1>6, <1>7, BalanceWritten

\* A slot adds what it owes to the total; deletes that came too late do not,
\* and are known.
LEMMA BalanceCounted ==
    ASSUME Typed, Typed', NEW h \in Handlers, AddToTotal(h) \/ Uncount(h), Record,
           NEW o \in Orders \ stale', Balanced(o)
    PROVE  Balanced(o)'
<1> DEFINE e == req[h].order
           owed == req[h].change * Price[req[h].product]
<1>1. /\ req[h].pc \in Counting /\ Finish(h) /\ line' = line
  BY DEF AddToTotal, Uncount, At, Counting
<1>2. req'[h] = Idle /\ Others(h)
  BY <1>1, TypedDone DEF Others, Typed, AddToTotal, Uncount
<1>3. e \in Orders /\ Owed(h, o) \in Int /\ doc[o].total \in Int
  BY <1>1, Amounts, RequestFields DEF Typed, TypedSlot, Counting, AmountsTyped
<1>4. Owed(h, o)' = 0 /\ Owed(h, o) = IF e = o THEN owed ELSE 0
  BY <1>1, <1>2, RequestFields DEF Owed, Counting
<1>5. doc'[o].total = IF e = o THEN doc[o].total + owed ELSE doc[o].total
  <2>1. CASE AddToTotal(h)
    <3>1. doc' = [doc EXCEPT ![e].total = @ + owed]
      BY <2>1 DEF AddToTotal
    <3> HIDE DEF e, owed
    <3> QED
      BY <1>3, <3>1 DEF Typed, TypeOK, Doc
  <2>2. CASE Uncount(h)
    <3>1. doc' = [doc EXCEPT ![e].total =
                    IF doc[e].status = "CART" THEN @ + owed ELSE @]
      BY <2>2 DEF Uncount
    <3>2. e = o => doc[o].status = "CART"
      BY <1>2, <2>2 DEF Record, LateDelete, Uncount
    <3> HIDE DEF e, owed
    <3> QED
      BY <1>3, <3>1, <3>2 DEF Typed, TypeOK, Doc
  <2> QED
    BY <2>1, <2>2
<1>6. Listed(o)' = Listed(o) + 0
  <2>1. Listed(o)' = Listed(o) /\ Listed(o) \in Int
    BY <1>1, ListedSame, ListedTyped, Amounts
  <2> QED
    BY <2>1
<1>7. doc'[o].total + Owed(h, o)' = doc[o].total + Owed(h, o) + 0
  <2> HIDE DEF e, owed
  <2> QED
    BY <1>3, <1>4, <1>5
<1> QED
  BY <1>2, <1>6, <1>7, BalanceKept

\* An order that does not exist has no lines, and nobody owes it anything.
LEMMA NothingYet ==
    ASSUME Typed, NEW o \in Orders, owner[o] = None
    PROVE  Pending(o) = 0 /\ Listed(o) = 0
<1>1. \A h \in Handlers : Owed(h, o) = 0
  BY DEF Typed, TypedSlot, Owed, Counting
<1>2. \A d \in Details : Amount(d, o) = 0
  BY DEF Typed, TypeOK, Amount
<1> QED
  BY <1>1, <1>2, SumZero, CartAssumption DEF Pending, Listed, SumFunction, CartConstants

LEMMA BalanceCreated ==
    ASSUME Typed, Typed', NEW h \in Handlers, Others(h), NEW n \in Orders,
           CreateCart(h, n), NEW o \in Orders, owner[o] # None => Balanced(o),
           owner'[o] # None
    PROVE  Balanced(o)'
<1>1. /\ req[h].pc = "create" /\ owner[n] = None /\ line' = line
      /\ doc' = [doc EXCEPT ![n] = NewOrder]
      /\ owner' = [owner EXCEPT ![n] = req[h].owner]
      /\ Become(h, Request(Step(req[h].change), req[h].owner, n, req[h].product,
                           req[h].change, 0))
  BY DEF CreateCart, At
<1>2. req[h].pc \notin Counting /\ req'[h].pc \notin Counting
  BY <1>1 DEF Counting, Step, Become, Request, Typed, TypeOK
<1>3. Pending(o)' = Pending(o) /\ Listed(o)' = Listed(o) /\ Pending(o) \in Int
  <2>1. Owed(h, o) = 0 /\ Owed(h, o)' = 0
    BY <1>2 DEF Owed
  <2>2. Pending(o) \in Int /\ Pending(o)' = Pending(o) - Owed(h, o) + Owed(h, o)'
    BY Amounts, AmountsNext, PendingStep
  <2> QED
    BY <1>1, <2>1, <2>2, ListedSame
<1>4. CASE owner[o] # None
  <2>1. doc'[o] = doc[o]
    BY <1>1, <1>4 DEF Typed, TypeOK
  <2> QED
    BY <1>3, <1>4, <2>1 DEF Balanced
<1>5. CASE o = n
  <2>1. doc'[o].total = 0 /\ Pending(o) = 0 /\ Listed(o) = 0
    BY <1>1, <1>5, NothingYet DEF Typed, TypeOK, NewOrder
  <2> QED
    BY <1>3, <2>1 DEF Balanced
<1>6. owner[o] # None \/ o = n
  BY <1>1 DEF Typed, TypeOK
<1> QED
  BY <1>4, <1>5, <1>6

\* A step of one slot, seen from an order that stays one of the regular.
LEMMA BalanceServed ==
    ASSUME NEW still, Typed, Typed', LinesKept(still), NEW h \in Handlers,
           Update(h) \/ Delete(h), Record,
           NEW o \in Orders \ (raced' \cup stale'), owner[o] # None => Balanced(o),
           owner'[o] # None
    PROVE  Balanced(o)'
<1>1. Others(h)
  BY ChosenStep DEF LinesKept
<1>2. CASE \E n \in Orders : CreateCart(h, n)
  BY <1>1, <1>2, BalanceCreated
<1>3. ASSUME owner' = owner PROVE Balanced(o)
  BY <1>3
<1>4. ASSUME UNCHANGED <<owner, doc, line>>, req[h].pc \notin Counting,
             req'[h].pc \notin Counting
      PROVE  Balanced(o)'
  BY <1>1, <1>3, <1>4, BalanceLeft
<1>5. ASSUME NEW u \in Customers, NEW p \in Products, NEW change \in {1, -1},
             FindCart(h, u, p, change) \/ NoCart(h, u, p, change)
      PROVE  Balanced(o)'
  <2>1. PICK pc \in {"add", "minus", "create"}, e \in Orders \cup {None} :
            /\ req[h] = Idle /\ Become(h, Request(pc, u, e, p, change, 0))
            /\ UNCHANGED <<owner, doc, line>>
    BY <1>5 DEF FindCart, NoCart, Begin, Step, CartsOf
  <2>2. req[h].pc \notin Counting /\ req'[h].pc \notin Counting
    BY <2>1 DEF Idle, Request, Become, Counting, Typed, TypeOK
  <2> QED
    BY <1>4, <2>1, <2>2
<1>6. CASE AddRead(h) \/ AddCompare(h) \/ MinusMissing(h) \/ MinusRead(h)
           \/ NoLineFound(h)
  <2>1. /\ UNCHANGED <<owner, doc, line>> /\ req[h].pc \in Choosing \cup Writing
        /\ \/ Finish(h)
           \/ \E held : req' = [req EXCEPT ![h].pc = "compare", ![h].held = held]
           \/ \E step \in {"upsert", "remove", "insert"} : GoTo(h, step)
    BY <1>6 DEF AddRead, AddCompare, MinusMissing, MinusRead, NoLineFound, At,
                Choosing, Writing
  <2>2. req[h].pc \notin Counting
    BY <2>1 DEF Choosing, Writing, Counting
  <2>3. req'[h].pc \in {"idle", "compare", "upsert", "remove", "insert"}
    <3>1. CASE Finish(h)
      BY <3>1, RequestFields DEF Finish, Become, Typed, TypeOK
    <3>2. ASSUME NEW held, req' = [req EXCEPT ![h].pc = "compare", ![h].held = held]
          PROVE  req'[h].pc = "compare"
      <4>1. req[h] \in InProgress
        BY <2>1, RequestFields DEF Typed, TypeOK, Choosing, Writing
      <4> QED
        BY <3>2, <4>1 DEF InProgress, Typed, TypeOK
    <3>3. ASSUME NEW step \in {"upsert", "remove", "insert"}, GoTo(h, step)
          PROVE  req'[h].pc = step
      <4>1. req[h].pc # "idle" /\ step \in Steps
        BY <2>1 DEF Choosing, Writing, Steps
      <4> QED
        BY <3>3, <4>1, GoneTo DEF Goes
    <3> QED
      BY <2>1, <3>1, <3>2, <3>3
  <2> QED
    BY <1>4, <2>1, <2>2, <2>3 DEF Counting
<1>7. CASE IncrementLine(h)
  BY <1>3, <1>7, BalanceIncremented DEF IncrementLine
<1>8. ASSUME NEW d \in Details, InsertLine(h, d) PROVE Balanced(o)'
  BY <1>3, <1>8, BalanceInserted DEF InsertLine
<1>9. CASE RemoveLine(h)
  BY <1>3, <1>9, BalanceRemoved DEF RemoveLine
<1>10. CASE AddToTotal(h) \/ Uncount(h)
  BY <1>3, <1>10, BalanceCounted DEF AddToTotal, Uncount
<1>11. ASSUME NEW d \in Details, DeleteLine(h, d) PROVE Balanced(o)'
  BY <1>3, <1>11, BalanceDeleted DEF DeleteLine
<1> QED
  BY <1>2, <1>5, <1>6, <1>7, <1>8, <1>9, <1>10, <1>11 DEF Update, Delete

\* What is pending and listed depends on the requests and on the lines alone.
LEMMA BalanceAside ==
    ASSUME NEW o, line' = line, doc'[o].total = doc[o].total, Balanced(o),
           \A h \in Handlers : Owed(h, o)' = Owed(h, o)
    PROVE  Balanced(o)'
<1>1. Listed(o)' = Listed(o)
  BY ListedSame
<1>2. Pending(o)' = Pending(o)
  BY DEF Pending
<1> QED
  BY <1>1, <1>2 DEF Balanced

LEMMA TotalsStep ==
    ASSUME Typed, Typed', LinesKept(TRUE), TotalsMatch, [HNext]_hvars
    PROVE  TotalsMatch'
<1> SUFFICES ASSUME NEW o \in Orders \ (raced' \cup stale' \cup cut'), owner'[o] # None
             PROVE  Balanced(o)'
  BY DEF TotalsMatch, Balanced
<1>1. o \notin raced \cup stale \cup cut
  BY DEF HNext, Record, hvars, history
<1>2. owner[o] # None => Balanced(o)
  BY <1>1 DEF TotalsMatch, Balanced
<1>3. ASSUME NEW h \in Handlers, Update(h) \/ Delete(h), Record PROVE Balanced(o)'
  BY <1>2, <1>3, BalanceServed
<1>4. CASE Environment /\ Record
  <2>1. UNCHANGED <<owner, line, req>> /\ doc'[o].total = doc[o].total
    <3>1. UNCHANGED <<owner, line, req>>
      BY <1>4 DEF Environment, Place, Confirm, Rollback
    <3>2. \A h \in Handlers : req'[h] = req[h]
      BY <3>1
    <3>3. ~\E h \in Handlers : /\ req[h].pc \in Counting /\ req[h].order = o
                               /\ req'[h] = Idle
      BY <3>2, RequestFields DEF Counting
    <3>4. ~Restored(o)
      BY <1>4 DEF Record
    <3>5. doc'[o].total = doc[o].total
      BY <3>3, <3>4 DEF Restored
    <3> QED
      BY <3>1, <3>5
  <2> QED
    BY <1>2, <2>1, BalanceAside DEF Owed
<1>5. CASE Crash /\ cut' = cut \cup {e \in Orders : Counted(e)}
  <2>1. ~Counted(o)
    BY <1>5
  <2>2. \A h \in Handlers : Owed(h, o) = 0 /\ Owed(h, o)' = 0
    BY <1>5, <2>1, RequestFields DEF Crash, Counted, Owed, Counting
  <2> QED
    BY <1>2, <1>5, <2>2, BalanceAside DEF Crash
<1>6. CASE UNCHANGED hvars
  BY <1>2, <1>6, BalanceAside DEF hvars, vars, Owed
<1> QED
  BY <1>3, <1>4, <1>5, <1>6 DEF HNext, Serve

\* The total of an order and what requests in progress have still to add to it
\* is the amount of its lines (updateOrderDetailByCartAction,
\* order.service.ts:217-302, and deleteOrderDetail), whatever the prices and
\* however many customers, lines and requests, unless a request wrote a line
\* another had read, a line was deleted after the checkout, a rollback put back
\* another total (order.controller.ts:285-295), or a crash came between line and
\* total.
THEOREM TotalsFollowLines == HSpec => []TotalsMatch
<1>1. HInit => TotalsMatch
  BY DEF HInit, Init, TotalsMatch
<1>2. Typed /\ Typed' /\ LinesKept(TRUE) /\ TotalsMatch /\ [HNext]_hvars => TotalsMatch'
  BY TotalsStep
<1> QED
  BY <1>1, <1>2, TypedAlways, LinesAlways, PTL DEF HSpec
=============================================================================
