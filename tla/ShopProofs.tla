------------------------------ MODULE ShopProofs ------------------------------
(* Theorems about Shop, for any customers, orders, products, details and    *)
(* handlers: the theorems of its two parts hold of them together.           *)
EXTENDS Shop, OrderProofs, SumLemmas

CP == INSTANCE CartProofs WITH
            req <- visit, raced <- overlapped, cut <- torn

-----------------------------------------------------------------------------
(* The cart's theorems apply *)

LEMMA ConstantsHold == CP!CartConstants
BY ShopAssumption, OrderAssumption
   DEF CP!CartConstants, CP!OrderDetail, OrderDetail, IsFiniteSet, CP!IsFiniteSet

\* CP and Carts are the same module, instantiated alike.
LEMMA SameTypes == Carts!TypeOK <=> CP!TypeOK
BY DEF Carts!TypeOK, CP!TypeOK, Carts!Doc, CP!Doc, Carts!OrderDetail,
       CP!OrderDetail, Carts!OrderStatuses, CP!OrderStatuses,
       Carts!PaymentStatuses, CP!PaymentStatuses, Carts!Requests, CP!Requests,
       Carts!Idle, CP!Idle, Carts!Request, CP!Request, Carts!Choosing,
       CP!Choosing, Carts!Writing, CP!Writing, Carts!Counting, CP!Counting

LEMMA SameIdle == Carts!Idle = CP!Idle
BY DEF Carts!Idle, CP!Idle, Carts!Request, CP!Request

LEMMA SameSteps ==
    ASSUME NEW h \in Handlers
    PROVE  /\ Carts!Update(h) <=> CP!Update(h)
           /\ Carts!Delete(h) <=> CP!Delete(h)
BY DEF Carts!Update, CP!Update, Carts!Delete, CP!Delete, Carts!FindCart, CP!FindCart,
       Carts!NoCart, CP!NoCart, Carts!CreateCart, CP!CreateCart, Carts!AddRead,
       CP!AddRead, Carts!AddCompare, CP!AddCompare, Carts!MinusMissing,
       CP!MinusMissing, Carts!MinusRead, CP!MinusRead, Carts!IncrementLine,
       CP!IncrementLine, Carts!NoLineFound, CP!NoLineFound, Carts!RemoveLine,
       CP!RemoveLine, Carts!InsertLine, CP!InsertLine, Carts!AddToTotal,
       CP!AddToTotal, Carts!DeleteLine, CP!DeleteLine, Carts!Uncount, CP!Uncount,
       Carts!CartsOf, CP!CartsOf, Carts!LinesOf, CP!LinesOf, Carts!Countable,
       CP!Countable, Carts!Begin, CP!Begin, Carts!Become, CP!Become, Carts!GoTo,
       CP!GoTo, Carts!Finish, CP!Finish, Carts!At, CP!At, Carts!Step, CP!Step,
       Carts!EnoughLeft, CP!EnoughLeft, Carts!LastUnit, CP!LastUnit, Carts!Idle,
       CP!Idle, Carts!Request, CP!Request, Carts!NewOrder, CP!NewOrder

-----------------------------------------------------------------------------
(* Type correctness *)

\* Inductive: the types of both parts, and requests of orders that exist.
ShopTyped ==
    /\ TypeOK /\ CP!Typed
    /\ \A h \in Handlers : req[h] # Idle => owner[req[h].order] # None

\* A confirm, a customer's request and an IPN call touch no line and no other
\* slot, and stay with their order until they end.
LEMMA StaysWithOrder ==
    ASSUME TypeOK, NEW h \in Handlers, Confirm(h) \/ Customer(h) \/ Ipn(h)
    PROVE  /\ line' = line
           /\ \A g \in Handlers \ {h} : req'[g] = req[g]
           /\ req[h] = Idle \/ req'[h] = Idle \/ req'[h].order = req[h].order
<1> DEFINE Keeps(r) == r = Idle \/ r.order = req[h].order
<1>1. ASSUME NEW r, Become(h, r), req[h] = Idle \/ Keeps(r), line' = line
      PROVE  /\ line' = line
             /\ \A g \in Handlers \ {h} : req'[g] = req[g]
             /\ req[h] = Idle \/ req'[h] = Idle \/ req'[h].order = req[h].order
  BY <1>1 DEF Become, TypeOK
<1>2. /\ \A pc, seen, data, lines, todo :
            Keeps(Confirming(pc, req[h].order, seen, data, lines, todo))
      /\ \A lines, todo : Keeps(Deducting(req[h].order, lines, todo))
      /\ \A pc, seen : Keeps(Paying(pc, req[h].order, seen))
      /\ \A pc, arg : Keeps(Serving(pc, req[h].order, arg))
      /\ Keeps(Idle)
  BY RequestBuilt DEF Confirming, Deducting, Paying, Serving
<1> HIDE DEF Keeps
<1>3. CASE Confirm(h)
  <2>1. ASSUME NEW o \in Orders, NEW to \in Targets, NEW payArg \in PayArgs,
               ConfirmRead(h, o, to, payArg)
        PROVE  \E r : Become(h, r) /\ (req[h] = Idle \/ Keeps(r)) /\ line' = line
    BY <2>1 DEF ConfirmRead, Begin
  <2>2. CASE ReadLines(h)
    BY <1>1, <1>2, <2>2 DEF ReadLines
  <2>3. ASSUME NEW d \in Details, CheckLine(h, d)
        PROVE  \E r : Become(h, r) /\ (req[h] = Idle \/ Keeps(r)) /\ line' = line
    BY <1>2, <2>3 DEF CheckLine
  <2>4. ASSUME NEW d \in Details, RejectLine(h, d)
        PROVE  \E r : Become(h, r) /\ (req[h] = Idle \/ Keeps(r)) /\ line' = line
    BY <1>2, <2>4 DEF RejectLine, Finish
  <2>5. CASE FetchPrevious(h) \/ UpdateOrder(h)
    BY <1>1, <1>2, <2>5 DEF FetchPrevious, UpdateOrder
  <2>6. CASE Remember(h)
    BY <1>1, <1>2, <2>6 DEF Remember
  <2>7. ASSUME NEW d \in Details, DeductLine(h, d)
        PROVE  \E r : Become(h, r) /\ (req[h] = Idle \/ Keeps(r)) /\ line' = line
    BY <1>2, <2>7 DEF DeductLine
  <2> QED
    BY <1>1, <1>3, <2>1, <2>2, <2>3, <2>4, <2>5, <2>6, <2>7 DEF Confirm
<1>4. CASE Customer(h)
  <2>1. \E r : Become(h, r) /\ (req[h] = Idle \/ Keeps(r)) /\ line' = line
    BY <1>2, <1>4 DEF Customer, CancelRead, CancelWrite, CheckoutRead, CheckoutWrite,
        CreatePaymentRead, CreatePaymentWrite, Redirect, Begin, Finish
  <2> QED
    BY <1>1, <2>1
<1>5. CASE Ipn(h)
  <2>1. \E r : Become(h, r) /\ (req[h] = Idle \/ Keeps(r)) /\ line' = line
    BY <1>2, <1>5 DEF Ipn, IpnRead, IpnAlready, IpnWrite, IpnReply, IpnReplyLost,
        Begin, Finish
  <2> QED
    BY <1>1, <2>1
<1> QED
  BY <1>3, <1>4, <1>5

LEMMA TypedOrderStep ==
    ASSUME ShopTyped, NEW h \in Handlers, OrderStep(h)
    PROVE  ShopTyped'
<1>1. /\ Confirm(h) \/ Customer(h) \/ Ipn(h)
      /\ UNCHANGED <<owner, visit>>
      /\ \A o \in Orders : (req[h] = Idle /\ req'[h].order = o) => owner[o] # None
  BY DEF OrderStep, Starts
<1>2. TypeOK'
  BY <1>1, TypeConfirm, TypeCustomer, TypeIpn DEF ShopTyped
<1>3. /\ line' = line
      /\ \A g \in Handlers \ {h} : req'[g] = req[g]
      /\ req[h] = Idle \/ req'[h] = Idle \/ req'[h].order = req[h].order
  BY <1>1, StaysWithOrder DEF ShopTyped
<1>4. CP!Typed'
  BY <1>1, <1>2, <1>3 DEF ShopTyped, TypeOK, CP!Typed, CP!TypeOK, CP!TypedSlot, Doc,
        CP!Doc, OrderStatuses, CP!OrderStatuses, PaymentStatuses, CP!PaymentStatuses
<1>5. req'[h] # Idle => req'[h].order \in Orders
  BY <1>2, RequestFields DEF TypeOK, Requests
<1>6. \A g \in Handlers : req'[g] # Idle => owner'[req'[g].order] # None
  BY <1>1, <1>3, <1>5 DEF ShopTyped
<1> QED
  BY <1>2, <1>4, <1>6 DEF ShopTyped

\* No order is ever taken away by a request on a cart.
LEMMA OwnersStay ==
    ASSUME ShopTyped, NEW h \in Handlers, CP!Update(h) \/ CP!Delete(h)
    PROVE  \A o \in Orders : owner[o] # None => owner'[o] # None
<1>1. owner' = owner \/ \E o \in Orders : CP!CreateCart(h, o)
  BY DEF CP!Update, CP!Delete, CP!FindCart, CP!NoCart, CP!AddRead, CP!AddCompare,
        CP!MinusMissing, CP!MinusRead, CP!IncrementLine, CP!NoLineFound,
        CP!RemoveLine, CP!InsertLine, CP!AddToTotal, CP!DeleteLine, CP!Uncount
<1>2. ASSUME NEW o \in Orders, CP!CreateCart(h, o)
      PROVE  \A e \in Orders : owner[e] # None => owner'[e] # None
  BY <1>2 DEF CP!CreateCart, ShopTyped, CP!Typed, CP!TypeOK
<1> QED
  BY <1>1, <1>2

LEMMA TypedCartStep ==
    ASSUME ShopTyped, NEW h \in Handlers, CartStep(h)
    PROVE  ShopTyped'
<1>1. /\ CP!Update(h) \/ CP!Delete(h)
      /\ UNCHANGED <<cache, gateway, bill, req>>
  BY SameSteps DEF CartStep
<1>2. CP!Typed'
  BY <1>1, ConstantsHold, CP!TypedUpdate, CP!TypedDelete DEF ShopTyped
<1>3. TypeOK'
  BY <1>1, <1>2 DEF ShopTyped, TypeOK, CP!Typed, CP!TypeOK, Doc, CP!Doc,
        OrderStatuses, CP!OrderStatuses, PaymentStatuses, CP!PaymentStatuses,
        OrderDetail, CP!OrderDetail
<1>4. \A g \in Handlers : req'[g] # Idle => owner'[req'[g].order] # None
  BY <1>1, OwnersStay, RequestFields DEF ShopTyped, TypeOK, Requests
<1> QED
  BY <1>2, <1>3, <1>4 DEF ShopTyped

LEMMA TypedShopStep == ShopTyped /\ [ShopNext]_shopVars => ShopTyped'
<1> SUFFICES ASSUME ShopTyped, [ShopNext]_shopVars PROVE ShopTyped'
  OBVIOUS
<1>1. ASSUME NEW h \in Handlers, OrderStep(h) \/ CartStep(h) PROVE ShopTyped'
  BY <1>1, TypedOrderStep, TypedCartStep
<1>2. CASE Environment /\ UNCHANGED <<owner, visit>>
  <2>1. TypeOK'
    BY <1>2, TypeEnvironment DEF ShopTyped
  <2>2. line' = line /\ doc' = doc /\ req' = req
    BY <1>2 DEF Environment, Settle, CacheExpire, Restock
  <2> QED
    BY <1>2, <2>1, <2>2 DEF ShopTyped, TypeOK, CP!Typed, CP!TypeOK, CP!TypedSlot, Doc,
          CP!Doc, OrderStatuses, CP!OrderStatuses, PaymentStatuses, CP!PaymentStatuses
<1>3. CASE Restart
  <2>1. UNCHANGED <<owner, doc, line, stock, cache, gateway, bill>>
    BY <1>3 DEF Restart
  <2>2. /\ \A h \in Handlers : req'[h] = Idle /\ visit'[h] = CP!Idle
        /\ req' \in [Handlers -> Requests] /\ visit' \in [Handlers -> CP!Requests]
    BY <1>3, SameIdle, RequestFields DEF Restart, CP!Requests
  <2>3. CP!Idle.pc = "idle"
    BY DEF CP!Idle, CP!Request
  <2> QED
    BY <2>1, <2>2, <2>3, RequestFields
       DEF ShopTyped, TypeOK, CP!Typed, CP!TypeOK, CP!TypedSlot
<1>4. CASE UNCHANGED shopVars
  BY <1>4 DEF shopVars, cartVars, hvars, vars, ShopTyped, TypeOK, CP!Typed,
        CP!TypeOK, CP!TypedSlot
<1> QED
  BY <1>1, <1>2, <1>3, <1>4 DEF ShopNext

LEMMA TypedShopInit == ShopInit => ShopTyped
<1> SUFFICES ASSUME ShopInit PROVE ShopTyped
  OBVIOUS
<1>1. TypeOK
  BY TypeInit DEF ShopInit, HInit
<1>2. Carts!Init
  BY DEF ShopInit, Carts!HInit
<1>3. CP!Init
  BY <1>2 DEF Carts!Init, CP!Init, Carts!Idle, CP!Idle, Carts!Request, CP!Request,
        Carts!NewOrder, CP!NewOrder
<1>4. CP!Typed
  BY <1>3, ConstantsHold, CP!TypedInit
<1> QED
  BY <1>1, <1>4 DEF ShopTyped, ShopInit, HInit, Init

LEMMA ShopTypedAlways == ShopSpec => []ShopTyped
BY TypedShopInit, TypedShopStep, PTL DEF ShopSpec

\* Orders, carts and requests of both kinds are well typed together, and every
\* request is about an order that exists (order.controller.ts:57-180, 246-385,
\* payment.controller.ts:45-60).
THEOREM ShopTypeCorrect == ShopSpec => []ShopTypeOK
<1>1. ShopTyped => ShopTypeOK
  BY SameTypes DEF ShopTyped, ShopTypeOK, CP!Typed
<1> QED
  BY <1>1, ShopTypedAlways, PTL

-----------------------------------------------------------------------------
(* A customer has one cart *)

Creating(h, u) == visit[h].pc = "create" /\ visit[h].owner = u

\* Inductive: whoever is about to create a cart still has none, and is alone.
CartsApart ==
    \A u \in Customers \ doubled :
        /\ \A o, e \in Carts!CartsOf(u) : o = e
        /\ \A h \in Handlers : Creating(h, u) => Carts!CartsOf(u) = {}
        /\ \A h, g \in Handlers : Creating(h, u) /\ Creating(g, u) => h = g

\* A slot that gets a request, or goes on with it.
LEMMA VisitBecomes ==
    ASSUME ShopTyped, NEW h \in Handlers, NEW r, Carts!Become(h, r)
    PROVE  visit'[h] = r /\ \A g \in Handlers : g # h => visit'[g] = visit[g]
BY DEF Carts!Become, ShopTyped, CP!Typed, CP!TypeOK

LEMMA VisitGoes ==
    ASSUME ShopTyped, NEW h \in Handlers, NEW step, NEW held,
           visit' = [visit EXCEPT ![h].pc = step, ![h].held = held]
    PROVE  visit'[h].pc = step /\ \A g \in Handlers : g # h => visit'[g] = visit[g]
<1>1. visit[h] \in CP!Requests /\ visit \in [Handlers -> CP!Requests]
  BY DEF ShopTyped, CP!Typed, CP!TypeOK
<1>2. [visit[h] EXCEPT !.pc = step, !.held = held].pc = step
  BY <1>1 DEF CP!Requests, CP!Idle, CP!Request
<1> QED
  BY <1>1, <1>2

\* Apart from the lookup that finds no cart and the create after it, a cart
\* request leaves owners alone and begins no create.
LEMMA Creators ==
    ASSUME ShopTyped, NEW h \in Handlers, Carts!Update(h) \/ Carts!Delete(h)
    PROVE  \/ \E u \in Customers, p \in Products, change \in {1, -1} :
                    Carts!NoCart(h, u, p, change)
           \/ \E o \in Orders : Carts!CreateCart(h, o)
           \/ /\ owner' = owner
              /\ visit'[h].pc # "create"
              /\ \A g \in Handlers : g # h => visit'[g] = visit[g]
<1> DEFINE Plain == /\ owner' = owner
                    /\ visit'[h].pc # "create"
                    /\ \A g \in Handlers : g # h => visit'[g] = visit[g]
<1>1. ASSUME NEW r, Carts!Become(h, r), r.pc # "create", owner' = owner
      PROVE  Plain
  BY <1>1, VisitBecomes
<1>2. ASSUME NEW step, step # "create", Carts!GoTo(h, step), owner' = owner
      PROVE  Plain
  BY <1>2, VisitGoes DEF Carts!GoTo
<1>3. Carts!Idle.pc = "idle"
  BY DEF Carts!Idle, Carts!Request
<1>4. ASSUME Carts!Finish(h), owner' = owner PROVE Plain
  BY <1>1, <1>3, <1>4 DEF Carts!Finish
<1>5. ASSUME NEW u \in Customers, NEW p \in Products, NEW change \in {1, -1},
             Carts!FindCart(h, u, p, change)
      PROVE  Plain
  <2>1. PICK o : Carts!Become(h, Carts!Request(Carts!Step(change), u, o, p, change, 0))
    BY <1>5 DEF Carts!FindCart, Carts!Begin
  <2>2. Carts!Request(Carts!Step(change), u, o, p, change, 0).pc # "create"
    BY DEF Carts!Request, Carts!Step
  <2> QED
    BY <1>1, <1>5, <2>1, <2>2 DEF Carts!FindCart
<1>6. CASE Carts!AddRead(h)
  <2>1. PICK held : visit' = [visit EXCEPT ![h].pc = "compare", ![h].held = held]
    BY <1>6 DEF Carts!AddRead
  <2>2. visit'[h].pc = "compare" /\ \A g \in Handlers : g # h => visit'[g] = visit[g]
    BY <2>1, VisitGoes
  <2>3. owner' = owner
    BY <1>6 DEF Carts!AddRead
  <2> QED
    BY <2>2, <2>3
<1>7. CASE \/ Carts!AddCompare(h) \/ Carts!MinusMissing(h) \/ Carts!MinusRead(h)
           \/ Carts!IncrementLine(h) \/ Carts!NoLineFound(h) \/ Carts!RemoveLine(h)
           \/ (\E d \in Details : Carts!InsertLine(h, d)) \/ Carts!AddToTotal(h)
           \/ Carts!Uncount(h)
  <2>1. /\ owner' = owner
        /\ \/ Carts!Finish(h)
           \/ \E step \in {"upsert", "remove", "insert", "total"} : Carts!GoTo(h, step)
    BY <1>7 DEF Carts!AddCompare, Carts!MinusMissing, Carts!MinusRead,
        Carts!IncrementLine, Carts!NoLineFound, Carts!RemoveLine, Carts!InsertLine,
        Carts!AddToTotal, Carts!Uncount
  <2> QED
    BY <1>2, <1>4, <2>1
<1>8. ASSUME NEW d \in Details, Carts!DeleteLine(h, d) PROVE Plain
  <2>1. \A u, o, p, change : Carts!Request("uncount", u, o, p, change, 0).pc # "create"
    BY DEF Carts!Request
  <2> QED
    BY <1>1, <1>8, <2>1 DEF Carts!DeleteLine, Carts!Begin
<1> QED
  BY <1>5, <1>6, <1>7, <1>8 DEF Carts!Update, Carts!Delete

\* Who does not double has no more carts than before, unless it creates one.
LEMMA NoneReopened ==
    ASSUME ShopRecord, NEW u \in Customers \ doubled', owner' = owner
    PROVE  Carts!CartsOf(u)' \subseteq Carts!CartsOf(u)
BY DEF ShopRecord, Carts!Record, Carts!Doubling, Carts!CartsOf

\* Steps that begin no create.
LEMMA ApartPlain ==
    ASSUME CartsApart, ShopRecord, owner' = owner,
           \A g \in Handlers : visit'[g].pc = "create" => visit'[g] = visit[g]
    PROVE  CartsApart'
<1> SUFFICES ASSUME NEW u \in (Customers \ doubled)'
             PROVE  /\ \A o, e \in Carts!CartsOf(u)' : o = e
                    /\ \A h \in Handlers : Creating(h, u)' => Carts!CartsOf(u)' = {}
                    /\ \A h, g \in Handlers : Creating(h, u)' /\ Creating(g, u)' => h = g
  BY DEF CartsApart
<1>1. u \in Customers \ doubled /\ u \in Customers \ doubled'
  BY DEF ShopRecord, Carts!Record
<1>2. Carts!CartsOf(u)' \subseteq Carts!CartsOf(u)
  BY <1>1, NoneReopened
<1>3. \A h \in Handlers : Creating(h, u)' => Creating(h, u)
  BY DEF Creating
<1> QED
  BY <1>1, <1>2, <1>3 DEF CartsApart

LEMMA ApartLookup ==
    ASSUME ShopTyped, CartsApart, ShopRecord, NEW h \in Handlers, NEW v \in Customers,
           NEW p \in Products, NEW change \in {1, -1}, Carts!NoCart(h, v, p, change)
    PROVE  CartsApart'
<1> SUFFICES ASSUME NEW u \in (Customers \ doubled)'
             PROVE  /\ \A o, e \in Carts!CartsOf(u)' : o = e
                    /\ \A g \in Handlers : Creating(g, u)' => Carts!CartsOf(u)' = {}
                    /\ \A g, f \in Handlers : Creating(g, u)' /\ Creating(f, u)' => g = f
  BY DEF CartsApart
<1>1. u \in Customers \ doubled /\ u \in Customers \ doubled'
  BY DEF ShopRecord, Carts!Record
<1>2. Carts!CartsOf(v) = {} /\ owner' = owner
      /\ Carts!Become(h, Carts!Request("create", v, None, p, change, 0))
  BY DEF Carts!NoCart, Carts!Begin
<1>3. /\ visit'[h] = Carts!Request("create", v, None, p, change, 0)
      /\ \A g \in Handlers : g # h => visit'[g] = visit[g]
  BY <1>2, VisitBecomes
<1>4. visit'[h].owner = v
  BY <1>3 DEF Carts!Request
<1>5. Carts!CartsOf(u)' \subseteq Carts!CartsOf(u)
  BY <1>1, <1>2, NoneReopened
<1>6. ASSUME NEW g \in Handlers, Creating(g, u)' PROVE Carts!CartsOf(u) = {}
  <2>1. CASE g = h
    BY <1>2, <1>4, <1>6, <2>1 DEF Creating
  <2>2. CASE g # h
    BY <1>1, <1>3, <1>6, <2>2 DEF Creating, CartsApart
  <2> QED
    BY <2>1, <2>2
<1>7. \A g, f \in Handlers : Creating(g, u)' /\ Creating(f, u)' => g = f
  BY <1>1 DEF ShopRecord, Carts!Record, Carts!Doubling, Creating
<1> QED
  BY <1>1, <1>5, <1>6, <1>7 DEF CartsApart

LEMMA ApartCreate ==
    ASSUME ShopTyped, CartsApart, ShopRecord, NEW h \in Handlers, NEW n \in Orders,
           Carts!CreateCart(h, n)
    PROVE  CartsApart'
<1> SUFFICES ASSUME NEW u \in (Customers \ doubled)'
             PROVE  /\ \A o, e \in Carts!CartsOf(u)' : o = e
                    /\ \A g \in Handlers : Creating(g, u)' => Carts!CartsOf(u)' = {}
                    /\ \A g, f \in Handlers : Creating(g, u)' /\ Creating(f, u)' => g = f
  BY DEF CartsApart
<1>1. u \in Customers \ doubled /\ u \in Customers \ doubled'
  BY DEF ShopRecord, Carts!Record
<1> DEFINE r == visit[h]
           new == Carts!Request(Carts!Step(r.change), r.owner, n, r.product, r.change, 0)
<1>2. /\ r.pc = "create" /\ owner[n] = None
      /\ owner' = [owner EXCEPT ![n] = r.owner]
      /\ doc' = [doc EXCEPT ![n] = Carts!NewOrder]
      /\ Carts!Become(h, new)
  BY DEF Carts!CreateCart, Carts!At
<1>3. /\ visit'[h] = new
      /\ \A g \in Handlers : g # h => visit'[g] = visit[g]
  BY <1>2, VisitBecomes
<1>4. new.pc # "create"
  BY DEF Carts!Request, Carts!Step
<1>5. \A g \in Handlers : Creating(g, u)' => g # h /\ Creating(g, u)
  BY <1>3, <1>4 DEF Creating
<1>6. owner \in [Orders -> Customers \cup {None}] /\ doc \in [Orders -> Doc]
  BY DEF ShopTyped, TypeOK, CP!Typed, CP!TypeOK
<1>7. \A o \in Orders : o # n => owner'[o] = owner[o] /\ doc'[o] = doc[o]
  BY <1>2, <1>6
<1>8. Carts!CartsOf(u)' \subseteq Carts!CartsOf(u) \cup {n}
  BY <1>7 DEF Carts!CartsOf
<1>9. CASE r.owner = u
  <2>1. Creating(h, u) /\ Carts!CartsOf(u) = {}
    BY <1>1, <1>2, <1>9 DEF Creating, CartsApart
  <2>2. \A g \in Handlers : ~Creating(g, u)'
    BY <1>1, <1>5, <2>1 DEF CartsApart
  <2> QED
    BY <1>8, <2>1, <2>2
<1>10. CASE r.owner # u
  <2>1. n \notin Carts!CartsOf(u)'
    BY <1>2, <1>6, <1>10 DEF Carts!CartsOf
  <2>2. Carts!CartsOf(u)' \subseteq Carts!CartsOf(u)
    BY <1>8, <2>1
  <2> QED
    BY <1>1, <1>5, <2>2 DEF CartsApart
<1> QED
  BY <1>9, <1>10

LEMMA ApartStep == ShopTyped /\ CartsApart /\ [ShopNext]_shopVars => CartsApart'
<1> SUFFICES ASSUME ShopTyped, CartsApart, [ShopNext]_shopVars PROVE CartsApart'
  OBVIOUS
<1>1. ASSUME NEW h \in Handlers, CartStep(h), ShopRecord PROVE CartsApart'
  <2>1. Carts!Update(h) \/ Carts!Delete(h)
    BY <1>1 DEF CartStep
  <2>2. CASE /\ owner' = owner
             /\ visit'[h].pc # "create"
             /\ \A g \in Handlers : g # h => visit'[g] = visit[g]
    BY <1>1, <2>2, ApartPlain
  <2> QED
    BY <1>1, <2>1, <2>2, Creators, ApartLookup, ApartCreate
<1>2. CASE ShopRecord /\ UNCHANGED <<owner, visit>>
  BY <1>2, ApartPlain
<1>3. CASE Restart /\ ShopRecord
  <2>1. \A g \in Handlers : visit'[g].pc # "create"
    BY <1>3 DEF Restart, Carts!Idle, Carts!Request
  <2> QED
    BY <1>3, <2>1, ApartPlain DEF Restart
<1>4. CASE UNCHANGED shopVars
  BY <1>4 DEF shopVars, cartVars, hvars, vars, CartsApart, Carts!CartsOf, Creating
<1> QED
  BY <1>1, <1>2, <1>3, <1>4 DEF ShopNext, OrderStep

LEMMA ApartInit == ShopInit => CartsApart
<1> SUFFICES ASSUME ShopInit PROVE CartsApart
  OBVIOUS
<1>1. \A u \in Customers : Carts!CartsOf(u) = {}
  BY ShopAssumption DEF ShopInit, Carts!HInit, Carts!Init, Carts!CartsOf
<1>2. \A u \in Customers, h \in Handlers : ~Creating(h, u)
  BY DEF ShopInit, Carts!HInit, Carts!Init, Carts!Idle, Carts!Request, Creating
<1> QED
  BY <1>1, <1>2 DEF CartsApart

\* No customer has two carts, whatever confirms, payments and restarts come in
\* between (order.controller.ts:72-102), unless two lookups raced or an order was
\* put back to CART.
THEOREM CustomerHasOneCart == ShopSpec => []OneCart
<1>1. ShopTyped /\ CartsApart => OneCart
  <2> SUFFICES ASSUME ShopTyped, CartsApart, NEW u \in Customers \ doubled
               PROVE  Cardinality(Carts!CartsOf(u)) <= 1
    BY DEF OneCart
  <2>1. CASE Carts!CartsOf(u) = {}
    BY <2>1, FS_EmptySet
  <2>2. ASSUME NEW o \in Carts!CartsOf(u) PROVE Cardinality(Carts!CartsOf(u)) <= 1
    <3>1. Carts!CartsOf(u) = {o}
      BY DEF CartsApart
    <3> QED
      BY <3>1, FS_Singleton
  <2> QED
    BY <2>1, <2>2
<1> QED
  BY <1>1, ShopTypedAlways, ApartInit, ApartStep, PTL DEF ShopSpec

-----------------------------------------------------------------------------
(* What holds of orders alone holds of them among carts *)

\* A cart request leaves the status and the payment of an order, or stores a
\* new one.
LEMMA CartDocs ==
    ASSUME ShopTyped, NEW h \in Handlers, CP!Update(h) \/ CP!Delete(h)
    PROVE  \A o \in Orders :
            \/ doc'[o].status = doc[o].status /\ doc'[o].pay = doc[o].pay
            \/ owner[o] = None /\ doc'[o] = NewOrder
<1>1. doc \in [Orders -> Doc]
  BY DEF ShopTyped, TypeOK
<1>2. ASSUME NEW n, NEW total, doc' = [doc EXCEPT ![n].total = total], NEW o \in Orders
      PROVE  doc'[o].status = doc[o].status /\ doc'[o].pay = doc[o].pay
  BY <1>1, <1>2 DEF Doc
<1>3. ASSUME NEW n \in Orders, CP!CreateCart(h, n), NEW o \in Orders
      PROVE  \/ doc'[o].status = doc[o].status /\ doc'[o].pay = doc[o].pay
             \/ owner[o] = None /\ doc'[o] = NewOrder
  BY <1>1, <1>3 DEF CP!CreateCart, CP!NewOrder, NewOrder
<1>4. CASE CP!AddToTotal(h) \/ CP!Uncount(h)
  <2>1. \E n, total : doc' = [doc EXCEPT ![n].total = total]
    BY <1>4 DEF CP!AddToTotal, CP!Uncount
  <2> QED
    BY <1>2, <2>1
<1>5. \/ doc' = doc
      \/ CP!AddToTotal(h) \/ CP!Uncount(h) \/ \E n \in Orders : CP!CreateCart(h, n)
  BY DEF CP!Update, CP!Delete, CP!FindCart, CP!NoCart, CP!AddRead, CP!AddCompare,
        CP!MinusMissing, CP!MinusRead, CP!IncrementLine, CP!NoLineFound,
        CP!RemoveLine, CP!InsertLine, CP!DeleteLine
<1> QED
  BY <1>3, <1>4, <1>5

LEMMA CartAmongOrders ==
    ASSUME ShopTyped, NEW h \in Handlers, CartStep(h)
    PROVE  /\ UNCHANGED <<cache, gateway, bill, req>>
           /\ \A o \in Orders :
                \/ doc'[o].status = doc[o].status /\ doc'[o].pay = doc[o].pay
                \/ owner[o] = None /\ doc'[o] = NewOrder
BY SameSteps, CartDocs DEF CartStep

LEMMA AskedInShop ==
    ASSUME ShopTyped, AskedOrders, [ShopNext]_shopVars
    PROVE  AskedOrders'
<1>1. TypeOK
  BY DEF ShopTyped
<1>2. ASSUME NEW h \in Handlers, OrderStep(h), Record PROVE AskedOrders'
  BY <1>1, <1>2, AskedConfirm, AskedCustomerOrIpn DEF OrderStep
<1>3. ASSUME NEW h \in Handlers, CartStep(h), Record PROVE AskedOrders'
  <2>1. /\ asked \subseteq asked' /\ cache' = cache /\ req' = req
        /\ \A o \in Orders : doc'[o].status \in {doc[o].status, "CART"}
    BY <1>3, CartAmongOrders DEF Record, NewOrder
  <2>2. \A o \in Orders : doc[o] # None
    BY <1>1, NoneIsNoDoc DEF TypeOK
  <2> QED
    BY <2>1, <2>2 DEF AskedOrders, Asked
<1>4. CASE Environment /\ Record
  BY <1>1, <1>4, AskedEnvironment
<1>5. CASE Restart /\ Record
  BY <1>5, RequestFields DEF Restart, Record, AskedOrders, Asked
<1>6. CASE UNCHANGED shopVars
  BY <1>6 DEF shopVars, hvars, vars, history, AskedOrders, Asked
<1> QED
  BY <1>2, <1>3, <1>4, <1>5, <1>6 DEF ShopNext, ShopRecord

\* DeliveredByAdmin of OrderHistory, for orders whose carts and totals change
\* between and during the steps of a confirm.
THEOREM ShopDeliversOnRequest == ShopSpec => []DeliveredByAdmin
<1>1. ShopInit => AskedOrders
  BY AskedInit DEF ShopInit
<1>2. ShopTyped /\ AskedOrders => DeliveredByAdmin
  BY NoneIsNoDoc DEF ShopTyped, TypeOK, AskedOrders, Asked, DeliveredByAdmin
<1> QED
  BY <1>1, <1>2, AskedInShop, ShopTypedAlways, PTL DEF ShopSpec

LEMMA UnracedInShop ==
    ASSUME ShopTyped, ShopTyped', UnracedOrders, [ShopNext]_shopVars
    PROVE  UnracedOrders'
<1>1. TypeOK /\ TypeOK'
  BY DEF ShopTyped
<1>2. ASSUME NEW h \in Handlers, OrderStep(h), Record PROVE UnracedOrders'
  BY <1>1, <1>2, UnracedConfirm, UnracedCustomer, UnracedIpn DEF OrderStep
<1>3. ASSUME NEW h \in Handlers, CartStep(h), Record PROVE UnracedOrders'
  <2>1. /\ raced \subseteq raced' /\ raced' \subseteq Orders
        /\ cache' = cache /\ req' = req
    BY <1>3, CartAmongOrders DEF Record, Overtaken, UnracedOrders
  <2>2. \A o \in Orders : Paid(doc[o]) => Paid(doc'[o])
    BY <1>1, <1>3, CartAmongOrders, NoneIsNoDoc DEF TypeOK, Paid, NewOrder
  <2>3. \A g \in Handlers : (req'[g].pc # "idle" /\ req'[g].order \notin raced')
            => Undisturbed(g)' /\ CopiesPaid(g)'
    BY <1>1, <1>3, <2>1, Bystander, RequestFields DEF TypeOK
  <2> QED
    BY <2>1, <2>2, <2>3 DEF UnracedOrders
<1>4. CASE Environment /\ Record
  BY <1>1, <1>4, UnracedEnvironment
<1>5. CASE Restart /\ Record
  BY <1>5, RequestFields DEF Restart, Record, Overtaken, UnracedOrders, Paid
<1>6. CASE UNCHANGED shopVars
  BY <1>6 DEF shopVars, hvars, vars, history, UnracedOrders, Undisturbed, CopiesPaid, Paid
<1> QED
  BY <1>2, <1>3, <1>4, <1>5, <1>6 DEF ShopNext, ShopRecord

LEMMA UnracedInShopAlways == ShopSpec => []UnracedOrders
<1>1. ShopInit => UnracedOrders
  BY UnracedInit DEF ShopInit
<1>2. ShopTyped /\ ShopTyped' /\ UnracedOrders /\ [ShopNext]_shopVars => UnracedOrders'
  BY UnracedInShop
<1> QED
  BY <1>1, <1>2, ShopTypedAlways, PTL DEF ShopSpec

\* PaidWhenDelivered of OrderHistory, among the requests on carts.
THEOREM ShopDeliversPaid == ShopSpec => []PaidWhenDelivered
<1>1. ShopTyped /\ UnracedOrders => PaidWhenDelivered
  BY NoneIsNoDoc DEF ShopTyped, TypeOK, UnracedOrders, Paid, PaidWhenDelivered
<1> QED
  BY <1>1, ShopTypedAlways, UnracedInShopAlways, PTL

\* Only orders that exist are asked for.
AskedExist == \A o \in asked : o \in Orders /\ owner[o] # None

LEMMA AskedExistStep ==
    ASSUME ShopTyped, ShopTyped', AskedExist, [ShopNext]_shopVars
    PROVE  AskedExist'
<1>1. \A o \in Orders : owner[o] # None => owner'[o] # None
  <2>1. ASSUME NEW h \in Handlers, CartStep(h)
        PROVE  \A o \in Orders : owner[o] # None => owner'[o] # None
    BY <2>1, SameSteps, OwnersStay DEF CartStep
  <2> QED
    BY <2>1 DEF ShopNext, OrderStep, Restart, shopVars, cartVars
<1>2. \A o \in AskedNow : o \in Orders /\ owner'[o] # None
  BY RequestFields DEF AskedNow, ShopTyped, ConfirmSteps
<1>3. CASE ShopRecord
  <2>1. asked' = asked \cup AskedNow
    BY <1>3 DEF ShopRecord, Record
  <2> QED
    BY <1>1, <1>2, <2>1 DEF AskedExist
<1>4. CASE UNCHANGED shopVars
  BY <1>4 DEF shopVars, hvars, history, cartVars, AskedExist
<1> QED
  BY <1>3, <1>4 DEF ShopNext

LEMMA AskedInShopAlways == ShopSpec => [](AskedOrders /\ AskedExist)
<1>1. ShopInit => AskedOrders /\ AskedExist
  BY AskedInit DEF ShopInit, HInit, AskedExist
<1>2. ShopTyped /\ ShopTyped' /\ AskedOrders /\ AskedExist /\ [ShopNext]_shopVars
        => AskedOrders' /\ AskedExist'
  BY AskedInShop, AskedExistStep
<1> QED
  BY <1>1, <1>2, ShopTypedAlways, PTL DEF ShopSpec

\* DeliveredStands of OrderHistory: no request on a cart undoes a delivery.
THEOREM ShopDeliveryStands == ShopSpec => DeliveredStands
<1> DEFINE Stands == \A o \in Orders \ raced :
                LeavesDelivered(o) => \E h \in Handlers : Undoes(h, o)
<1>1. ShopTyped /\ UnracedOrders /\ AskedOrders /\ AskedExist /\ [ShopNext]_shopVars
        => [Stands]_hvars
  <2> SUFFICES ASSUME ShopTyped, UnracedOrders, AskedOrders, AskedExist,
                      [ShopNext]_shopVars, NEW o \in Orders \ raced, LeavesDelivered(o)
               PROVE  \E h \in Handlers : Undoes(h, o)
    BY DEF Stands
  <2>1. TypeOK /\ doc[o] # None /\ owner[o] # None
    BY NoneIsNoDoc
       DEF ShopTyped, TypeOK, LeavesDelivered, AskedOrders, Asked, AskedExist
  <2>2. ASSUME NEW h \in Handlers, OrderStep(h) PROVE \E g \in Handlers : Undoes(g, o)
    BY <2>1, <2>2, LeftBy DEF OrderStep
  <2>3. ASSUME NEW h \in Handlers, CartStep(h) PROVE FALSE
    BY <2>1, <2>3, CartAmongOrders DEF LeavesDelivered
  <2>4. ASSUME Environment \/ Restart \/ UNCHANGED shopVars PROVE FALSE
    BY <2>4 DEF LeavesDelivered, Environment, Settle, CacheExpire, Restock, Restart,
          shopVars, hvars, vars
  <2> QED
    BY <2>2, <2>3, <2>4 DEF ShopNext
<1> QED
  BY <1>1, ShopTypedAlways, UnracedInShopAlways, AskedInShopAlways, PTL
     DEF ShopSpec, DeliveredStands, Stands

-----------------------------------------------------------------------------
(* The lines of carts among orders *)

LEMMA SameRecord == Carts!Record <=> CP!Record
BY DEF Carts!Record, CP!Record, Carts!Overtaken, CP!Overtaken, Carts!LinesOf,
       CP!LinesOf, Carts!Relying, CP!Relying, Carts!Writing, CP!Writing,
       Carts!Doubling, CP!Doubling, Carts!LateDelete, CP!LateDelete,
       Carts!Restored, CP!Restored, Carts!Counting, CP!Counting, Carts!At, CP!At,
       Carts!Idle, CP!Idle, Carts!Request, CP!Request

LEMMA SameAmounts ==
    /\ \A h \in Handlers, o \in Orders : Carts!Owed(h, o) = CP!Owed(h, o)
    /\ \A d \in Details, o \in Orders : Carts!Amount(d, o) = CP!Amount(d, o)
    /\ \A o \in Orders : Carts!Counted(o) <=> CP!Counted(o)
BY DEF Carts!Owed, CP!Owed, Carts!Amount, CP!Amount, Carts!Counting, CP!Counting,
       Carts!Counted, CP!Counted

LEMMA SameSums ==
    ASSUME NEW f, NEW S
    PROVE  /\ Carts!SumFunctionOnSet(f, S) = SumFunctionOnSet(f, S)
           /\ CP!SumFunctionOnSet(f, S) = SumFunctionOnSet(f, S)
BY DEF SumFunctionOnSet, FoldFunctionOnSet, MapThenFoldSet,
       Carts!SumFunctionOnSet, Carts!FoldFunctionOnSet, Carts!MapThenFoldSet,
       CP!SumFunctionOnSet, CP!FoldFunctionOnSet, CP!MapThenFoldSet

LEMMA SameListed ==
    ASSUME NEW o \in Orders
    PROVE  Carts!Listed(o) = CP!Listed(o)
<1> DEFINE f == [d \in Details |-> Carts!Amount(d, o)]
           g == [d \in Details |-> CP!Amount(d, o)]
<1>1. f = g
  BY SameAmounts
<1>2. Carts!Listed(o) = Carts!SumFunctionOnSet(f, Details)
  BY DEF Carts!Listed, Carts!SumFunction
<1>3. CP!Listed(o) = CP!SumFunctionOnSet(g, Details)
  BY DEF CP!Listed, CP!SumFunction
<1> HIDE DEF f, g
<1> QED
  BY <1>1, <1>2, <1>3, SameSums

\* Orders and the stock leave the lines as requests on carts expect them; what is
\* in stock no longer counts.
LEMMA LinesShopStep ==
    ShopTyped /\ CP!LinesKept(FALSE) /\ [ShopNext]_shopVars => CP!LinesKept(FALSE)'
<1> SUFFICES ASSUME ShopTyped, CP!LinesKept(FALSE), [ShopNext]_shopVars
             PROVE  CP!LinesKept(FALSE)'
  OBVIOUS
<1>1. ASSUME NEW h \in Handlers, CartStep(h), ShopRecord PROVE CP!LinesKept(FALSE)'
  <2>1. CP!Typed /\ (CP!Update(h) \/ CP!Delete(h)) /\ CP!Record
    BY <1>1, SameSteps, SameRecord DEF CartStep, ShopRecord, ShopTyped
  <2> QED
    BY <2>1, ConstantsHold, CP!LinesServed
<1>2. ASSUME line' = line, overlapped \subseteq overlapped',
             \A h \in Handlers : visit'[h] \in {visit[h], CP!Idle}
      PROVE  CP!LinesKept(FALSE)'
  BY <1>2, ConstantsHold, CP!LinesAside
<1>3. ASSUME NEW h \in Handlers, OrderStep(h), ShopRecord PROVE CP!LinesKept(FALSE)'
  BY <1>2, <1>3, StaysWithOrder
     DEF OrderStep, ShopTyped, ShopRecord, Carts!Record
<1>4. CASE Environment /\ UNCHANGED <<owner, visit>> /\ ShopRecord
  BY <1>2, <1>4 DEF Environment, Settle, CacheExpire, Restock, ShopRecord, Carts!Record
<1>5. CASE Restart /\ ShopRecord
  BY <1>2, <1>5, SameIdle DEF Restart, ShopRecord, Carts!Record
<1>6. CASE UNCHANGED shopVars
  BY <1>2, <1>6 DEF shopVars, cartVars, hvars, vars
<1> QED
  BY <1>1, <1>3, <1>4, <1>5, <1>6 DEF ShopNext

LEMMA LinesShopAlways == ShopSpec => []CP!LinesKept(FALSE)
<1>1. ShopInit => CP!LinesKept(FALSE)
  BY DEF ShopInit, Carts!HInit, Carts!Init, Carts!Idle, Carts!Request, CP!LinesKept,
        CP!Chosen, CP!Kept, CP!Relied, CP!Sound, CP!LinesOf
<1> QED
  BY <1>1, LinesShopStep, ShopTypedAlways, PTL DEF ShopSpec

\* OneLinePerProduct and LinesHaveUnits of CartHistory, among the requests on
\* orders: packing moves the stock under a cart and a rollback reopens it, and
\* still it has one line for a product, with units, unless requests on carts
\* overlapped on the line (order.service.ts:217-302).
THEOREM ShopKeepsLines == ShopSpec => [](Carts!OneLinePerProduct /\ Carts!LinesHaveUnits)
<1>1. ASSUME ShopTyped, CP!LinesKept(FALSE)
      PROVE  Carts!OneLinePerProduct /\ Carts!LinesHaveUnits
  <2>1. ASSUME NEW o \in Orders \ overlapped, NEW p \in Products
        PROVE  Carts!Cardinality(Carts!LinesOf(o, p)) <= 1
    <3>1. \A d, e \in Carts!LinesOf(o, p) : d = e
      BY <1>1, <2>1 DEF CP!LinesKept, CP!Kept, CP!LinesOf, Carts!LinesOf
    <3>2. Cardinality(Carts!LinesOf(o, p)) <= 1
      BY <3>1, ConstantsHold, CP!AtMostOne DEF Cardinality, CP!Cardinality
    <3> QED
      BY <3>2 DEF Cardinality, Carts!Cardinality
  <2>2. ASSUME NEW d \in Details, line[d] # None, line[d].order \notin overlapped
        PROVE  line[d].quantity >= 1
    <3>1. /\ line[d].order \in Orders \ overlapped /\ line[d].product \in Products
          /\ line[d].quantity \in Int
      BY <1>1, <2>2 DEF ShopTyped, TypeOK, OrderDetail
    <3>2. d \in CP!LinesOf(line[d].order, line[d].product)
      BY <2>2 DEF CP!LinesOf
    <3>3. 1 <= line[d].quantity
      BY <1>1, <3>1, <3>2 DEF CP!LinesKept, CP!Kept
    <3> QED
      BY <3>1, <3>3
  <2> QED
    BY <2>1, <2>2 DEF Carts!OneLinePerProduct, Carts!LinesHaveUnits
<1> QED
  BY <1>1, ShopTypedAlways, LinesShopAlways, PTL

-----------------------------------------------------------------------------
(* What a packing takes *)

LinePrice(l) == l.quantity * Price[l.product]

\* What the lines a confirm read, or some of them, are worth.
Goods(lines, some) == SumFunction([d \in Details |->
    IF d \in some /\ lines[d] # None THEN LinePrice(lines[d]) ELSE 0])

LEMMA LinePriceInt == \A l \in OrderDetail : LinePrice(l) \in Int
<1>1. \A a, b \in Int : a * b \in Int
  OBVIOUS
<1> QED
  BY <1>1, ShopAssumption DEF LinePrice, OrderDetail

\* Its summands.
LEMMA GoodsSum ==
    ASSUME NEW lines \in Reads, NEW some
    PROVE  LET f == [d \in Details |->
                        IF d \in some /\ lines[d] # None THEN LinePrice(lines[d]) ELSE 0]
           IN  /\ Goods(lines, some) = SumFunctionOnSet(f, Details)
               /\ \A d \in Details : f[d] \in Int
               /\ IsFiniteSet(Details)
BY LinePriceInt, ShopAssumption DEF Goods, SumFunction, Reads

LEMMA GoodsInt ==
    ASSUME NEW lines \in Reads, NEW some
    PROVE  Goods(lines, some) \in Int
<1> DEFINE f == [d \in Details |->
                    IF d \in some /\ lines[d] # None THEN LinePrice(lines[d]) ELSE 0]
<1>1. /\ Goods(lines, some) = SumFunctionOnSet(f, Details)
      /\ \A d \in Details : f[d] \in Int
      /\ IsFiniteSet(Details)
  BY GoodsSum
<1> HIDE DEF f
<1> QED
  BY <1>1, SumInt

\* The details there are are all there is to count.
LEMMA GoodsAll ==
    ASSUME NEW lines
    PROVE  /\ Goods(lines, Listed(lines)) = Goods(lines, Details)
           /\ Listed(lines) = {} => Goods(lines, Details) = 0
<1> DEFINE f(some) == [d \in Details |->
                    IF d \in some /\ lines[d] # None THEN LinePrice(lines[d]) ELSE 0]
<1>1. f(Listed(lines)) = f(Details)
  BY DEF Listed
<1>2. Goods(lines, Listed(lines)) = Goods(lines, Details)
  BY <1>1 DEF Goods
<1>3. ASSUME Listed(lines) = {} PROVE Goods(lines, Details) = 0
  <2>1. \A d \in Details : f(Details)[d] = 0
    BY <1>3 DEF Listed
  <2>2. Goods(lines, Details) = SumFunctionOnSet(f(Details), Details)
    BY DEF Goods, SumFunction
  <2> HIDE DEF f
  <2> QED
    BY <2>1, <2>2, SumZero, ShopAssumption
<1> QED
  BY <1>2, <1>3

\* Without one of them it is its price less.
LEMMA GoodsLess ==
    ASSUME NEW lines \in Reads, NEW some \in SUBSET Details, NEW d \in some,
           lines[d] \in OrderDetail
    PROVE  Goods(lines, some) = Goods(lines, some \ {d}) + LinePrice(lines[d])
<1> DEFINE f == [e \in Details |->
                    IF e \in some /\ lines[e] # None THEN LinePrice(lines[e]) ELSE 0]
           g == [e \in Details |->
                    IF e \in some \ {d} /\ lines[e] # None THEN LinePrice(lines[e]) ELSE 0]
<1>1. /\ Goods(lines, some) = SumFunctionOnSet(f, Details)
      /\ Goods(lines, some \ {d}) = SumFunctionOnSet(g, Details)
      /\ \A e \in Details : f[e] \in Int /\ g[e] \in Int
      /\ IsFiniteSet(Details)
  BY GoodsSum
<1>2. lines[d] # None /\ d \in Details
  BY OrderAssumption
<1>3. f[d] = LinePrice(lines[d]) /\ g[d] = 0 /\ \A e \in Details \ {d} : f[e] = g[e]
  BY <1>2
<1> HIDE DEF f, g
<1>4. SumFunctionOnSet(g, Details) = SumFunctionOnSet(f, Details) - f[d] + g[d]
  BY <1>1, <1>2, <1>3, SumChanged
<1>5. SumFunctionOnSet(f, Details) \in Int
  BY <1>1, SumInt
<1> QED
  BY <1>1, <1>2, <1>3, <1>4, <1>5

LEMMA GoodsOfNone == \A lines : Goods(lines, {}) = 0
<1> SUFFICES ASSUME NEW lines PROVE Goods(lines, {}) = 0
  OBVIOUS
<1> DEFINE f == [d \in Details |->
                    IF d \in {} /\ lines[d] # None THEN LinePrice(lines[d]) ELSE 0]
<1>1. Goods(lines, {}) = SumFunctionOnSet(f, Details) /\ \A d \in Details : f[d] = 0
  BY DEF Goods, SumFunction
<1> HIDE DEF f
<1> QED
  BY <1>1, SumZero, ShopAssumption

\* A confirm that reads the lines of an order reads what is listed.
LEMMA GoodsRead ==
    ASSUME NEW o \in Orders
    PROVE  Goods([d \in Details |-> IF d \in DetailsOf(o) THEN line[d] ELSE None], Details)
                = CP!Listed(o)
<1> DEFINE lines == [d \in Details |-> IF d \in DetailsOf(o) THEN line[d] ELSE None]
           f == [d \in Details |->
                    IF d \in Details /\ lines[d] # None THEN LinePrice(lines[d]) ELSE 0]
           g == [d \in Details |-> CP!Amount(d, o)]
<1>1. f = g
  BY DEF DetailsOf, CP!Amount, LinePrice
<1>2. Goods(lines, Details) = SumFunctionOnSet(f, Details)
  BY DEF Goods, SumFunction
<1>3. CP!Listed(o) = CP!SumFunctionOnSet(g, Details)
  BY DEF CP!Listed, CP!SumFunction
<1> HIDE DEF f, g
<1> QED
  BY <1>1, <1>2, <1>3, SameSums

\* Taking one line from the stock takes what it is worth.
LEMMA TakenByLine ==
    ASSUME TypeOK, NEW h \in Handlers, NEW d \in Details, DeductLine(h, d)
    PROVE  TakenNow(req[h].order) = LinePrice(req[h].lines[d])
<1> DEFINE l == req[h].lines[d]
           f == [p \in Products |-> Price[p] * (stock[p] - stock'[p])]
           zero == [p \in Products |-> 0]
<1>1. /\ req[h].pc = "deduct" /\ d \in req[h].todo /\ l \in OrderDetail
      /\ stock' = [stock EXCEPT ![l.product] = @ - l.quantity]
  BY DEF DeductLine, At, TypeOK, TypedSlot
<1>2. l.product \in Products /\ l.quantity \in Int /\ stock \in [Products -> Int]
  BY <1>1 DEF OrderDetail, TypeOK
<1>3. req'[h] # req[h]
  <2>1. \A pc, o, lines : Deducting(o, lines, req[h].todo \ {d}).todo = req[h].todo \ {d}
    BY RequestBuilt DEF Deducting
  <2>2. req'[h] = Idle \/ req'[h].todo = req[h].todo \ {d}
    BY <2>1 DEF DeductLine, Become, TypeOK
  <2> QED
    BY <1>1, <2>2, RequestFields
<1>4. TakenNow(req[h].order) = SumFunctionOnSet(f, Products)
  BY <1>1, <1>3 DEF TakenNow, At, SumFunction
<1>5. /\ f[l.product] = Price[l.product] * l.quantity
      /\ \A p \in Products \ {l.product} : f[p] = 0
  <2>1. /\ stock[l.product] - stock'[l.product] = l.quantity
        /\ \A p \in Products \ {l.product} : stock[p] - stock'[p] = 0
    BY <1>1, <1>2
  <2>2. \A p \in Products : Price[p] * 0 = 0
    BY ShopAssumption
  <2> QED
    BY <1>2, <2>1, <2>2
<1>6. Price[l.product] * l.quantity = LinePrice(l) /\ LinePrice(l) \in Int
  <2>1. Price[l.product] \in Int
    BY <1>2, ShopAssumption
  <2>2. \A a, b \in Int : a * b = b * a
    OBVIOUS
  <2> QED
    BY <1>1, <1>2, <2>1, <2>2, LinePriceInt DEF LinePrice
<1>7. SumFunctionOnSet(zero, Products) = 0
  BY SumZero, ShopAssumption
<1> QED
  <2>1. /\ \A p \in Products : zero[p] \in Int /\ f[p] \in Int
        /\ \A p \in Products \ {l.product} : zero[p] = f[p]
        /\ zero[l.product] = 0
    BY <1>2, <1>5, <1>6
  <2> HIDE DEF f, zero
  <2>2. SumFunctionOnSet(f, Products)
            = SumFunctionOnSet(zero, Products) - zero[l.product] + f[l.product]
    BY <1>2, <2>1, SumChanged, ShopAssumption
  <2> QED
    BY <1>4, <1>5, <1>6, <1>7, <2>1, <2>2

-----------------------------------------------------------------------------
(* Regular orders *)

\* A request on a cart has something to add to the total of o.
Owing(o) == \E h \in Handlers : CP!Owed(h, o) # 0

\* n is the total of o, or that is still to change.
Billed(o, n) == n = doc[o].total \/ Owing(o)

\* The confirm of h packs o: it will take the lines it read from the stock.
Packs(h, o) ==
    /\ req[h].order = o
    /\ \/ req[h].pc = "deduct"
       \/ req[h].pc = "remember" /\ req[h].data.status = "PREPARES_PACKAGE"

\* A confirm writes a total only when it rolls back, and no cart is rolled back.
ConfirmKnown(h) ==
    /\ req[h].pc \in {"lines", "check"} =>
            req[h].data.status # "CANCEL" /\ req[h].data.total = None
    /\ req[h].pc = "fetch" => req[h].seen.status # "CART"
    /\ (req[h].pc = "update" /\ req[h].seen.status = "CART") =>
            req[h].data # None /\ req[h].data.total = None

\* What a request has read of o is what it is about to be packed or paid for.
RightlyRead(h, o) == req[h].order = o =>
    /\ req[h].pc \in {"check", "fetch", "update"} =>
            Billed(o, Goods(req[h].lines, Details))
    /\ req[h].pc = "pay" => req[h].seen.total = doc[o].total
    /\ req[h].pc = "redirect" =>
            req[h].seen.total = doc[o].total /\ doc[o].status # "CART"
    /\ req[h].pc \in {"ipn", "reply"} => gateway[o] # "none"

Early == {"CART", "PENDING"}

\* What has been taken for o, and what its one packing has still to take, is its
\* total.
RightlyPacked(o) ==
    /\ \A g, h \in Handlers : Packs(g, o) /\ Packs(h, o) => g = h
    /\ \A h \in Handlers : Packs(h, o) =>
        IF req[h].pc = "deduct"
        THEN Billed(o, taken[o] + Goods(req[h].lines, req[h].todo))
        ELSE taken[o] = 0 /\ Billed(o, Goods(req[h].lines, Details))
    /\ doc[o].status \in Early =>
        taken[o] = 0 /\ \A h \in Handlers : ~Packs(h, o)
    /\ (doc[o].status \notin Early /\ \A h \in Handlers : ~Packs(h, o)) =>
        Billed(o, taken[o]) \/ (doc[o].status = "CANCEL" /\ taken[o] = 0)

\* VNPay was told the total, which stands.
RightlyBilled(o) ==
    gateway[o] # "none" => bill[o] = doc[o].total /\ doc[o].status # "CART"

Regular(o) ==
    /\ \A h \in Handlers : RightlyRead(h, o)
    /\ RightlyPacked(o) /\ RightlyBilled(o)
    /\ owner[o] # None => CP!Balanced(o)

\* Inductive: an order that is no exception is packed and paid for what its lines
\* add up to.
GoodsFollow ==
    /\ taken \in [Orders -> Int]
    /\ \A o \in Orders : owner[o] = None => doc[o] = NewOrder
    /\ \A h \in Handlers : ConfirmKnown(h)
    /\ \A o \in Orders \ Irregular : Regular(o)

\* A step of an order that is regular afterwards.
OnTrack(o) ==
    /\ o \notin Irregular /\ o \notin Irregular'
    /\ ~LeavesTrack(o) /\ ~Rewritten(o) /\ o \notin Overtaken

LEMMA StaysRegular ==
    ASSUME ShopRecord, cut \subseteq cut', torn \subseteq torn',
           NEW o \in Orders, o \notin Irregular'
    PROVE  OnTrack(o)
BY DEF ShopRecord, Record, Carts!Record, Irregular, OnTrack

\* Where the status of a regular order can come from.
Tracked(o) ==
    LET from == doc[o].status
        to == doc'[o].status
    IN  /\ to \in Early => from \in Early
        /\ to = "CART" => from = "CART"
        /\ from = "CANCEL" => to = "CANCEL"
        /\ to \in {"IN_TRANSPORT", "SUCCESS"} =>
                from \in {"PREPARES_PACKAGE", "IN_TRANSPORT", "SUCCESS"}
        /\ to = "PREPARES_PACKAGE" => from \in Early \cup {"PREPARES_PACKAGE"}

LEMMA StatusTrack ==
    ASSUME TypeOK, TypeOK', NEW o \in Orders, ~LeavesTrack(o)
    PROVE  Tracked(o)
<1> DEFINE from == doc[o].status
           to == doc'[o].status
<1>1. from \in OrderStatuses /\ to \in OrderStatuses
  BY DEF TypeOK, Doc
<1>2. from # to /\ to # "CANCEL" =>
        /\ from # "CANCEL" /\ StepIndex(to) >= StepIndex(from)
        /\ ~(StepIndex(from) < 2 /\ StepIndex(to) > 2)
  <2>1. StepIndex(from) \in Int /\ StepIndex(to) \in Int
    BY <1>1 DEF StepIndex, OrderStatuses
  <2> HIDE DEF from, to
  <2>2. ~(/\ from # to /\ to # "CANCEL"
          /\ \/ from = "CANCEL" \/ StepIndex(to) < StepIndex(from)
             \/ StepIndex(from) < 2 /\ StepIndex(to) > 2)
    BY DEF LeavesTrack, from, to
  <2> QED
    BY <2>1, <2>2
<1>3. /\ StepIndex("CART") = 0 /\ StepIndex("PENDING") = 1
      /\ StepIndex("PREPARES_PACKAGE") = 2 /\ StepIndex("IN_TRANSPORT") = 3
      /\ StepIndex("SUCCESS") = 4
  BY DEF StepIndex
<1> HIDE DEF from, to
<1>4. /\ to \in Early => from \in Early
      /\ to = "CART" => from = "CART"
      /\ from = "CANCEL" => to = "CANCEL"
      /\ to \in {"IN_TRANSPORT", "SUCCESS"} =>
                from \in {"PREPARES_PACKAGE", "IN_TRANSPORT", "SUCCESS"}
      /\ to = "PREPARES_PACKAGE" => from \in Early \cup {"PREPARES_PACKAGE"}
  BY <1>1, <1>2, <1>3 DEF Early, OrderStatuses
<1> QED
  BY <1>4 DEF Tracked, from, to

LEMMA TrackOf ==
    ASSUME TypeOK, TypeOK', NEW o \in Orders, OnTrack(o)
    PROVE  Tracked(o)
BY StatusTrack DEF OnTrack

\* Nothing is taken for an order no confirm of which is in the stock update.
LEMMA NothingTaken ==
    ASSUME GoodsFollow, ShopRecord, NEW o \in Orders,
           \A h \in Handlers :
                req[h].pc = "deduct" /\ req[h].order = o => req'[h] = req[h]
    PROVE  taken'[o] = taken[o]
<1>1. TakenNow(o) = 0
  BY DEF TakenNow, At
<1>2. taken'[o] = taken[o] + TakenNow(o) /\ taken[o] \in Int
  BY DEF ShopRecord, GoodsFollow
<1> QED
  BY <1>1, <1>2

-----------------------------------------------------------------------------
(* Requests on carts among regular orders *)

\* A document is stored once; a request on a cart writes no other that does not
\* belong to anyone yet.
LEMMA CartFresh ==
    ASSUME ShopTyped, NEW h \in Handlers, CP!Update(h) \/ CP!Delete(h),
           NEW o \in Orders, owner'[o] = None
    PROVE  owner[o] = None /\ doc'[o] = doc[o]
<1>1. owner[o] = None
  BY OwnersStay
<1>2. ASSUME NEW n \in Orders, CP!CreateCart(h, n) PROVE n # o
  <2>1. visit[h].owner \in Customers /\ owner'[n] = visit[h].owner
    BY <1>2 DEF CP!CreateCart, CP!At, ShopTyped, CP!Typed, CP!TypedSlot, CP!TypeOK
  <2> QED
    BY <2>1, ShopAssumption
<1>3. CASE \E n \in Orders : CP!CreateCart(h, n)
  BY <1>1, <1>2, <1>3 DEF CP!CreateCart, ShopTyped, TypeOK
<1>4. CASE CP!AddToTotal(h) \/ CP!Uncount(h)
  <2>1. /\ visit[h].order # o
        /\ \E total : doc' = [doc EXCEPT ![visit[h].order].total = total]
    BY <1>1, <1>4 DEF CP!AddToTotal, CP!Uncount, CP!At, ShopTyped, CP!Typed, CP!TypedSlot
  <2> QED
    BY <1>1, <2>1 DEF ShopTyped, TypeOK
<1>5. \/ doc' = doc
      \/ CP!AddToTotal(h) \/ CP!Uncount(h) \/ \E n \in Orders : CP!CreateCart(h, n)
  BY DEF CP!Update, CP!Delete, CP!FindCart, CP!NoCart, CP!AddRead, CP!AddCompare,
        CP!MinusMissing, CP!MinusRead, CP!IncrementLine, CP!NoLineFound,
        CP!RemoveLine, CP!InsertLine, CP!DeleteLine
<1> QED
  BY <1>1, <1>3, <1>4, <1>5

\* A slot that owes something pays it next.
LEMMA Counts ==
    ASSUME NEW h \in Handlers, CP!Update(h) \/ CP!Delete(h),
           visit[h].pc \in {"total", "uncount"}
    PROVE  CP!AddToTotal(h) \/ CP!Uncount(h)
<1>1. visit[h] # CP!Idle
  BY DEF CP!Idle, CP!Request
<1>2. \A u \in Customers, p \in Products, change \in {1, -1} :
            ~CP!FindCart(h, u, p, change) /\ ~CP!NoCart(h, u, p, change)
  BY <1>1 DEF CP!FindCart, CP!NoCart, CP!Begin
<1>3. \A d \in Details : ~CP!DeleteLine(h, d) /\ ~CP!InsertLine(h, d)
  BY <1>1 DEF CP!DeleteLine, CP!InsertLine, CP!Begin, CP!At
<1>4. \A o \in Orders : ~CP!CreateCart(h, o)
  BY DEF CP!CreateCart, CP!At
<1>5. /\ ~CP!AddRead(h) /\ ~CP!AddCompare(h) /\ ~CP!MinusMissing(h) /\ ~CP!MinusRead(h)
      /\ ~CP!IncrementLine(h) /\ ~CP!NoLineFound(h) /\ ~CP!RemoveLine(h)
  BY DEF CP!AddRead, CP!AddCompare, CP!MinusMissing, CP!MinusRead, CP!IncrementLine,
        CP!NoLineFound, CP!RemoveLine, CP!At
<1> QED
  BY <1>2, <1>3, <1>4, <1>5 DEF CP!Update, CP!Delete

\* When nothing is owed to it the total is what the lines add up to.
LEMMA OwesNothing ==
    ASSUME ShopTyped, NEW o \in Orders, CP!Balanced(o), ~Owing(o)
    PROVE  doc[o].total = CP!Listed(o)
<1> DEFINE f == [h \in Handlers |-> CP!Owed(h, o)]
<1>1. \A h \in Handlers : f[h] = 0
  BY DEF Owing
<1>2. CP!Pending(o) = CP!SumFunctionOnSet(f, Handlers)
  BY DEF CP!Pending, CP!SumFunction
<1> HIDE DEF f
<1>3. CP!Pending(o) = 0
  BY <1>1, <1>2, SameSums, SumZero, ShopAssumption
<1>4. doc[o].total \in Int
  BY DEF ShopTyped, TypeOK, Doc
<1> QED
  BY <1>3, <1>4 DEF CP!Balanced

\* The step in which a slot stops owing changes the total it owed to, or the
\* order is known to have lost a line late.
LEMMA OwingPaid ==
    ASSUME ShopTyped, ShopTyped', CP!LinesKept(FALSE), NEW h \in Handlers,
           CP!Update(h) \/ CP!Delete(h), CP!Record, NEW o \in Orders, o \notin stale',
           doc'[o].total = doc[o].total, Owing(o)
    PROVE  Owing(o)'
<1> USE ConstantsHold
<1>1. PICK g \in Handlers : CP!Owed(g, o) # 0
  BY DEF Owing
<1>2. \A f \in Handlers : f # h => visit'[f] = visit[f]
  BY CP!ChosenStep DEF CP!LinesKept, ShopTyped, CP!Others
<1>3. CASE g # h
  <2>1. visit'[g] = visit[g]
    BY <1>2, <1>3
  <2>2. CP!Owed(g, o)' = CP!Owed(g, o)
    BY <2>1 DEF CP!Owed
  <2> QED
    BY <1>1, <2>2 DEF Owing
<1>4. CASE g = h
  <2> DEFINE owed == visit[h].change * Price[visit[h].product]
  <2>1. visit[h].pc \in {"total", "uncount"} /\ visit[h].order = o /\ owed # 0
    BY <1>1, <1>4 DEF CP!Owed, CP!Counting
  <2>2. CP!AddToTotal(h) \/ CP!Uncount(h)
    BY <2>1, Counts
  <2>3. owed \in Int /\ doc[o].total \in Int
    <3>1. CP!AmountsTyped
      BY CP!Amounts DEF ShopTyped
    <3> QED
      BY <1>1, <1>4, <2>1, <3>1 DEF CP!AmountsTyped, CP!Owed, CP!Counting
  <2>4. CASE CP!AddToTotal(h)
    <3>1. doc' = [doc EXCEPT ![o].total = @ + owed]
      BY <2>1, <2>4 DEF CP!AddToTotal
    <3> HIDE DEF owed
    <3>2. doc'[o].total = doc[o].total + owed
      BY <3>1 DEF ShopTyped, TypeOK, Doc
    <3> QED
      BY <2>1, <2>3, <3>2
  <2>5. CASE CP!Uncount(h)
    <3>1. doc[o].status = "CART"
      <4>1. visit'[h] = CP!Idle
        BY <2>5 DEF CP!Uncount, CP!Finish, CP!Become, ShopTyped, CP!Typed, CP!TypeOK
      <4> QED
        BY <2>1, <2>5, <4>1 DEF CP!Record, CP!LateDelete, CP!Uncount
    <3>2. doc' = [doc EXCEPT ![o].total = @ + owed]
      BY <2>1, <2>5, <3>1 DEF CP!Uncount
    <3> HIDE DEF owed
    <3>3. doc'[o].total = doc[o].total + owed
      BY <3>2 DEF ShopTyped, TypeOK, Doc
    <3> QED
      BY <2>1, <2>3, <3>3
  <2> QED
    BY <2>2, <2>4, <2>5
<1> QED
  BY <1>3, <1>4

\* Where a confirm or a payment has read a regular order, and once it is no longer
\* a cart, its total stands.
LEMMA TotalStands ==
    ASSUME ShopTyped, ShopTyped', CP!LinesKept(FALSE), NEW h \in Handlers, CartStep(h),
           ShopRecord, NEW o \in Orders, OnTrack(o),
           \/ doc[o].status # "CART"
           \/ \E g \in Handlers : req[g].order = o /\ Open(req[g])
    PROVE  doc'[o].total = doc[o].total /\ (Owing(o) => Owing(o)')
<1>1. (CP!Update(h) \/ CP!Delete(h)) /\ CP!Record /\ req' = req /\ o \notin stale'
  BY SameSteps, SameRecord DEF CartStep, ShopRecord, OnTrack, Irregular
<1>2. doc'[o].total = doc[o].total
  <2>1. CASE doc[o].status # "CART"
    BY <2>1 DEF OnTrack, Rewritten
  <2>2. CASE \E g \in Handlers : req[g].order = o /\ Open(req[g])
    BY <1>1, <2>2 DEF OnTrack, Overtaken
  <2> QED
    BY <2>1, <2>2
<1> QED
  BY <1>1, <1>2, OwingPaid

LEMMA RegularCartStep ==
    ASSUME ShopTyped, ShopTyped', CP!LinesKept(FALSE), GoodsFollow, NEW h \in Handlers,
           CartStep(h), ShopRecord, NEW o \in Orders, OnTrack(o)
    PROVE  Regular(o)'
<1>1. /\ CP!Update(h) \/ CP!Delete(h)
      /\ UNCHANGED <<cache, gateway, bill, req>> /\ CP!Record
  BY SameSteps, SameRecord DEF CartStep, ShopRecord
<1>2. Regular(o)
  BY DEF GoodsFollow, OnTrack
<1>3. doc'[o].status = doc[o].status
  BY <1>1, CartDocs DEF GoodsFollow
<1>4. taken'[o] = taken[o]
  BY <1>1, NothingTaken
<1>5. doc[o].status # "CART" =>
        doc'[o].total = doc[o].total /\ (Owing(o) => Owing(o)')
  BY TotalStands
<1>6. ASSUME NEW g \in Handlers PROVE RightlyRead(g, o)'
  <2>1. (req[g].order = o /\ req[g].pc \in {"check", "fetch", "update", "pay"}) =>
            doc'[o].total = doc[o].total /\ (Owing(o) => Owing(o)')
    BY TotalStands DEF Open
  <2> QED
    BY <1>1, <1>2, <1>3, <1>5, <2>1 DEF Regular, RightlyRead, Billed
<1>7. RightlyPacked(o)'
  <2>1. \A g \in Handlers : Packs(g, o)' <=> Packs(g, o)
    BY <1>1 DEF Packs
  <2>2. \A g \in Handlers : Packs(g, o) => doc[o].status # "CART"
    BY <1>2 DEF Regular, RightlyPacked, Early
  <2>3. CASE doc[o].status = "CART"
    BY <1>2, <1>3, <1>4, <2>1, <2>3 DEF Regular, RightlyPacked, Early
  <2>4. CASE doc[o].status # "CART"
    <3>1. \A n : Billed(o, n) => n = doc'[o].total \/ Owing(o)'
      BY <1>5, <2>4 DEF Billed
    <3> QED
      BY <1>1, <1>2, <1>3, <1>4, <2>1, <3>1 DEF Regular, RightlyPacked, Billed
  <2> QED
    BY <2>3, <2>4
<1>8. RightlyBilled(o)'
  BY <1>1, <1>2, <1>3, <1>5 DEF Regular, RightlyBilled
<1>9. ASSUME owner'[o] # None PROVE CP!Balanced(o)'
  <2>1. o \notin overlapped' \cup stale' /\ (owner[o] # None => CP!Balanced(o))
    BY <1>2 DEF OnTrack, Irregular, Regular
  <2> QED
    BY <1>1, <1>9, <2>1, ConstantsHold, CP!BalanceServed DEF ShopTyped
<1> QED
  BY <1>6, <1>7, <1>8, <1>9 DEF Regular

-----------------------------------------------------------------------------
(* Requests about regular orders *)

\* A step of the request of h, which touches no cart.
Serves(h) ==
    /\ UNCHANGED <<owner, visit, line>>
    /\ \A g \in Handlers \ {h} : req'[g] = req[g]

LEMMA OrderServes ==
    ASSUME ShopTyped, NEW h \in Handlers, OrderStep(h)
    PROVE  /\ Confirm(h) \/ Customer(h) \/ Ipn(h)
           /\ Serves(h)
           /\ req[h] = Idle \/ req'[h] = Idle \/ req'[h].order = req[h].order
BY StaysWithOrder DEF OrderStep, Serves, ShopTyped

\* The rest of the order changes as each request says; what its total is compared
\* with stays.
LEMMA BilledStays ==
    ASSUME visit' = visit, NEW o, doc'[o].total = doc[o].total
    PROVE  (Owing(o)' <=> Owing(o)) /\ \A n : Billed(o, n)' <=> Billed(o, n)
BY DEF Owing, CP!Owed, Billed

\* What is left to show of a step of h that leaves the total.
LEMMA RegularAlong ==
    ASSUME GoodsFollow, NEW h \in Handlers, Serves(h),
           NEW o \in Orders, OnTrack(o), Tracked(o), doc'[o].total = doc[o].total,
           gateway[o] # "none" => gateway'[o] # "none",
           RightlyRead(h, o)', RightlyPacked(o)', RightlyBilled(o)'
    PROVE  Regular(o)'
<1>1. Regular(o)
  BY DEF GoodsFollow, OnTrack
<1>2. ASSUME NEW g \in Handlers \ {h} PROVE RightlyRead(g, o)'
  <2>1. req'[g] = req[g] /\ \A n : Billed(o, n)' <=> Billed(o, n)
    BY BilledStays DEF Serves
  <2>2. RightlyRead(g, o)
    BY <1>1 DEF Regular
  <2> QED
    BY <2>1, <2>2 DEF RightlyRead, Tracked
<1>3. owner'[o] # None => CP!Balanced(o)'
  <2>1. \A g \in Handlers : CP!Owed(g, o)' = CP!Owed(g, o)
    BY DEF CP!Owed, Serves
  <2> QED
    BY <1>1, <2>1, ConstantsHold, CP!BalanceAside DEF Regular, Serves
<1> QED
  BY <1>2, <1>3 DEF Regular

\* A step that neither packs nor is part of a packing.
LEMMA PackedStays ==
    ASSUME GoodsFollow, NEW h \in Handlers, Serves(h),
           NEW o \in Orders, OnTrack(o), Tracked(o), doc'[o].total = doc[o].total,
           taken'[o] = taken[o], ~Packs(h, o), ~Packs(h, o)',
           doc'[o].status = "PREPARES_PACKAGE" => doc[o].status = "PREPARES_PACKAGE",
           doc'[o].status \in OrderStatuses
    PROVE  RightlyPacked(o)'
<1>1. RightlyPacked(o)
  BY DEF GoodsFollow, OnTrack, Regular
<1>2. \A n : Billed(o, n)' <=> Billed(o, n)
  BY BilledStays DEF Serves
<1>3. \A g \in Handlers : (Packs(g, o)' <=> Packs(g, o))
                          /\ (Packs(g, o) => req'[g] = req[g])
  BY DEF Packs, Serves
<1>4. doc'[o].status \in Early => doc[o].status \in Early
  BY DEF Tracked
<1>5. doc'[o].status \notin Early /\ (\A g \in Handlers : ~Packs(g, o))
        => Billed(o, taken[o]) \/ (doc'[o].status = "CANCEL" /\ taken[o] = 0)
  <2>1. CASE doc[o].status \in Early
    <3>1. taken[o] = 0
      BY <1>1, <2>1 DEF RightlyPacked
    <3>2. doc'[o].status \notin Early => doc'[o].status = "CANCEL"
      BY <2>1 DEF Tracked, Early, OrderStatuses
    <3> QED
      BY <3>1, <3>2
  <2>2. CASE doc[o].status \notin Early
    BY <1>1, <2>2 DEF RightlyPacked, Tracked
  <2> QED
    BY <2>1, <2>2
<1> QED
  BY <1>1, <1>2, <1>3, <1>4, <1>5 DEF RightlyPacked

LEMMA BillStands ==
    ASSUME GoodsFollow, NEW o \in Orders, OnTrack(o), Tracked(o),
           doc'[o].total = doc[o].total, gateway'[o] = gateway[o], bill'[o] = bill[o]
    PROVE  RightlyBilled(o)'
BY DEF GoodsFollow, OnTrack, Regular, RightlyBilled, Tracked

\* A request writes no other order than its own.
LEMMA OtherOrders ==
    ASSUME ShopTyped, NEW h \in Handlers, Confirm(h) \/ Customer(h) \/ Ipn(h),
           NEW o \in Orders, req[h].order # o
    PROVE  doc'[o] = doc[o] /\ gateway'[o] = gateway[o] /\ bill'[o] = bill[o]
<1>1. doc \in [Orders -> Doc] /\ DOMAIN gateway = Orders /\ DOMAIN bill = Orders
  BY DEF ShopTyped, TypeOK
<1>2. \/ UNCHANGED <<doc, gateway, bill>>
      \/ UpdateOrder(h) \/ CancelWrite(h) \/ CheckoutWrite(h) \/ CreatePaymentWrite(h)
      \/ Redirect(h) \/ IpnWrite(h) \/ IpnReply(h)
  <2>1. CASE Confirm(h)
    BY <2>1 DEF Confirm, ConfirmRead, ReadLines, CheckLine, RejectLine, FetchPrevious,
          Remember, DeductLine
  <2>2. CASE Customer(h)
    BY <2>2 DEF Customer, CancelRead, CheckoutRead, CreatePaymentRead
  <2>3. CASE Ipn(h)
    BY <2>3 DEF Ipn, IpnRead, IpnAlready, IpnReplyLost
  <2> QED
    BY <2>1, <2>2, <2>3
<1>3. CASE UpdateOrder(h) \/ CancelWrite(h) \/ CheckoutWrite(h) \/ CreatePaymentWrite(h)
           \/ IpnWrite(h)
  <2>1. UNCHANGED <<gateway, bill>> /\ \E d : doc' = [doc EXCEPT ![req[h].order] = d]
    BY <1>3 DEF UpdateOrder, CancelWrite, CheckoutWrite, CreatePaymentWrite, IpnWrite
  <2> QED
    BY <1>1, <2>1
<1>4. CASE Redirect(h) \/ IpnReply(h)
  BY <1>1, <1>4 DEF Redirect, IpnReply
<1> QED
  BY <1>2, <1>3, <1>4

\* What a request that begins has read.
LEMMA BegunRightly ==
    ASSUME ShopTyped, GoodsFollow, NEW h \in Handlers,
           Confirm(h) \/ Customer(h) \/ Ipn(h), req[h] = Idle, NEW o \in Orders
    PROVE  RightlyRead(h, o)' /\ ~Packs(h, o)'
<1> DEFINE new == req'[h]
<1>1. ASSUME NEW r, Begin(h, r) PROVE new = r
  BY <1>1 DEF Begin, Become, ShopTyped, TypeOK
<1>2. req[h].pc = "idle"
  BY RequestFields
<1>3. CASE Confirm(h)
  <2>1. PICK q \in Orders, to \in Targets, payArg \in PayArgs : ConfirmRead(h, q, to, payArg)
    BY <1>2, <1>3 DEF Confirm, ReadLines, CheckLine, RejectLine, FetchPrevious,
          UpdateOrder, Remember, DeductLine, At
  <2>2. new.pc = "lines"
    BY <1>1, <2>1, RequestBuilt DEF ConfirmRead, Confirming
  <2> QED
    BY <2>2 DEF RightlyRead, Packs
<1>4. CASE Customer(h)
  <2>1. \/ \E q \in Orders, who \in Actors : CancelRead(h, q, who)
        \/ \E q \in Orders : CheckoutRead(h, q)
        \/ \E q \in Orders : CreatePaymentRead(h, q)
    BY <1>2, <1>4, OrderAssumption
       DEF Customer, CancelWrite, CheckoutWrite, CreatePaymentWrite, Redirect, At
  <2>2. ASSUME NEW q \in Orders, CreatePaymentRead(h, q)
        PROVE  new.pc = "pay" /\ new.order = q /\ new.seen = doc[q] /\ doc' = doc
    BY <1>1, <2>2, NoCopies DEF CreatePaymentRead
  <2>3. ASSUME NEW q \in Orders, NEW who \in Actors, CancelRead(h, q, who)
        PROVE  new.pc = "cancel"
    BY <1>1, <2>3, NoCopies DEF CancelRead
  <2>4. ASSUME NEW q \in Orders, CheckoutRead(h, q) PROVE new.pc = "checkout"
    BY <1>1, <2>4, NoCopies DEF CheckoutRead
  <2> QED
    BY <2>1, <2>2, <2>3, <2>4 DEF RightlyRead, Packs
<1>5. CASE Ipn(h)
  <2>1. \E q \in Orders : IpnRead(h, q) \/ IpnAlready(h, q)
    BY <1>2, <1>5 DEF Ipn, IpnWrite, IpnReply, IpnReplyLost, At
  <2>2. ASSUME NEW q \in Orders, IpnRead(h, q) \/ IpnAlready(h, q)
        PROVE  /\ new.pc \in {"ipn", "reply"} /\ new.order = q
               /\ gateway[q] \in Settlements /\ gateway' = gateway
    BY <1>1, <2>2, NoCopies DEF IpnRead, IpnAlready, Unanswered
  <2> QED
    BY <2>1, <2>2 DEF RightlyRead, Packs, Settlements
<1> QED
  BY <1>3, <1>4, <1>5

LEMMA RegularElsewhere ==
    ASSUME ShopTyped, ShopTyped', GoodsFollow, NEW h \in Handlers, OrderStep(h),
           ShopRecord, NEW o \in Orders, OnTrack(o), req[h].order # o
    PROVE  Regular(o)'
<1>1. /\ Confirm(h) \/ Customer(h) \/ Ipn(h)
      /\ Serves(h)
      /\ req[h] = Idle \/ req'[h] = Idle \/ req'[h].order = req[h].order
  BY OrderServes
<1>2. doc'[o] = doc[o] /\ gateway'[o] = gateway[o] /\ bill'[o] = bill[o]
  BY <1>1, OtherOrders
<1>3. Tracked(o) /\ doc[o].status \in OrderStatuses
  BY TrackOf DEF ShopTyped, TypeOK, Doc
<1>4. taken'[o] = taken[o]
  BY <1>1, NothingTaken DEF Serves
<1>5. RightlyRead(h, o)' /\ ~Packs(h, o)'
  <2>1. CASE req[h] = Idle
    BY <1>1, <2>1, BegunRightly
  <2>2. CASE req[h] # Idle
    <3>1. Idle.order = None /\ None # o
      BY RequestBuilt, OrderAssumption DEF Idle
    <3>2. req'[h].order # o
      BY <1>1, <2>2, <3>1
    <3> QED
      BY <3>2 DEF RightlyRead, Packs
  <2> QED
    BY <2>1, <2>2
<1>6. RightlyPacked(o)'
  BY <1>1, <1>2, <1>3, <1>4, <1>5, PackedStays DEF Packs
<1>7. RightlyBilled(o)'
  BY <1>2, <1>3, BillStands
<1> QED
  BY <1>1, <1>2, <1>3, <1>5, <1>6, <1>7, RegularAlong

\* A cart that nobody overtook gets no total from a confirm.
LEMMA UpdateTotal ==
    ASSUME ShopTyped, UnracedOrders, GoodsFollow, NEW h \in Handlers, UpdateOrder(h),
           NEW o \in Orders, OnTrack(o), req[h].order = o
    PROVE  doc'[o].total = doc[o].total
<1>1. /\ req[h].pc = "update" /\ doc[o] \in Doc
      /\ doc' = [doc EXCEPT ![o] = Updated(doc[o], req[h].data)]
      /\ doc \in [Orders -> Doc]
  BY DEF UpdateOrder, At, ShopTyped, TypeOK
<1>2. CASE doc[o].status # "CART"
  BY <1>2 DEF OnTrack, Rewritten
<1>3. CASE doc[o].status = "CART"
  <2>1. req[h].seen = doc[o]
    BY <1>1 DEF OnTrack, Irregular, UnracedOrders, Undisturbed
  <2>2. req[h].data # None /\ req[h].data.total = None
    BY <1>1, <1>3, <2>1 DEF GoodsFollow, ConfirmKnown
  <2> QED
    BY <1>1, <2>2 DEF Updated
<1> QED
  BY <1>2, <1>3

\* A confirm that goes on with the lines it read.
LEMMA ReadingGoesOn ==
    ASSUME ShopTyped, ShopTyped', GoodsFollow, NEW h \in Handlers, OrderStep(h),
           ShopRecord, NEW o \in Orders, OnTrack(o), req[h].order = o,
           req[h].pc \in {"lines", "check", "fetch", "cancel", "checkout", "ipn",
                         "reply", "redirect", "pay"},
           req'[h].pc \notin {"remember", "deduct"},
           doc'[o].total = doc[o].total,
           doc'[o].status = "PREPARES_PACKAGE" => doc[o].status = "PREPARES_PACKAGE",
           gateway[o] # "none" => gateway'[o] # "none",
           RightlyRead(h, o)', RightlyBilled(o)'
    PROVE  Regular(o)'
<1>1. Serves(h) /\ Tracked(o) /\ doc'[o].status \in OrderStatuses
  BY OrderServes, TrackOf DEF ShopTyped, TypeOK, Doc
<1>2. taken'[o] = taken[o]
  BY <1>1, NothingTaken DEF Serves
<1>3. ~Packs(h, o) /\ ~Packs(h, o)'
  BY DEF Packs
<1>4. RightlyPacked(o)'
  BY <1>1, <1>2, <1>3, PackedStays
<1> QED
  BY <1>1, <1>4, RegularAlong

LEMMA RegularChecks ==
    ASSUME ShopTyped, ShopTyped', GoodsFollow, NEW h \in Handlers, OrderStep(h),
           ShopRecord, NEW o \in Orders, OnTrack(o), req[h].order = o,
           \/ ReadLines(h) \/ FetchPrevious(h)
           \/ \E d \in Details : CheckLine(h, d) \/ RejectLine(h, d)
    PROVE  Regular(o)'
<1> DEFINE r == req[h]
<1>0. /\ UNCHANGED <<doc, gateway, bill>>
      /\ r.pc \in {"lines", "check", "fetch"}
  BY DEF ReadLines, FetchPrevious, CheckLine, RejectLine, At
<1>1. Serves(h) /\ Tracked(o)
  BY OrderServes, TrackOf DEF ShopTyped
<1>2. (Owing(o)' <=> Owing(o)) /\ \A n : Billed(o, n)' <=> Billed(o, n)
  BY <1>0, <1>1, BilledStays DEF Serves
<1>3. RightlyBilled(o)'
  BY <1>0, <1>1, BillStands
<1>4. ASSUME NEW new, Become(h, new) PROVE req'[h] = new
  BY <1>4 DEF Become, ShopTyped, TypeOK
<1>5. req'[h].pc \in {"check", "fetch", "update", "idle"} /\ RightlyRead(h, o)'
  <2>1. CASE ReadLines(h)
    <3> DEFINE lines == [d \in Details |-> IF d \in DetailsOf(o) THEN line[d] ELSE None]
    <3>1. req'[h].pc \in {"check", "fetch", "update"} /\ req'[h].lines = lines
      BY <1>4, <2>1, RequestBuilt DEF ReadLines, Confirming, AfterChecks
    <3>2. Billed(o, Goods(lines, Details))
      <4>1. Goods(lines, Details) = CP!Listed(o)
        BY GoodsRead
      <4>2. owner[o] # None /\ CP!Balanced(o)
        BY <1>0, RequestFields DEF ShopTyped, GoodsFollow, OnTrack, Regular
      <4>3. CASE ~Owing(o)
        BY <4>1, <4>2, <4>3, OwesNothing DEF Billed
      <4> QED
        BY <4>3 DEF Billed
    <3> HIDE DEF lines
    <3> QED
      BY <1>2, <3>1, <3>2 DEF RightlyRead
  <2>2. ASSUME NEW d \in Details, CheckLine(h, d)
        PROVE  /\ req'[h].pc \in {"check", "fetch", "update"}
               /\ r.pc = "check" /\ req'[h].lines = r.lines
    BY <1>4, <2>2, RequestBuilt DEF CheckLine, Confirming, AfterChecks, At
  <2>3. ASSUME FetchPrevious(h)
        PROVE  req'[h].pc = "update" /\ r.pc = "fetch" /\ req'[h].lines = r.lines
    BY <1>4, <2>3, RequestBuilt DEF FetchPrevious, Confirming, At
  <2>4. ASSUME NEW d \in Details, RejectLine(h, d) PROVE req'[h].pc = "idle"
    BY <1>4, <2>4, RequestFields DEF RejectLine, Finish
  <2>5. RightlyRead(h, o)
    BY DEF GoodsFollow, OnTrack, Regular
  <2> QED
    BY <1>2, <2>1, <2>2, <2>3, <2>4, <2>5 DEF RightlyRead
<1> QED
  BY <1>0, <1>3, <1>5, ReadingGoesOn

LEMMA RegularUpdate ==
    ASSUME ShopTyped, ShopTyped', UnracedOrders, GoodsFollow, NEW h \in Handlers,
           OrderStep(h), ShopRecord, NEW o \in Orders, OnTrack(o), req[h].order = o,
           UpdateOrder(h)
    PROVE  Regular(o)'
<1> DEFINE r == req[h]
           new == req'[h]
<1>1. /\ r.pc = "update" /\ UNCHANGED <<gateway, bill>>
      /\ new.pc = "remember" /\ new.order = o /\ new.lines = r.lines
      /\ new.data = doc'[o]
  BY RequestBuilt DEF UpdateOrder, Confirming, Become, At, ShopTyped, TypeOK
<1>2. doc'[o].total = doc[o].total
  BY UpdateTotal
<1>3. Serves(h) /\ Tracked(o) /\ doc'[o].status \in OrderStatuses
  BY OrderServes, TrackOf DEF ShopTyped, TypeOK, Doc
<1>4. taken'[o] = taken[o]
  BY <1>1, <1>3, NothingTaken DEF Serves
<1>5. RightlyRead(h, o)'
  BY <1>1 DEF RightlyRead
<1>6. RightlyBilled(o)'
  BY <1>1, <1>2, <1>3, BillStands
<1>7. CASE doc'[o].status # "PREPARES_PACKAGE"
  <2>1. ~Packs(h, o) /\ ~Packs(h, o)'
    BY <1>1, <1>7 DEF Packs
  <2>2. RightlyPacked(o)'
    BY <1>2, <1>3, <1>4, <1>7, <2>1, PackedStays
  <2> QED
    BY <1>1, <1>2, <1>3, <1>5, <1>6, <2>2, RegularAlong
<1>8. CASE doc'[o].status = "PREPARES_PACKAGE"
  <2>1. doc[o].status \in Early
    BY <1>1, <1>3, <1>8 DEF OnTrack, LeavesTrack, Tracked, At
  <2>2. RightlyPacked(o) /\ RightlyRead(h, o)
    BY DEF GoodsFollow, OnTrack, Regular
  <2>3. taken[o] = 0 /\ \A g \in Handlers : ~Packs(g, o)
    BY <2>1, <2>2 DEF RightlyPacked
  <2>4. \A g \in Handlers : Packs(g, o)' <=> g = h
    BY <1>1, <1>3, <1>8, <2>3 DEF Packs, Serves
  <2>5. Billed(o, Goods(r.lines, Details))
    BY <1>1, <2>2 DEF RightlyRead
  <2>6. \A n : Billed(o, n)' <=> Billed(o, n)
    BY <1>2, <1>3, BilledStays DEF Serves
  <2>7. RightlyPacked(o)'
    BY <1>1, <1>4, <1>8, <2>3, <2>4, <2>5, <2>6 DEF RightlyPacked, Early
  <2> QED
    BY <1>1, <1>2, <1>3, <1>5, <1>6, <2>7, RegularAlong
<1> QED
  BY <1>7, <1>8

\* A packing that goes on, or ends with everything taken.
LEMMA PackingGoesOn ==
    ASSUME ShopTyped, GoodsFollow, NEW h \in Handlers, Serves(h), NEW o \in Orders,
           OnTrack(o), Packs(h, o), doc'[o] = doc[o],
           \/ /\ req'[h].pc = "deduct" /\ req'[h].order = o
              /\ Billed(o, taken'[o] + Goods(req'[h].lines, req'[h].todo))
           \/ req'[h] = Idle /\ Billed(o, taken'[o])
    PROVE  RightlyPacked(o)'
<1>1. RightlyPacked(o)
  BY DEF GoodsFollow, OnTrack, Regular
<1>2. doc'[o].status \notin Early
  BY <1>1 DEF RightlyPacked
<1>3. \A n : Billed(o, n)' <=> Billed(o, n)
  BY BilledStays DEF Serves
<1>4. \A g \in Handlers : Packs(g, o)' => g = h
  BY <1>1 DEF RightlyPacked, Packs, Serves
<1>5. Packs(h, o)' <=> req'[h].pc = "deduct"
  BY RequestFields DEF Packs
<1>6. Idle.pc # "deduct"
  BY RequestFields
<1> QED
  BY <1>2, <1>3, <1>4, <1>5, <1>6 DEF RightlyPacked

LEMMA RegularRemember ==
    ASSUME ShopTyped, ShopTyped', GoodsFollow, NEW h \in Handlers,
           OrderStep(h), ShopRecord, NEW o \in Orders, OnTrack(o), req[h].order = o,
           Remember(h)
    PROVE  Regular(o)'
<1> DEFINE r == req[h]
           new == req'[h]
<1>1. /\ r.pc = "remember" /\ UNCHANGED <<doc, gateway, bill>>
      /\ new = IF r.data.status = "PREPARES_PACKAGE" /\ Listed(r.lines) # {}
               THEN Deducting(o, r.lines, Listed(r.lines)) ELSE Idle
  BY DEF Remember, Become, At, ShopTyped, TypeOK
<1>2. /\ Deducting(o, r.lines, Listed(r.lines)).pc = "deduct"
      /\ Deducting(o, r.lines, Listed(r.lines)).order = o
      /\ Deducting(o, r.lines, Listed(r.lines)).lines = r.lines
      /\ Deducting(o, r.lines, Listed(r.lines)).todo = Listed(r.lines)
  BY RequestBuilt DEF Deducting
<1>3. Serves(h) /\ Tracked(o) /\ doc'[o].status \in OrderStatuses
  BY OrderServes, TrackOf DEF ShopTyped, TypeOK, Doc
<1>4. taken'[o] = taken[o]
  BY <1>1, <1>3, NothingTaken DEF Serves
<1>5. RightlyRead(h, o)'
  BY <1>1, <1>2, RequestFields DEF RightlyRead
<1>6. RightlyBilled(o)'
  BY <1>1, <1>3, BillStands
<1>7. RightlyPacked(o)'
  <2>1. CASE r.data.status # "PREPARES_PACKAGE"
    <3>1. ~Packs(h, o) /\ ~Packs(h, o)'
      BY <1>1, <2>1, RequestFields DEF Packs
    <3> QED
      BY <1>1, <1>3, <1>4, <3>1, PackedStays
  <2>2. CASE r.data.status = "PREPARES_PACKAGE"
    <3>1. Packs(h, o) /\ RightlyPacked(o)
      BY <1>1, <2>2 DEF Packs, GoodsFollow, OnTrack, Regular
    <3>2. taken[o] = 0 /\ Billed(o, Goods(r.lines, Details))
      BY <1>1, <3>1 DEF RightlyPacked
    <3>3. r.lines \in Reads
      BY <1>1, RequestFields DEF ShopTyped, TypeOK
    <3>4. /\ taken[o] + Goods(r.lines, Listed(r.lines)) = Goods(r.lines, Details)
          /\ Listed(r.lines) = {} => taken[o] = Goods(r.lines, Details)
      BY <3>2, <3>3, GoodsAll, GoodsInt
    <3>5. CASE Listed(r.lines) = {}
      <4>1. new = Idle /\ Billed(o, taken'[o])
        BY <1>1, <1>4, <3>2, <3>4, <3>5
      <4> QED
        BY <1>1, <1>3, <3>1, <4>1, PackingGoesOn
    <3>6. CASE Listed(r.lines) # {}
      <4>1. /\ new.pc = "deduct" /\ new.order = o
            /\ Billed(o, taken'[o] + Goods(new.lines, new.todo))
        BY <1>1, <1>2, <1>4, <2>2, <3>2, <3>4, <3>6
      <4> QED
        BY <1>1, <1>3, <3>1, <4>1, PackingGoesOn
    <3> QED
      BY <3>5, <3>6
  <2> QED
    BY <2>1, <2>2
<1> QED
  BY <1>1, <1>3, <1>5, <1>6, <1>7, RegularAlong

LEMMA RegularDeduct ==
    ASSUME ShopTyped, ShopTyped', GoodsFollow, NEW h \in Handlers,
           OrderStep(h), ShopRecord, NEW o \in Orders, OnTrack(o), req[h].order = o,
           NEW d \in Details, DeductLine(h, d)
    PROVE  Regular(o)'
<1> DEFINE r == req[h]
           new == req'[h]
           rest == r.todo \ {d}
<1>1. /\ r.pc = "deduct" /\ d \in r.todo /\ UNCHANGED <<doc, gateway, bill>>
      /\ new = IF r.todo = {d} THEN Idle ELSE Deducting(o, r.lines, rest)
  BY DEF DeductLine, Become, At, ShopTyped, TypeOK
<1>2. /\ Deducting(o, r.lines, rest).pc = "deduct"
      /\ Deducting(o, r.lines, rest).order = o
      /\ Deducting(o, r.lines, rest).lines = r.lines
      /\ Deducting(o, r.lines, rest).todo = rest
  BY RequestBuilt DEF Deducting
<1>3. Serves(h) /\ Tracked(o)
  BY OrderServes, TrackOf DEF ShopTyped
<1>4. /\ r.lines \in Reads /\ r.todo \in SUBSET Details
      /\ r.lines[d] \in OrderDetail
  BY <1>1, RequestFields DEF ShopTyped, TypeOK, TypedSlot
<1>5. /\ taken'[o] = taken[o] + LinePrice(r.lines[d])
      /\ taken[o] \in Int /\ LinePrice(r.lines[d]) \in Int
  BY <1>4, TakenByLine, LinePriceInt DEF ShopTyped, ShopRecord, GoodsFollow
<1>6. Packs(h, o) /\ RightlyPacked(o)
  BY <1>1 DEF Packs, GoodsFollow, OnTrack, Regular
<1>7. Billed(o, taken[o] + Goods(r.lines, r.todo))
  BY <1>1, <1>6 DEF RightlyPacked
<1>8. Goods(r.lines, r.todo) = Goods(r.lines, rest) + LinePrice(r.lines[d])
      /\ Goods(r.lines, rest) \in Int
  BY <1>1, <1>4, GoodsLess, GoodsInt
<1>9. Billed(o, taken'[o] + Goods(r.lines, rest))
  <2>1. taken'[o] + Goods(r.lines, rest) = taken[o] + Goods(r.lines, r.todo)
    BY <1>5, <1>8
  <2> QED
    BY <1>7, <2>1
<1>10. RightlyPacked(o)'
  <2>1. CASE r.todo = {d}
    <3>1. rest = {} /\ taken'[o] + 0 = taken'[o]
      BY <1>5, <2>1
    <3>2. Billed(o, taken'[o])
      BY <1>9, <3>1, GoodsOfNone
    <3> QED
      BY <1>1, <1>3, <1>6, <2>1, <3>2, PackingGoesOn
  <2>2. CASE r.todo # {d}
    BY <1>1, <1>2, <1>3, <1>6, <1>9, <2>2, PackingGoesOn
  <2> QED
    BY <2>1, <2>2
<1>11. RightlyRead(h, o)'
  BY <1>1, <1>2, RequestFields DEF RightlyRead
<1>12. RightlyBilled(o)'
  BY <1>1, <1>3, BillStands
<1> QED
  BY <1>1, <1>3, <1>10, <1>11, <1>12, RegularAlong

\* The other requests leave the totals alone.
LEMMA RegularServed ==
    ASSUME ShopTyped, ShopTyped', GoodsFollow, NEW h \in Handlers,
           OrderStep(h), ShopRecord, NEW o \in Orders, OnTrack(o), req[h].order = o,
           Customer(h) \/ Ipn(h)
    PROVE  Regular(o)'
<1> DEFINE r == req[h]
           new == req'[h]
<1>1. /\ doc \in [Orders -> Doc] /\ doc[o] \in Doc
      /\ gateway[o] \in {"none", "issued", "acked"} \cup Settlements
      /\ DOMAIN gateway = Orders /\ DOMAIN bill = Orders
      /\ Tracked(o)
  BY TrackOf DEF ShopTyped, TypeOK
<1>2. RightlyRead(h, o) /\ RightlyBilled(o)
  BY DEF GoodsFollow, OnTrack, Regular
<1>3. r # Idle
  <2>1. Idle.order = None
    BY RequestBuilt DEF Idle
  <2> QED
    BY <2>1, OrderAssumption
<1>4. ASSUME NEW to, Become(h, to) PROVE new = to
  BY <1>4 DEF Become, ShopTyped, TypeOK
<1>5. CASE CancelWrite(h) \/ CheckoutWrite(h)
  <2>1. /\ r.pc \in {"cancel", "checkout"} /\ new.pc = "idle"
        /\ UNCHANGED <<gateway, bill>>
        /\ \E s \in {"CANCEL", "PENDING"} : doc' = [doc EXCEPT ![o].status = s]
    BY <1>4, <1>5, RequestFields DEF CancelWrite, CheckoutWrite, Finish, At
  <2>2. doc'[o].total = doc[o].total /\ doc'[o].status # "PREPARES_PACKAGE"
    BY <1>1, <2>1 DEF Doc
  <2>3. RightlyRead(h, o)' /\ RightlyBilled(o)'
    BY <1>1, <2>1, <2>2, BillStands DEF RightlyRead
  <2> QED
    BY <2>1, <2>2, <2>3, ReadingGoesOn
<1>6. CASE CreatePaymentWrite(h)
  <2>1. /\ r.pc = "pay" /\ new.pc = "redirect" /\ new.seen = r.seen
        /\ UNCHANGED <<gateway, bill>>
        /\ doc' = [doc EXCEPT ![o] = [@ EXCEPT !.status = "PENDING", !.pay = "SUCCESS"]]
    BY <1>4, <1>6, NoCopies DEF CreatePaymentWrite, At
  <2>2. doc'[o].total = doc[o].total /\ doc'[o].status = "PENDING"
    BY <1>1, <2>1 DEF Doc
  <2>3. RightlyRead(h, o)' /\ RightlyBilled(o)'
    BY <1>1, <1>2, <2>1, <2>2, BillStands DEF RightlyRead
  <2> QED
    BY <2>1, <2>2, <2>3, ReadingGoesOn
<1>7. CASE Redirect(h)
  <2>1. /\ r.pc = "redirect" /\ new.pc = "idle" /\ doc' = doc
        /\ r.seen.total = doc[o].total /\ doc[o].status # "CART"
    BY <1>2, <1>4, <1>7, RequestFields DEF Redirect, Finish, At, RightlyRead
  <2>2. \/ gateway'[o] = gateway[o] /\ bill'[o] = bill[o]
        \/ gateway[o] = "none" /\ bill'[o] = r.seen.total
    BY <1>1, <1>7 DEF Redirect
  <2>3. RightlyRead(h, o)' /\ RightlyBilled(o)'
    BY <1>2, <2>1, <2>2 DEF RightlyRead, RightlyBilled
  <2> QED
    BY <2>1, <2>2, <2>3, ReadingGoesOn
<1>8. CASE IpnWrite(h)
  <2> DEFINE d == IF r.arg = "paid"
                  THEN [doc[o] EXCEPT !.status = "PENDING", !.pay = "SUCCESS"]
                  ELSE [doc[o] EXCEPT !.pay = "FAIL"]
  <2>1. /\ r.pc = "ipn" /\ new.pc = "reply" /\ UNCHANGED <<gateway, bill>>
        /\ doc' = [doc EXCEPT ![o] = d]
    BY <1>4, <1>8, NoCopies DEF IpnWrite, At
  <2>2. d.total = doc[o].total /\ d.status \in {doc[o].status, "PENDING"}
    BY <1>1 DEF Doc
  <2> HIDE DEF d
  <2>3. doc'[o] = d
    BY <1>1, <2>1
  <2>4. RightlyRead(h, o)' /\ RightlyBilled(o)'
    BY <1>1, <1>2, <2>1, <2>2, <2>3, BillStands DEF RightlyRead
  <2> QED
    BY <2>1, <2>2, <2>3, <2>4, ReadingGoesOn
<1>9. CASE IpnReply(h) \/ IpnReplyLost(h)
  <2>1. /\ r.pc = "reply" /\ new.pc = "idle" /\ UNCHANGED <<doc, bill>>
        /\ gateway[o] # "none" /\ gateway'[o] \in {gateway[o], "acked"}
    BY <1>1, <1>2, <1>4, <1>9, RequestFields
       DEF IpnReply, IpnReplyLost, Finish, At, RightlyRead
  <2>2. RightlyRead(h, o)' /\ RightlyBilled(o)'
    BY <1>2, <2>1 DEF RightlyRead, RightlyBilled
  <2> QED
    BY <2>1, <2>2, ReadingGoesOn
<1> QED
  <2>1. CASE Customer(h)
    BY <1>3, <1>5, <1>6, <1>7, <2>1
       DEF Customer, CancelRead, CheckoutRead, CreatePaymentRead, Begin
  <2>2. CASE Ipn(h)
    BY <1>3, <1>8, <1>9, <2>2 DEF Ipn, IpnRead, IpnAlready, Begin
  <2> QED
    BY <2>1, <2>2

LEMMA RegularOrderStep ==
    ASSUME ShopTyped, ShopTyped', UnracedOrders, GoodsFollow, NEW h \in Handlers,
           OrderStep(h), ShopRecord, NEW o \in Orders, OnTrack(o)
    PROVE  Regular(o)'
<1>1. CASE req[h].order # o
  BY <1>1, RegularElsewhere
<1>2. CASE req[h].order = o
  <2>1. CASE Confirm(h)
    <3>1. req[h] # Idle
      <4>1. Idle.order = None
        BY RequestBuilt DEF Idle
      <4> QED
        BY <1>2, <4>1, OrderAssumption
    <3>2. \A q \in Orders, to \in Targets, payArg \in PayArgs :
                ~ConfirmRead(h, q, to, payArg)
      BY <3>1 DEF ConfirmRead, Begin
    <3> QED
      BY <1>2, <2>1, <3>2, RegularChecks, RegularUpdate, RegularRemember, RegularDeduct
         DEF Confirm
  <2> QED
    BY <1>2, <2>1, RegularServed, OrderServes
<1> QED
  BY <1>1, <1>2

\* A confirm that is accepted writes no total, unless it is a rollback.
LEMMA KnownOrderStep ==
    ASSUME ShopTyped, GoodsFollow, NEW h \in Handlers, OrderStep(h), NEW g \in Handlers
    PROVE  ConfirmKnown(g)'
<1> DEFINE r == req[h]
           new == req'[h]
<1>1. (Confirm(h) \/ Customer(h) \/ Ipn(h)) /\ Serves(h)
  BY OrderServes
<1>2. CASE g # h
  BY <1>1, <1>2 DEF Serves, GoodsFollow, ConfirmKnown
<1>3. ASSUME NEW to, Become(h, to) PROVE new = to
  BY <1>3 DEF Become, ShopTyped, TypeOK
<1>4. ConfirmKnown(h)
  BY DEF GoodsFollow
<1>5. CASE Confirm(h)
  <2>1. ASSUME NEW o \in Orders, NEW to \in Targets, NEW payArg \in PayArgs,
               ConfirmRead(h, o, to, payArg)
        PROVE  ConfirmKnown(h)'
    <3> DEFINE data == [status |-> to, pay |-> ConfirmedPayment(doc[o], to, payArg),
                        total |-> None]
    <3>1. new = Confirming("lines", o, doc[o], data, NoLines, {})
          /\ StepIndex(to) # -1
      BY <1>3, <2>1 DEF ConfirmRead, Begin, Confirmable
    <3>2. new.pc = "lines" /\ new.data = data
      BY <3>1, RequestBuilt DEF Confirming
    <3>3. data.status # "CANCEL" /\ data.total = None
      BY <3>1 DEF StepIndex
    <3> QED
      BY <3>2, <3>3 DEF ConfirmKnown
  <2>2. ASSUME NEW todo, NEW lines, NEW pc \in {AfterChecks(r.seen, r.data), "check"},
               Become(h, Confirming(pc, r.order, r.seen, r.data, lines, todo)),
               r.pc \in {"lines", "check"}
        PROVE  ConfirmKnown(h)'
    <3>1. new.pc = pc /\ new.seen = r.seen /\ new.data = r.data
      BY <1>3, <2>2, RequestBuilt DEF Confirming
    <3>2. r.data \in Update /\ r.data.status # "CANCEL" /\ r.data.total = None
          /\ r.seen \in Doc
      BY <1>4, <2>2 DEF ConfirmKnown, ShopTyped, TypeOK, TypedSlot
    <3>3. r.data # None
      BY <3>2, OrderAssumption
    <3>4. IsRollback(r.seen.status, r.data.status) => r.seen.status # "CART"
      BY <3>2 DEF IsRollback, StepIndex, Update, OrderStatuses
    <3> QED
      BY <2>2, <3>1, <3>2, <3>3, <3>4 DEF ConfirmKnown, AfterChecks
  <2>3. ASSUME ReadLines(h) PROVE ConfirmKnown(h)'
    BY <2>2, <2>3 DEF ReadLines, At
  <2>4. ASSUME NEW d \in Details, CheckLine(h, d) PROVE ConfirmKnown(h)'
    BY <2>2, <2>4 DEF CheckLine, At
  <2>5. ASSUME FetchPrevious(h) PROVE ConfirmKnown(h)'
    <3>1. new.pc = "update" /\ new.seen = r.seen /\ r.pc = "fetch"
      BY <1>3, <2>5, RequestBuilt DEF FetchPrevious, Confirming, At
    <3> QED
      BY <1>4, <3>1 DEF ConfirmKnown
  <2>6. ASSUME \/ UpdateOrder(h) \/ Remember(h)
               \/ \E d \in Details : RejectLine(h, d) \/ DeductLine(h, d)
        PROVE  ConfirmKnown(h)'
    <3>1. /\ \A o, seen, data, lines, todo :
                Confirming("remember", o, seen, data, lines, todo).pc = "remember"
          /\ \A o, lines, todo : Deducting(o, lines, todo).pc = "deduct"
          /\ Idle.pc = "idle"
      BY RequestBuilt, RequestFields DEF Confirming, Deducting
    <3>2. ASSUME UpdateOrder(h) PROVE new.pc = "remember"
      BY <1>3, <3>1, <3>2 DEF UpdateOrder
    <3>3. ASSUME Remember(h) PROVE new.pc \in {"deduct", "idle"}
      BY <1>3, <3>1, <3>3 DEF Remember
    <3>4. ASSUME NEW d \in Details, RejectLine(h, d) PROVE new.pc = "idle"
      BY <1>3, <3>1, <3>4 DEF RejectLine, Finish
    <3>5. ASSUME NEW d \in Details, DeductLine(h, d) PROVE new.pc \in {"deduct", "idle"}
      BY <1>3, <3>1, <3>5 DEF DeductLine
    <3>6. new.pc \in {"remember", "deduct", "idle"}
      BY <2>6, <3>2, <3>3, <3>4, <3>5
    <3> QED
      BY <3>6 DEF ConfirmKnown
  <2> QED
    BY <1>2, <1>5, <2>1, <2>3, <2>4, <2>5, <2>6 DEF Confirm
<1>6. CASE Customer(h) \/ Ipn(h)
  <2>1. new.pc \in OtherSteps \cup {"idle"}
    <3>1. \E to : Become(h, to) /\ to.pc \in OtherSteps \cup {"idle"}
      <4>1. CASE Customer(h)
        BY <4>1, NoCopies, RequestFields
           DEF Customer, CancelRead, CancelWrite, CheckoutRead, CheckoutWrite,
               CreatePaymentRead, CreatePaymentWrite, Redirect, Begin, Finish, OtherSteps
      <4>2. CASE Ipn(h)
        BY <4>2, NoCopies, RequestFields
           DEF Ipn, IpnRead, IpnAlready, IpnWrite, IpnReply, IpnReplyLost, Begin, Finish,
               OtherSteps
      <4> QED
        BY <1>6, <4>1, <4>2
    <3> QED
      BY <1>3, <3>1
  <2> QED
    BY <1>2, <2>1 DEF ConfirmKnown, OtherSteps
<1> QED
  BY <1>1, <1>5, <1>6

-----------------------------------------------------------------------------
(* Orders stay regular *)

\* VNPay, Redis and receipts leave what a regular order is about.
LEMMA RegularAside ==
    ASSUME GoodsFollow, UNCHANGED <<owner, doc, visit, line, req>>,
           NEW o \in Orders \ Irregular, taken'[o] = taken[o], bill'[o] = bill[o],
           gateway'[o] = gateway[o] \/ (gateway[o] # "none" /\ gateway'[o] # "none")
    PROVE  Regular(o)'
<1>1. Regular(o)
  BY DEF GoodsFollow
<1>2. \A n : Billed(o, n)' <=> Billed(o, n)
  BY BilledStays
<1>3. \A h \in Handlers : RightlyRead(h, o)'
  BY <1>1, <1>2 DEF Regular, RightlyRead
<1>4. \A h \in Handlers : Packs(h, o)' <=> Packs(h, o)
  BY DEF Packs
<1>5. RightlyPacked(o)'
  BY <1>1, <1>2, <1>4 DEF Regular, RightlyPacked
<1>6. RightlyBilled(o)'
  BY <1>1 DEF Regular, RightlyBilled
<1>7. owner'[o] # None => CP!Balanced(o)'
  <2>1. \A g \in Handlers : CP!Owed(g, o)' = CP!Owed(g, o)
    BY DEF CP!Owed
  <2> QED
    BY <1>1, <2>1, ConstantsHold, CP!BalanceAside DEF Regular
<1> QED
  BY <1>3, <1>5, <1>6, <1>7 DEF Regular

LEMMA RegularEnvironment ==
    ASSUME GoodsFollow, Environment, UNCHANGED <<owner, visit>>, ShopRecord,
           NEW o \in Orders, OnTrack(o), ShopTyped
    PROVE  Regular(o)'
<1>1. UNCHANGED <<owner, doc, visit, line, req, bill>>
  BY DEF Environment, Settle, CacheExpire, Restock
<1>2. taken'[o] = taken[o]
  BY <1>1, NothingTaken
<1>3. gateway'[o] = gateway[o] \/ (gateway[o] # "none" /\ gateway'[o] # "none")
  <2>1. ASSUME NEW q \in Orders, NEW result \in Settlements, Settle(q, result)
        PROVE  gateway'[o] = gateway[o] \/ (gateway[o] # "none" /\ gateway'[o] # "none")
    BY <2>1 DEF Settle, Settlements, ShopTyped, TypeOK
  <2> QED
    BY <2>1 DEF Environment, CacheExpire, Restock
<1> QED
  BY <1>1, <1>2, <1>3, RegularAside DEF OnTrack

\* A restart between a line and its total, or before the last update of the stock,
\* makes an exception of the order.
LEMMA RegularRestart ==
    ASSUME GoodsFollow, Restart, ShopRecord, NEW o \in Orders, OnTrack(o),
           ~AwaitingStock(o), ~Carts!Counted(o)
    PROVE  Regular(o)'
<1>1. Regular(o)
  BY DEF GoodsFollow, OnTrack
<1>2. /\ UNCHANGED <<owner, doc, line, gateway, bill>>
      /\ \A h \in Handlers : req'[h].pc = "idle" /\ visit'[h].pc = "idle"
  BY RequestFields DEF Restart, Carts!Idle, Carts!Request
<1>3. \A h \in Handlers : CP!Owed(h, o) = 0 /\ CP!Owed(h, o)' = 0
  BY <1>2, SameAmounts DEF CP!Owed, CP!Counting, CP!Counted
<1>4. (Owing(o)' <=> Owing(o)) /\ \A n : Billed(o, n)' <=> Billed(o, n)
  BY <1>2, <1>3 DEF Owing, Billed
<1>5. \A h \in Handlers : ~Packs(h, o) /\ ~Packs(h, o)'
  BY <1>2 DEF Packs, AwaitingStock
<1>6. taken'[o] = taken[o]
  BY NothingTaken DEF AwaitingStock
<1>7. RightlyPacked(o)'
  BY <1>1, <1>2, <1>4, <1>5, <1>6 DEF Regular, RightlyPacked
<1>8. (\A h \in Handlers : RightlyRead(h, o)') /\ RightlyBilled(o)'
  BY <1>1, <1>2 DEF Regular, RightlyRead, RightlyBilled
<1>9. owner'[o] # None => CP!Balanced(o)'
  BY <1>1, <1>2, <1>3, ConstantsHold, CP!BalanceAside DEF Regular
<1> QED
  BY <1>7, <1>8, <1>9 DEF Regular

LEMMA TakenTyped ==
    ASSUME ShopTyped, ShopTyped', GoodsFollow, ShopRecord
    PROVE  taken' \in [Orders -> Int]
<1> DEFINE f == [p \in Products |-> Price[p] * (stock[p] - stock'[p])]
<1>1. \A p \in Products : f[p] \in Int
  <2>1. \A p \in Products : Price[p] \in Int /\ stock[p] - stock'[p] \in Int
    BY ShopAssumption DEF ShopTyped, TypeOK
  <2>2. \A a, b \in Int : a * b \in Int
    OBVIOUS
  <2> QED
    BY <2>1, <2>2
<1>2. SumFunction(f) = SumFunctionOnSet(f, Products)
  BY DEF SumFunction
<1>3. SumFunction(f) \in Int
  <2> HIDE DEF f
  <2> QED
    BY <1>1, <1>2, SumInt, ShopAssumption
<1>4. \A o \in Orders : TakenNow(o) \in Int
  BY <1>3 DEF TakenNow
<1> QED
  BY <1>4 DEF ShopRecord, GoodsFollow

LEMMA FollowRecorded ==
    ASSUME ShopTyped, ShopTyped', GoodsFollow, ShopRecord,
           \A o \in Orders : owner'[o] = None => owner[o] = None /\ doc'[o] = doc[o],
           \A h \in Handlers : ConfirmKnown(h)',
           \A o \in Orders \ Irregular' : Regular(o)'
    PROVE  GoodsFollow'
BY TakenTyped DEF GoodsFollow

LEMMA FollowStep ==
    ASSUME ShopTyped, ShopTyped', UnracedOrders, CP!LinesKept(FALSE), GoodsFollow,
           [ShopNext]_shopVars
    PROVE  GoodsFollow'
<1>1. ASSUME NEW h \in Handlers, OrderStep(h), ShopRecord, UNCHANGED <<cut, torn>>
      PROVE  GoodsFollow'
  <2>1. owner' = owner /\ (Confirm(h) \/ Customer(h) \/ Ipn(h))
    BY <1>1, OrderServes DEF Serves
  <2>2. ASSUME NEW o \in Orders, owner[o] = None PROVE doc'[o] = doc[o]
    <3>1. req[h].order # o
      <4>1. CASE req[h] = Idle
        <5>1. Idle.order = None
          BY RequestBuilt DEF Idle
        <5> QED
          BY <4>1, <5>1, OrderAssumption
      <4>2. CASE req[h] # Idle
        BY <2>2, <4>2 DEF ShopTyped
      <4> QED
        BY <4>1, <4>2
    <3> QED
      BY <2>1, <3>1, OtherOrders
  <2>3. \A g \in Handlers : ConfirmKnown(g)'
    BY <1>1, KnownOrderStep
  <2>4. \A o \in Orders \ Irregular' : Regular(o)'
    BY <1>1, StaysRegular, RegularOrderStep
  <2> QED
    BY <1>1, <2>1, <2>2, <2>3, <2>4, FollowRecorded
<1>2. ASSUME NEW h \in Handlers, CartStep(h), ShopRecord, UNCHANGED <<cut, torn>>
      PROVE  GoodsFollow'
  <2>1. \A o \in Orders : owner'[o] = None => owner[o] = None /\ doc'[o] = doc[o]
    BY <1>2, SameSteps, CartFresh DEF CartStep
  <2>2. \A g \in Handlers : ConfirmKnown(g)'
    BY <1>2 DEF CartStep, GoodsFollow, ConfirmKnown
  <2>3. \A o \in Orders \ Irregular' : Regular(o)'
    BY <1>2, StaysRegular, RegularCartStep
  <2> QED
    BY <1>2, <2>1, <2>2, <2>3, FollowRecorded
<1>3. ASSUME Environment, UNCHANGED <<owner, visit>>, ShopRecord, UNCHANGED <<cut, torn>>
      PROVE  GoodsFollow'
  <2>1. UNCHANGED <<doc, req>>
    BY <1>3 DEF Environment, Settle, CacheExpire, Restock
  <2>2. \A g \in Handlers : ConfirmKnown(g)'
    BY <2>1 DEF GoodsFollow, ConfirmKnown
  <2>3. \A o \in Orders \ Irregular' : Regular(o)'
    BY <1>3, StaysRegular, RegularEnvironment
  <2> QED
    BY <1>3, <2>1, <2>2, <2>3, FollowRecorded
<1>4. ASSUME Restart, ShopRecord, cut' = cut \cup {o \in Orders : AwaitingStock(o)},
             torn' = torn \cup {o \in Orders : Carts!Counted(o)}
      PROVE  GoodsFollow'
  <2>1. UNCHANGED <<owner, doc>> /\ \A g \in Handlers : req'[g].pc = "idle"
    BY <1>4, RequestFields DEF Restart
  <2>2. \A g \in Handlers : ConfirmKnown(g)'
    BY <2>1 DEF ConfirmKnown
  <2>3. ASSUME NEW o \in Orders \ Irregular' PROVE Regular(o)'
    <3>1. OnTrack(o)
      BY <1>4, StaysRegular
    <3>2. ~AwaitingStock(o) /\ ~Carts!Counted(o)
      BY <1>4 DEF Irregular
    <3> QED
      BY <1>4, <3>1, <3>2, RegularRestart
  <2> QED
    BY <1>4, <2>1, <2>2, <2>3, FollowRecorded
<1>5. CASE UNCHANGED shopVars
  <2>1. /\ UNCHANGED <<owner, doc, visit, line, req, bill, gateway, taken>>
        /\ Irregular' = Irregular
    BY <1>5 DEF shopVars, hvars, vars, history, cartVars, Irregular
  <2>2. \A o \in Orders \ Irregular' : Regular(o)'
    BY <2>1, RegularAside
  <2> QED
    BY <2>1, <2>2 DEF GoodsFollow, ConfirmKnown
<1> QED
  BY <1>1, <1>2, <1>3, <1>4, <1>5 DEF ShopNext

LEMMA FollowInit == ShopInit => GoodsFollow
<1> SUFFICES ASSUME ShopInit PROVE GoodsFollow
  OBVIOUS
<1>1. /\ \A o \in Orders : doc[o] = NewOrder /\ gateway[o] = "none" /\ taken[o] = 0
                           /\ owner[o] = None
      /\ \A h \in Handlers : req[h].pc = "idle"
      /\ taken \in [Orders -> Int]
  BY RequestFields DEF ShopInit, HInit, Init, Carts!HInit, Carts!Init
<1>2. NewOrder.status = "CART"
  BY DEF NewOrder
<1> QED
  BY <1>1, <1>2 DEF GoodsFollow, ConfirmKnown, Regular, RightlyRead, RightlyPacked, Packs,
        RightlyBilled, Early

LEMMA FollowAlways == ShopSpec => []GoodsFollow
<1>1. ShopTyped /\ ShopTyped' /\ UnracedOrders /\ CP!LinesKept(FALSE) /\ GoodsFollow
        /\ [ShopNext]_shopVars => GoodsFollow'
  BY FollowStep
<1> QED
  BY <1>1, FollowInit, ShopTypedAlways, UnracedInShopAlways, LinesShopAlways,
     PTL DEF ShopSpec

-----------------------------------------------------------------------------
(* What is taken, billed and reported *)

LEMMA AtRestAll ==
    ASSUME ShopTyped, GoodsFollow, NEW o \in Orders \ Irregular, AtRest(o)
    PROVE  /\ doc[o].status \in Early => taken[o] = 0
           /\ doc[o].status \notin Early =>
                /\ taken[o] = doc[o].total \/ (doc[o].status = "CANCEL" /\ taken[o] = 0)
                /\ doc[o].total = Carts!Listed(o)
<1>1. RightlyPacked(o) /\ (owner[o] # None => CP!Balanced(o))
  BY DEF GoodsFollow, Regular
<1>2. ~Owing(o) /\ \A h \in Handlers : ~Packs(h, o)
  BY DEF AtRest, Owing, CP!Owed, Packs
<1>3. owner[o] = None => doc[o].status = "CART"
  BY DEF GoodsFollow, NewOrder
<1>4. owner[o] # None => doc[o].total = Carts!Listed(o)
  BY <1>1, <1>2, OwesNothing, SameListed
<1> QED
  BY <1>1, <1>2, <1>3, <1>4 DEF RightlyPacked, Billed, Early

LEMMA SamePending ==
    ASSUME NEW o \in Orders
    PROVE  Carts!Pending(o) = CP!Pending(o)
<1> DEFINE f == [h \in Handlers |-> Carts!Owed(h, o)]
           g == [h \in Handlers |-> CP!Owed(h, o)]
<1>1. f = g
  BY SameAmounts
<1>2. Carts!Pending(o) = Carts!SumFunctionOnSet(f, Handlers)
  BY DEF Carts!Pending, Carts!SumFunction
<1>3. CP!Pending(o) = CP!SumFunctionOnSet(g, Handlers)
  BY DEF CP!Pending, CP!SumFunction
<1> HIDE DEF f, g
<1> QED
  BY <1>1, <1>2, <1>3, SameSums

TotalMatches(o) == owner[o] # None => doc[o].total + Carts!Pending(o) = Carts!Listed(o)

\* TotalsMatch of CartHistory, among the requests on orders: the total of an order
\* and what carts have still to add to it is the amount of its lines, through
\* checkout, payment, packing and delivery (order.controller.ts:150-161,
\* order.service.ts:252-261), unless the order is one of the exceptions.
THEOREM ShopTotalsFollowLines ==
    ShopSpec => [](\A o \in Orders \ Irregular : TotalMatches(o))
<1>1. GoodsFollow => \A o \in Orders \ Irregular : TotalMatches(o)
  <2> SUFFICES ASSUME GoodsFollow, NEW o \in Orders \ Irregular, owner[o] # None
               PROVE  doc[o].total + Carts!Pending(o) = Carts!Listed(o)
    BY DEF TotalMatches
  <2>1. CP!Balanced(o)
    BY DEF GoodsFollow, Regular
  <2> QED
    BY <2>1, SamePending, SameListed DEF CP!Balanced
<1> QED
  BY <1>1, FollowAlways, PTL

\* However confirms, payments, cancels, carts, restarts and expiries of the cache
\* come in between, a packed order had its details taken from the stock, once,
\* and no other order had any (order.controller.ts:281-319).
THEOREM PackedGoodsAreTaken == ShopSpec => []GoodsTaken
<1>1. ShopTyped /\ GoodsFollow => GoodsTaken
  <2> SUFFICES ASSUME ShopTyped, GoodsFollow, NEW o \in Orders \ Irregular, AtRest(o)
               PROVE  CASE doc[o].status \in {"CART", "PENDING"} -> taken[o] = 0
                        [] doc[o].status = "CANCEL" -> taken[o] \in {0, Carts!Listed(o)}
                        [] OTHER -> taken[o] = Carts!Listed(o)
    BY DEF GoodsTaken
  <2> QED
    BY AtRestAll DEF Early
<1> QED
  BY <1>1, ShopTypedAlways, FollowAlways, PTL

\* The totals the revenue report adds up are what packing took from the stock
\* (order.service.ts:320-336), for any number of orders.
THEOREM RevenueIsTaken == ShopSpec => []RevenueIsWorth
<1>1. ShopTyped /\ GoodsFollow => RevenueIsWorth
  <2> SUFFICES ASSUME ShopTyped, GoodsFollow,
                      \A o \in Delivered : o \notin Irregular /\ AtRest(o)
               PROVE  Revenue = SumFunctionOnSet(taken, Delivered)
    BY DEF RevenueIsWorth
  <2> DEFINE f == [o \in Delivered |-> doc[o].total]
  <2>1. IsFiniteSet(Delivered)
    BY FS_Subset, ShopAssumption DEF Delivered
  <2>2. \A o \in Delivered : f[o] = taken[o]
    BY AtRestAll DEF Delivered, Early
  <2>3. Revenue = SumFunctionOnSet(f, Delivered)
    BY DEF Revenue, SumFunction
  <2> HIDE DEF f
  <2> QED
    BY <2>1, <2>2, <2>3, SumAgree
<1> QED
  BY <1>1, ShopTypedAlways, FollowAlways, PTL

\* What VNPay collects for a delivered order is what left the warehouse for it
\* (payment.controller.ts:48-58).
THEOREM PaidIsTaken == ShopSpec => []PaidForGoods
<1>1. ShopTyped /\ GoodsFollow => PaidForGoods
  <2> SUFFICES ASSUME ShopTyped, GoodsFollow, NEW o \in Delivered \ Irregular,
                      AtRest(o), gateway[o] # "none"
               PROVE  bill[o] = taken[o]
    BY DEF PaidForGoods
  <2>1. o \in Orders /\ doc[o].status = "SUCCESS"
    BY DEF Delivered
  <2>2. taken[o] = doc[o].total
    BY <2>1, AtRestAll DEF Early
  <2>3. bill[o] = doc[o].total
    BY <2>1 DEF GoodsFollow, Regular, RightlyBilled
  <2> QED
    BY <2>2, <2>3
<1> QED
  BY <1>1, ShopTypedAlways, FollowAlways, PTL

-----------------------------------------------------------------------------
(* Packing is covered by the stock *)

\* The lines of some details are covered by the stock and by what others have
\* taken since h read the lines; no two lines are of one product.
Room(h) == [p \in Products |-> stock[p] + drained[h][p]]
Covers(room, lines, some) ==
    \A d \in some : lines[d] # None => lines[d].quantity <= room[lines[d].product]
Apart(lines) ==
    \A d, e \in Listed(lines) : lines[d].product = lines[e].product => d = e

\* A confirm on its way to the stock update has checked what it will take.
Checked(h) ==
    LET r == req[h] IN
    /\ (HoldsLines(r) /\ r.order \notin overlapped) => Apart(r.lines)
    /\ r.pc = "check" => Covers(Room(h), r.lines, Details \ r.todo)
    /\ r.order \notin offtrack \cup overlapped =>
        /\ (/\ r.pc = "update" /\ r.data # None
            /\ r.data.status = "PREPARES_PACKAGE" /\ doc[r.order].status \in Early)
                => Covers(Room(h), r.lines, Details)
        /\ (r.pc = "remember" /\ r.data.status = "PREPARES_PACKAGE")
                => Covers(Room(h), r.lines, Details)
        /\ r.pc = "deduct" => Covers(Room(h), r.lines, r.todo)

\* No rollback can find a packed copy of an order that was never packed.
NotPacked(o) ==
    doc[o].status \in Early => \A d \in Copies(o) : d.status # "PREPARES_PACKAGE"

\* Inductive, whatever requests run together.
StockChecked ==
    /\ drained \in [Handlers -> [Products -> Nat]]
    /\ \A o \in Orders \ offtrack : NotPacked(o)
    /\ \A h \in Handlers : Checked(h)

\* What an order keeps as long as it keeps to the sequence of statuses.
LEMMA StillTracked ==
    ASSUME ShopTyped, ShopTyped', ShopRecord, NEW o \in Orders, o \notin offtrack'
    PROVE  o \notin offtrack /\ ~LeavesTrack(o) /\ Tracked(o)
<1>1. o \notin offtrack /\ ~LeavesTrack(o)
  BY DEF ShopRecord
<1> QED
  BY <1>1, StatusTrack DEF ShopTyped

LEMMA NotPackedStep ==
    ASSUME ShopTyped, ShopTyped', ShopRecord, NEW o \in Orders, o \notin offtrack',
           o \notin offtrack => NotPacked(o),
           Copies(o)' \subseteq Copies(o) \cup {doc'[o]}
    PROVE  NotPacked(o)'
<1>1. Tracked(o) /\ NotPacked(o)
  BY StillTracked
<1>2. doc'[o].status \in Early => doc'[o].status # "PREPARES_PACKAGE"
  BY DEF Early
<1> QED
  BY <1>1, <1>2 DEF NotPacked, Tracked

\* A request on a cart makes no copies; a restart drops them.
LEMMA CopiesAside ==
    ASSUME cache' = cache, NEW o \in Orders,
           \A h \in Handlers : req'[h] \in {req[h], Idle}
    PROVE  Copies(o)' \subseteq Copies(o) \cup {doc'[o]}
<1>1. \A g \in Handlers : Holds(req'[g], o) \subseteq Holds(req[g], o)
  BY HoldsNothing
<1>2. Copies(o)' = ({doc'[o], cache'[o]} \cap Doc) \cup
                        UNION {Holds(req'[g], o) : g \in Handlers}
  BY DEF Copies, Holds
<1> QED
  BY <1>1, <1>2, CopiesHeld

LEMMA CopiesInShop ==
    ASSUME ShopTyped, ShopNext, NEW o \in Orders
    PROVE  Copies(o)' \subseteq Copies(o) \cup {doc'[o]}
<1>1. ASSUME NEW h \in Handlers, OrderStep(h), ShopRecord, UNCHANGED cut
      PROVE  Copies(o)' \subseteq Copies(o) \cup {doc'[o]}
  <2>1. HNext
    BY <1>1 DEF HNext, Serve, OrderStep, ShopRecord
  <2> QED
    BY <2>1, CopiesNext DEF ShopTyped
<1>2. ASSUME NEW h \in Handlers, CartStep(h)
      PROVE  Copies(o)' \subseteq Copies(o) \cup {doc'[o]}
  BY <1>2, CopiesAside DEF CartStep
<1>3. ASSUME Environment, ShopRecord, UNCHANGED cut
      PROVE  Copies(o)' \subseteq Copies(o) \cup {doc'[o]}
  <2>1. HNext
    BY <1>3 DEF HNext, Serve, ShopRecord
  <2> QED
    BY <2>1, CopiesNext DEF ShopTyped
<1>4. CASE Restart
  BY <1>4, CopiesAside DEF Restart
<1> QED
  BY <1>1, <1>2, <1>3, <1>4 DEF ShopNext

\* There is no less room for a confirm that goes on.
LEMMA RoomStays ==
    ASSUME ShopTyped, ShopTyped', StockChecked, ShopRecord, NEW h \in Handlers,
           HoldsLines(req'[h]), req'[h] = req[h] \/ stock' = stock
    PROVE  \A p \in Products : Room(h)'[p] >= Room(h)[p]
<1> SUFFICES ASSUME NEW p \in Products PROVE Room(h)'[p] >= Room(h)[p]
  OBVIOUS
<1>1. stock[p] \in Int /\ stock'[p] \in Int /\ drained[h][p] \in Nat
  BY DEF ShopTyped, TypeOK, StockChecked
<1>2. drained'[h][p] = IF req'[h] = req[h] /\ stock'[p] < stock[p]
                       THEN drained[h][p] + (stock[p] - stock'[p]) ELSE drained[h][p]
  BY DEF ShopRecord, DrainedNow
<1>3. CASE stock'[p] < stock[p]
  BY <1>1, <1>2, <1>3 DEF Room
<1>4. CASE ~(stock'[p] < stock[p])
  BY <1>1, <1>2, <1>4 DEF Room
<1> QED
  BY <1>3, <1>4

LEMMA DrainedTyped ==
    ASSUME ShopTyped, ShopTyped', StockChecked, ShopRecord
    PROVE  drained' \in [Handlers -> [Products -> Nat]]
<1>1. ASSUME NEW h \in Handlers, NEW p \in Products PROVE DrainedNow(h, p) \in Nat
  <2>1. stock[p] \in Int /\ stock'[p] \in Int /\ drained[h][p] \in Nat
    BY DEF ShopTyped, TypeOK, StockChecked
  <2> QED
    BY <2>1 DEF DrainedNow
<1> QED
  BY <1>1 DEF ShopRecord

LEMMA CoveredStays ==
    ASSUME ShopTyped, ShopTyped', StockChecked, NEW h \in Handlers,
           drained' \in [Handlers -> [Products -> Nat]],
           \A p \in Products : Room(h)'[p] >= Room(h)[p],
           NEW lines \in Reads, NEW some \in SUBSET Details, Covers(Room(h), lines, some)
    PROVE  Covers(Room(h)', lines, some)
<1>1. \A d \in some : lines[d] # None =>
            lines[d].product \in Products /\ lines[d].quantity \in Int
  BY DEF Reads, OrderDetail
<1>2. \A p \in Products : Room(h)[p] \in Int /\ Room(h)'[p] \in Int
  BY DEF ShopTyped, TypeOK, StockChecked, Room
<1>3. ASSUME NEW d \in some, lines[d] # None
      PROVE  lines[d].quantity <= Room(h)'[lines[d].product]
  <2>1. lines[d].quantity <= Room(h)[lines[d].product]
    BY <1>3 DEF Covers, Room
  <2> QED
    BY <1>1, <1>2, <1>3, <2>1
<1> QED
  BY <1>3 DEF Covers, Room

\* The history of exceptions only grows.
LEMMA ExceptionsStay ==
    ASSUME ShopRecord
    PROVE  offtrack \subseteq offtrack' /\ overlapped \subseteq overlapped'
BY DEF ShopRecord, Carts!Record

\* What the others do leaves what a confirm has checked: goods they take count as
\* drained, and an order they move back to an early status leaves the sequence.
LEMMA CheckedAside ==
    ASSUME ShopTyped, ShopTyped', StockChecked, ShopRecord, NEW h \in Handlers,
           req'[h] = req[h]
    PROVE  Checked(h)'
<1> DEFINE r == req[h]
<1>0. CASE ~HoldsLines(r)
  BY <1>0 DEF Checked, HoldsLines
<1>1. CASE HoldsLines(r)
  <2>1. r.lines \in Reads /\ r.todo \in SUBSET Details /\ r.order \in Orders
    BY <1>1, RequestFields DEF ShopTyped, TypeOK, HoldsLines
  <2>2. \A some \in SUBSET Details : Covers(Room(h), r.lines, some) => Covers(Room(h)', r.lines, some)
    BY <1>1, <2>1, RoomStays, DrainedTyped, CoveredStays
  <2>3. Details \ r.todo \in SUBSET Details /\ Details \in SUBSET Details
    OBVIOUS
  <2>4. Apart(r.lines) => Apart(r.lines)'
    BY DEF Apart
  <2>5. r.order \notin offtrack' /\ doc'[r.order].status \in Early
            => doc[r.order].status \in Early
    BY <2>1, StillTracked DEF Tracked
  <2>6. Checked(h)
    BY DEF StockChecked
  <2> HIDE DEF r
  <2>7. req[h] = r /\ req'[h] = r
    BY DEF r
  <2> QED
    BY <1>1, <2>1, <2>2, <2>3, <2>4, <2>5, <2>6, <2>7, ExceptionsStay DEF Checked
<1> QED
  BY <1>0, <1>1

\* The lines a confirm reads are of different products.
LEMMA ReadApart ==
    ASSUME ShopTyped, CP!LinesKept(FALSE), NEW o \in Orders \ overlapped
    PROVE  Apart([d \in Details |-> IF d \in DetailsOf(o) THEN line[d] ELSE None])
<1> DEFINE lines == [d \in Details |-> IF d \in DetailsOf(o) THEN line[d] ELSE None]
<1>1. ASSUME NEW d \in Listed(lines), NEW e \in Listed(lines),
             lines[d].product = lines[e].product
      PROVE  d = e
  <2>1. /\ d \in DetailsOf(o) /\ e \in DetailsOf(o)
        /\ line[d].product = line[e].product
    BY <1>1 DEF Listed, DetailsOf
  <2>2. line[d].product \in Products
    BY <2>1 DEF ShopTyped, TypeOK, OrderDetail, DetailsOf
  <2>3. d \in CP!LinesOf(o, line[d].product) /\ e \in CP!LinesOf(o, line[d].product)
    BY <2>1 DEF DetailsOf, CP!LinesOf
  <2> QED
    BY <2>2, <2>3 DEF CP!LinesKept, CP!Kept
<1> HIDE DEF lines
<1>2. Apart(lines)
  BY <1>1 DEF Apart
<1> QED
  BY <1>2 DEF lines

\* The stock is checked line by line on the way to PREPARES_PACKAGE ...
LEMMA CheckedRead ==
    ASSUME ShopTyped, ShopTyped', CP!LinesKept(FALSE), StockChecked, ShopRecord,
           NEW h \in Handlers, ReadLines(h)
    PROVE  Checked(h)'
<1> DEFINE r == req[h]
           o == r.order
           lines == [d \in Details |-> IF d \in DetailsOf(o) THEN line[d] ELSE None]
           todo == LinesToCheck(o, r.data.status)
           new == req'[h]
<1>1. r.pc = "lines" /\ o \in Orders /\ stock' = stock
  BY RequestFields DEF ReadLines, At, ShopTyped, TypeOK
<1>2. /\ new.pc = (IF todo = {} THEN AfterChecks(r.seen, r.data) ELSE "check")
      /\ new.order = o /\ new.data = r.data /\ new.lines = lines /\ new.todo = todo
  BY RequestBuilt DEF ReadLines, Become, Confirming, ShopTyped, TypeOK
<1>3. o \notin overlapped' => Apart(lines)
  BY <1>1, ReadApart, ExceptionsStay
<1>4. r.data.status = "PREPARES_PACKAGE" => \A d \in Details \ todo : lines[d] = None
  BY DEF LinesToCheck
<1>5. todo # {} => r.data.status = "PREPARES_PACKAGE"
  BY DEF LinesToCheck
<1>6. AfterChecks(r.seen, r.data) \in {"fetch", "update"}
  BY DEF AfterChecks
<1> HIDE DEF lines, todo, o, new
<1>7. /\ new.pc \in {"check", "fetch", "update"}
      /\ new.order \notin overlapped' => Apart(new.lines)
      /\ new.pc = "check" => \A d \in Details \ new.todo : new.lines[d] = None
      /\ new.pc = "update" /\ new.data.status = "PREPARES_PACKAGE" =>
            \A d \in Details : new.lines[d] = None
  BY <1>2, <1>3, <1>4, <1>5, <1>6
<1>8. req'[h].order \notin overlapped' => Apart(req[h].lines)'
  BY <1>7 DEF new, Apart
<1> QED
  BY <1>7, <1>8 DEF Checked, Covers, new

\* A step of h that takes nothing from the stock and goes on with its lines.
LEMMA CoveredGoesOn ==
    ASSUME ShopTyped, ShopTyped', StockChecked, ShopRecord, NEW h \in Handlers,
           stock' = stock, HoldsLines(req'[h]),
           NEW lines \in Reads, NEW some \in SUBSET Details, Covers(Room(h), lines, some)
    PROVE  Covers(Room(h)', lines, some)
BY RoomStays, DrainedTyped, CoveredStays

LEMMA CheckedLine ==
    ASSUME ShopTyped, ShopTyped', StockChecked, ShopRecord, NEW h \in Handlers,
           NEW d \in Details, CheckLine(h, d)
    PROVE  Checked(h)'
<1> DEFINE r == req[h]
           new == req'[h]
<1>1. /\ r.pc = "check" /\ d \in r.todo /\ EnoughStock(r.lines[d]) /\ stock' = stock
      /\ r.todo \in SUBSET Details /\ r.lines \in Reads
  BY RequestFields DEF CheckLine, At, ShopTyped, TypeOK
<1>2. /\ new.pc = IF r.todo = {d} THEN AfterChecks(r.seen, r.data) ELSE "check"
      /\ new.lines = r.lines /\ new.todo = r.todo \ {d} /\ new.order = r.order
  BY RequestBuilt DEF CheckLine, Become, Confirming, ShopTyped, TypeOK
<1>3. /\ r.order \notin overlapped' => Apart(r.lines)
      /\ Covers(Room(h), r.lines, Details \ r.todo)
  BY <1>1, ExceptionsStay DEF StockChecked, Checked, HoldsLines
<1>4. Covers(Room(h), r.lines, Details \ (r.todo \ {d}))
  <2>1. r.lines[d] \in OrderDetail
    BY <1>1 DEF ShopTyped, TypeOK, TypedSlot
  <2>2. /\ r.lines[d].product \in Products /\ r.lines[d].quantity \in Int
        /\ r.lines[d].quantity <= stock[r.lines[d].product]
    BY <1>1, <2>1 DEF EnoughStock, OrderDetail
  <2> HIDE DEF r
  <2>3. /\ stock[r.lines[d].product] \in Int
        /\ drained[h][r.lines[d].product] \in Nat
    BY <2>2 DEF ShopTyped, TypeOK, StockChecked
  <2>4. r.lines[d].quantity <= stock[r.lines[d].product] + drained[h][r.lines[d].product]
    BY <2>2, <2>3
  <2> QED
    BY <1>1, <1>3, <2>2, <2>4 DEF Covers, Room
<1>5. r.todo = {d} => Covers(Room(h), r.lines, Details)
  BY <1>4 DEF Covers
<1>6. AfterChecks(r.seen, r.data) \in {"fetch", "update"}
  BY DEF AfterChecks
<1>7. HoldsLines(new)
  BY <1>2, <1>6 DEF HoldsLines
<1>8. \A some \in SUBSET Details : Covers(Room(h), r.lines, some) => Covers(Room(h)', r.lines, some)
  BY <1>1, <1>7, CoveredGoesOn
<1>9. /\ Details \ (r.todo \ {d}) \in SUBSET Details /\ Details \in SUBSET Details
  OBVIOUS
<1>10. /\ Covers(Room(h)', r.lines, Details \ (r.todo \ {d}))
       /\ r.todo = {d} => Covers(Room(h)', r.lines, Details)
  BY <1>4, <1>5, <1>8, <1>9 DEF Covers
<1> HIDE DEF r, new
<1>11. /\ new.pc \in {"check", "fetch", "update"}
       /\ new.order \notin overlapped' => Apart(new.lines)
       /\ new.pc = "check" => Covers(Room(h)', new.lines, Details \ new.todo)
       /\ new.pc = "update" => Covers(Room(h)', new.lines, Details)
  BY <1>2, <1>3, <1>6, <1>10 DEF Covers
<1>12. req'[h].order \notin overlapped' => Apart(req[h].lines)'
  BY <1>11 DEF new, Apart
<1> QED
  BY <1>11, <1>12 DEF Checked, Covers, new

\* ... and on no other way: a rollback finds no packed copy of an order that was
\* never packed.
LEMMA CheckedFetch ==
    ASSUME ShopTyped, ShopTyped', StockChecked, ShopRecord, NEW h \in Handlers,
           FetchPrevious(h)
    PROVE  Checked(h)'
<1> DEFINE r == req[h]
           o == r.order
           new == req'[h]
<1>1. r.pc = "fetch" /\ o \in Orders /\ UNCHANGED <<doc, stock>>
  BY RequestFields DEF FetchPrevious, At, ShopTyped, TypeOK
<1>2. /\ new.pc = "update" /\ new.order = o /\ new.data = cache[o]
      /\ new.lines = r.lines
  BY RequestBuilt DEF FetchPrevious, Become, Confirming, ShopTyped, TypeOK
<1>3. o \notin overlapped' => Apart(r.lines)
  BY <1>1, ExceptionsStay DEF StockChecked, Checked, HoldsLines
<1>4. ~(/\ o \notin offtrack' /\ cache[o] # None
        /\ cache[o].status = "PREPARES_PACKAGE" /\ doc[o].status \in Early)
  <2>1. offtrack \subseteq offtrack'
    BY ExceptionsStay
  <2>2. cache[o] # None => cache[o] \in Copies(o)
    BY <1>1 DEF Copies, ShopTyped, TypeOK
  <2> QED
    BY <1>1, <2>1, <2>2 DEF StockChecked, NotPacked
<1> HIDE DEF r, o, new
<1>5. req'[h].order \notin overlapped' => Apart(req[h].lines)'
  BY <1>2, <1>3 DEF new, Apart
<1> QED
  BY <1>1, <1>2, <1>4, <1>5 DEF Checked, new

\* The update that packs an order comes from before.
LEMMA CheckedUpdate ==
    ASSUME ShopTyped, ShopTyped', StockChecked, ShopRecord, NEW h \in Handlers,
           UpdateOrder(h)
    PROVE  Checked(h)'
<1> DEFINE r == req[h]
           o == r.order
           new == req'[h]
<1>1. /\ r.pc = "update" /\ o \in Orders /\ UNCHANGED stock
      /\ doc'[o] = Updated(doc[o], r.data) /\ r.lines \in Reads
  BY RequestFields DEF UpdateOrder, At, ShopTyped, TypeOK
<1>2. /\ new.pc = "remember" /\ new.order = o /\ new.data = doc'[o]
      /\ new.lines = r.lines
  BY RequestBuilt DEF UpdateOrder, Become, Confirming, ShopTyped, TypeOK
<1>3. o \notin overlapped' => Apart(r.lines)
  BY <1>1, ExceptionsStay DEF StockChecked, Checked, HoldsLines
<1>4. ASSUME o \notin offtrack', o \notin overlapped', doc'[o].status = "PREPARES_PACKAGE"
      PROVE  Covers(Room(h)', r.lines, Details)
  <2>1. o \notin offtrack /\ ~LeavesTrack(o) /\ Tracked(o)
    BY <1>1, <1>4, StillTracked
  <2>2. doc[o].status \in Early
    BY <1>1, <1>2, <1>4, <2>1 DEF LeavesTrack, Tracked, At
  <2>3. r.data # None /\ r.data.status = "PREPARES_PACKAGE"
    BY <1>1, <1>4, <2>2 DEF Updated, Early
  <2>4. Covers(Room(h), r.lines, Details)
    BY <1>1, <1>4, <2>1, <2>2, <2>3, ExceptionsStay DEF StockChecked, Checked
  <2>5. HoldsLines(new)
    BY <1>2 DEF HoldsLines
  <2> QED
    BY <1>1, <2>4, <2>5, CoveredGoesOn
<1> HIDE DEF r, o, new
<1>5. req'[h].order \notin overlapped' => Apart(req[h].lines)'
  BY <1>2, <1>3 DEF new, Apart
<1> QED
  BY <1>1, <1>2, <1>4, <1>5 DEF Checked, Covers, new

LEMMA CheckedRemember ==
    ASSUME ShopTyped, ShopTyped', StockChecked, ShopRecord, NEW h \in Handlers,
           Remember(h)
    PROVE  Checked(h)'
<1> DEFINE r == req[h]
           o == r.order
           new == req'[h]
           deduct == r.data.status = "PREPARES_PACKAGE" /\ Listed(r.lines) # {}
<1>1. r.pc = "remember" /\ o \in Orders /\ UNCHANGED stock /\ r.lines \in Reads
  BY RequestFields DEF Remember, At, ShopTyped, TypeOK
<1>2. new = IF deduct THEN Deducting(o, r.lines, Listed(r.lines)) ELSE Idle
  BY DEF Remember, Become, ShopTyped, TypeOK
<1>3. CASE ~deduct
  BY <1>2, <1>3, RequestFields DEF Checked, HoldsLines
<1>4. CASE deduct
  <2>1. /\ new.pc = "deduct" /\ new.order = o /\ new.lines = r.lines
        /\ new.todo = Listed(r.lines)
    BY <1>2, <1>4, RequestBuilt DEF Deducting
  <2>2. /\ o \notin overlapped' => Apart(r.lines)
        /\ o \notin offtrack' \cup overlapped' => Covers(Room(h), r.lines, Details)
    BY <1>1, <1>4, ExceptionsStay DEF StockChecked, Checked, HoldsLines
  <2>3. Covers(Room(h), r.lines, Details) => Covers(Room(h), r.lines, Listed(r.lines))
    BY DEF Covers, Listed
  <2>4. Covers(Room(h), r.lines, Listed(r.lines)) => Covers(Room(h)', r.lines, Listed(r.lines))
    <3>1. HoldsLines(new) /\ Listed(r.lines) \in SUBSET Details
      BY <2>1 DEF HoldsLines, Listed
    <3> QED
      BY <1>1, <3>1, CoveredGoesOn
  <2> HIDE DEF r, o, new
  <2>5. req'[h].order \notin overlapped' => Apart(req[h].lines)'
    BY <2>1, <2>2 DEF new, Apart
  <2> QED
    BY <1>1, <2>1, <2>2, <2>3, <2>4, <2>5 DEF Checked, Covers, new
<1> QED
  BY <1>3, <1>4

\* One line taken leaves what the others need.
LEMMA CheckedDeduct ==
    ASSUME ShopTyped, ShopTyped', StockChecked, ShopRecord, NEW h \in Handlers,
           NEW d \in Details, DeductLine(h, d)
    PROVE  Checked(h)'
<1> DEFINE r == req[h]
           o == r.order
           new == req'[h]
           rest == r.todo \ {d}
<1>1. /\ r.pc = "deduct" /\ d \in r.todo /\ o \in Orders
      /\ stock' = [stock EXCEPT ![r.lines[d].product] = @ - r.lines[d].quantity]
      /\ new = IF r.todo = {d} THEN Idle ELSE Deducting(o, r.lines, rest)
  BY RequestFields DEF DeductLine, Become, At, ShopTyped, TypeOK
<1>2. /\ r.todo \in SUBSET Details /\ \A e \in r.todo : r.lines[e] \in OrderDetail
      /\ stock \in [Products -> Int]
  BY <1>1, RequestFields DEF ShopTyped, TypeOK, TypedSlot
<1>3. /\ o \notin overlapped' => Apart(r.lines)
      /\ o \notin offtrack' \cup overlapped' => Covers(Room(h), r.lines, r.todo)
  BY <1>1, ExceptionsStay DEF StockChecked, Checked, HoldsLines
<1>4. CASE r.todo = {d}
  BY <1>1, <1>4, RequestFields DEF Checked, HoldsLines
<1>5. CASE r.todo # {d}
  <2>1. /\ new.pc = "deduct" /\ new.order = o /\ new.lines = r.lines
        /\ new.todo = rest
    BY <1>1, <1>5, RequestBuilt DEF Deducting
  <2>2. ASSUME NEW e \in rest, o \notin overlapped'
        PROVE  Room(h)'[r.lines[e].product] = Room(h)[r.lines[e].product]
    <3>1. /\ r.lines[d] # None /\ r.lines[e] # None
          /\ r.lines[e].product \in Products
      BY <1>1, <1>2, OrderAssumption DEF OrderDetail
    <3>2. r.lines[e].product # r.lines[d].product
      BY <1>1, <1>2, <1>3, <2>2, <3>1 DEF Apart, Listed
    <3>3. stock'[r.lines[e].product] = stock[r.lines[e].product]
      BY <1>1, <1>2, <3>1, <3>2
    <3>4. stock[r.lines[e].product] \in Int
      BY <1>2, <3>1
    <3>5. drained'[h][r.lines[e].product] = drained[h][r.lines[e].product]
      <4>1. HoldsLines(req'[h])
        BY <2>1 DEF HoldsLines
      <4> HIDE DEF r
      <4>2. drained'[h][r.lines[e].product] = DrainedNow(h, r.lines[e].product)
        BY <3>1 DEF ShopRecord
      <4> QED
        BY <3>3, <3>4, <4>1, <4>2 DEF DrainedNow
    <3> QED
      BY <3>1, <3>3, <3>5 DEF Room
  <2>3. o \notin offtrack' \cup overlapped' => Covers(Room(h)', r.lines, rest)
    <3> SUFFICES ASSUME o \notin offtrack' \cup overlapped', NEW e \in rest,
                        r.lines[e] # None
                 PROVE  r.lines[e].quantity <= Room(h)'[r.lines[e].product]
      BY DEF Covers, Room
    <3>1. r.lines[e].quantity <= Room(h)[r.lines[e].product]
      BY <1>3 DEF Covers, Room
    <3>2. Room(h)'[r.lines[e].product] = Room(h)[r.lines[e].product]
      BY <2>2
    <3> QED
      BY <3>1, <3>2
  <2> HIDE DEF r, o, new, rest
  <2>4. req'[h].order \notin overlapped' => Apart(req[h].lines)'
    BY <1>3, <2>1 DEF new, Apart
  <2> QED
    BY <2>1, <2>3, <2>4 DEF Checked, Covers, new
<1> QED
  BY <1>4, <1>5

\* The requests that check nothing take nothing.
LEMMA CheckedOther ==
    ASSUME ShopTyped, NEW h \in Handlers,
           \/ \E o \in Orders, to \in Targets, payArg \in PayArgs :
                    ConfirmRead(h, o, to, payArg)
           \/ \E d \in Details : RejectLine(h, d)
           \/ Customer(h) \/ Ipn(h)
    PROVE  Checked(h)'
<1> DEFINE Checking == {"check", "fetch", "update", "remember", "deduct"}
<1>1. ASSUME NEW r, Become(h, r),
             r.pc \notin Checking
      PROVE  Checked(h)'
  <2>1. req'[h] = r
    BY <1>1 DEF Become, ShopTyped, TypeOK
  <2> QED
    BY <1>1, <2>1 DEF Checked, HoldsLines
<1>2. \A pc, o, seen, data, lines, todo, arg :
            Request(pc, o, seen, data, lines, todo, arg).pc = pc
  BY RequestBuilt
<1>3. ASSUME NEW o \in Orders, NEW to \in Targets, NEW payArg \in PayArgs,
             ConfirmRead(h, o, to, payArg)
      PROVE  \E r : Become(h, r) /\ r.pc \notin Checking
  <2>1. PICK data : Become(h, Confirming("lines", o, doc[o], data, NoLines, {}))
    BY <1>3 DEF ConfirmRead, Begin
  <2>2. Confirming("lines", o, doc[o], data, NoLines, {}).pc = "lines"
    BY <1>2 DEF Confirming
  <2> QED
    BY <2>1, <2>2
<1>4. ASSUME (\E d \in Details : RejectLine(h, d)) \/ Customer(h) \/ Ipn(h)
      PROVE  \E r : Become(h, r) /\ r.pc \notin Checking
  <2>1. \/ Become(h, Idle)
        \/ \E pc \in OtherSteps : \E o, arg : Become(h, Serving(pc, o, arg))
        \/ \E pc \in OtherSteps : \E o, seen : Become(h, Paying(pc, o, seen))
    BY <1>4 DEF RejectLine, Customer, CancelRead, CancelWrite, CheckoutRead,
          CheckoutWrite, CreatePaymentRead, CreatePaymentWrite, Redirect, Ipn, IpnRead,
          IpnAlready, IpnWrite, IpnReply, IpnReplyLost, Begin, Finish, OtherSteps
  <2>2. /\ \A pc, o, arg : Serving(pc, o, arg).pc = pc
        /\ \A pc, o, seen : Paying(pc, o, seen).pc = pc
    BY <1>2 DEF Serving, Paying
  <2> QED
    BY <2>1, <2>2, RequestFields DEF OtherSteps
<1> QED
  BY <1>1, <1>3, <1>4

LEMMA StockCheckedStep ==
    ASSUME ShopTyped, ShopTyped', CP!LinesKept(FALSE), StockChecked, [ShopNext]_shopVars
    PROVE  StockChecked'
<1>1. CASE ShopNext
  <2>1. ShopRecord
    BY <1>1 DEF ShopNext
  <2>2. \A o \in Orders \ offtrack' : NotPacked(o)'
    BY <1>1, <2>1, CopiesInShop, NotPackedStep DEF StockChecked
  <2>3. ASSUME NEW g \in Handlers PROVE Checked(g)'
    <3>1. ASSUME OrderStep(g) PROVE Checked(g)'
      BY <2>1, <3>1, CheckedRead, CheckedLine, CheckedFetch, CheckedUpdate,
         CheckedRemember, CheckedDeduct, CheckedOther DEF OrderStep, Confirm
    <3>2. ASSUME req'[g] = req[g] PROVE Checked(g)'
      BY <2>1, <3>2, CheckedAside
    <3>3. ASSUME NEW h \in Handlers, OrderStep(h), h # g PROVE req'[g] = req[g]
      BY <3>3, OrderServes DEF Serves
    <3>4. ASSUME Environment \/ \E h \in Handlers : CartStep(h) PROVE req'[g] = req[g]
      BY <3>4 DEF Environment, Settle, CacheExpire, Restock, CartStep
    <3>5. CASE Restart
      BY <3>5, RequestFields DEF Restart, Checked, HoldsLines
    <3> QED
      BY <1>1, <3>1, <3>2, <3>3, <3>4, <3>5 DEF ShopNext
  <2> QED
    BY <2>1, <2>2, <2>3, DrainedTyped DEF StockChecked
<1>2. CASE UNCHANGED shopVars
  <2>1. UNCHANGED <<doc, cache, req, stock, overlapped, offtrack, drained>>
    BY <1>2 DEF shopVars, cartVars, hvars, vars
  <2>2. \A o \in Orders \ offtrack' : NotPacked(o)'
    BY <2>1 DEF StockChecked, NotPacked, Copies
  <2>3. ASSUME NEW g \in Handlers PROVE Checked(g)'
    <3>1. Checked(g)
      BY DEF StockChecked
    <3>2. Room(g)' = Room(g)
      BY <2>1 DEF Room
    <3> QED
      BY <2>1, <3>1, <3>2 DEF Checked, Covers, Apart
  <2> QED
    BY <2>1, <2>2, <2>3 DEF StockChecked
<1> QED
  BY <1>1, <1>2

LEMMA StockCheckedInit == ShopInit => StockChecked
<1> SUFFICES ASSUME ShopInit PROVE StockChecked
  OBVIOUS
<1>1. /\ \A h \in Handlers : req[h] = Idle
      /\ \A o \in Orders : doc[o] = NewOrder /\ cache[o] = None
  BY DEF ShopInit, HInit, Init
<1>2. ASSUME NEW o \in Orders PROVE NotPacked(o)
  <2>1. \A d \in Copies(o) : d = NewOrder
    BY <1>1, CopiesHeld, HoldsNothing, NoneIsNoDoc
  <2> QED
    BY <2>1 DEF NotPacked, NewOrder
<1>3. \A h \in Handlers : Checked(h)
  BY <1>1, RequestFields DEF Checked, HoldsLines
<1>4. drained \in [Handlers -> [Products -> Nat]]
  BY DEF ShopInit
<1> QED
  BY <1>2, <1>3, <1>4 DEF StockChecked

\* A packing that was checked takes what is there, but for what others took.
LEMMA CoveredStep ==
    ASSUME ShopTyped, StockChecked, [ShopNext]_shopVars,
           NEW h \in Handlers, NEW p \in Products,
           At(h, "deduct"), req'[h] # req[h], stock'[p] < stock[p],
           req[h].order \notin offtrack \cup overlapped
    PROVE  stock'[p] + drained[h][p] >= 0
<1>1. stock[p] \in Int /\ stock \in [Products -> Int] /\ drained[h][p] \in Nat
  BY DEF ShopTyped, TypeOK, StockChecked
<1>2. \E d \in Details : DeductLine(h, d)
  <2>1. ASSUME NEW g \in Handlers, OrderStep(g) PROVE g = h
    BY <2>1, OrderServes DEF Serves
  <2>2. ~Restart
    BY <1>1 DEF Restart
  <2>3. ~Environment /\ ~(UNCHANGED shopVars) /\ ~\E g \in Handlers : CartStep(g)
    BY DEF Environment, Settle, CacheExpire, Restock, CartStep, shopVars, hvars, vars
  <2>4. OrderStep(h)
    BY <2>1, <2>2, <2>3 DEF ShopNext
  <2>5. req[h] # Idle
    BY RequestFields DEF At
  <2> QED
    BY <2>4, <2>5 DEF At, OrderStep, Confirm, ConfirmRead, ReadLines, CheckLine, RejectLine,
        FetchPrevious, UpdateOrder, Remember, Customer, CancelRead, CancelWrite,
        CheckoutRead, CheckoutWrite, CreatePaymentRead, CreatePaymentWrite, Redirect,
        Ipn, IpnRead, IpnAlready, IpnWrite, IpnReply, IpnReplyLost, Begin
<1>3. PICK d \in Details : DeductLine(h, d)
  BY <1>2
<1> DEFINE l == req[h].lines[d]
<1>4. /\ d \in req[h].todo /\ l \in OrderDetail
      /\ stock' = [stock EXCEPT ![l.product] = @ - l.quantity]
  BY <1>3 DEF DeductLine, ShopTyped, TypeOK, TypedSlot
<1>5. l.product = p
  BY <1>1, <1>4
<1>6. l.quantity <= stock[p] + drained[h][p] /\ l.quantity \in Int
  BY <1>4, <1>5, OrderAssumption
     DEF StockChecked, Checked, Covers, Room, At, OrderDetail
<1> HIDE DEF l
<1> QED
  BY <1>1, <1>4, <1>5, <1>6

\* However many requests are served at once, and whatever restarts, rollbacks,
\* receipts and expiries come in between, a packing takes a product below zero by
\* no more than what other requests took of it since the packing read its lines
\* (order.controller.ts:255-319): without such a request not at all.
THEOREM PackingIsCovered == ShopSpec => PackingCovered
<1>1. ShopTyped /\ StockChecked /\ [ShopNext]_shopVars =>
        [\A h \in Handlers, p \in Products :
            (/\ At(h, "deduct") /\ req'[h] # req[h] /\ stock'[p] < stock[p]
             /\ req[h].order \notin offtrack \cup overlapped)
                => stock'[p] + drained[h][p] >= 0
        ]_shopVars
  BY CoveredStep
<1>2. ShopTyped /\ ShopTyped' /\ CP!LinesKept(FALSE) /\ StockChecked
        /\ [ShopNext]_shopVars => StockChecked'
  BY StockCheckedStep
<1>3. ShopSpec => []StockChecked
  BY <1>2, StockCheckedInit, ShopTypedAlways, LinesShopAlways, PTL DEF ShopSpec
<1> QED
  BY <1>1, <1>3, ShopTypedAlways, PTL DEF ShopSpec, PackingCovered

-----------------------------------------------------------------------------
(* Moves made at once, among carts *)

\* Nobody but a confirm writes what it is about to write.
LEMMA IntentInShop ==
    ASSUME ShopTyped, Intents, [ShopNext]_shopVars
    PROVE  Intents'
<1>1. TypeOK
  BY DEF ShopTyped
<1>2. ASSUME Serve, ShopRecord, UNCHANGED cut PROVE Intents'
  BY <1>1, <1>2, IntentNext DEF HNext, ShopRecord
<1>3. ASSUME NEW h \in Handlers, OrderStep(h), ShopRecord, UNCHANGED cut
      PROVE  Intents'
  BY <1>2, <1>3 DEF Serve, OrderStep
<1>4. CASE Environment /\ ShopRecord /\ UNCHANGED cut
  BY <1>2, <1>4 DEF Serve
<1>5. ASSUME \A g \in Handlers : req'[g] \in {req[g], Idle} PROVE Intents'
  <2>1. \A g \in Handlers : Intent(req'[g])
    BY <1>5, NoIntent DEF Intents
  <2> QED
    BY <2>1 DEF Intents, Intent
<1>6. ASSUME NEW h \in Handlers, CartStep(h) PROVE Intents'
  BY <1>5, <1>6 DEF CartStep
<1>7. CASE Restart \/ UNCHANGED shopVars
  BY <1>5, <1>7 DEF Restart, shopVars, hvars, vars
<1> QED
  BY <1>3, <1>4, <1>6, <1>7 DEF ShopNext

\* An order nobody has owned is as it will be created.
OrdersFresh == \A o \in Orders : owner[o] = None => doc[o] = NewOrder

\* What a request on a cart changes of the orders is one total, at its end.
LEMMA CartCounts ==
    ASSUME ShopTyped, OrdersFresh, NEW h \in Handlers, CartStep(h), doc' # doc
    PROVE  \E o \in Orders : /\ Carts!Counted(o)
                             /\ doc' = [doc EXCEPT ![o].total = doc'[o].total]
<1>1. doc \in [Orders -> Doc]
  BY DEF ShopTyped, TypeOK
<1>2. ASSUME NEW n \in Orders, CP!CreateCart(h, n) PROVE FALSE
  <2>1. doc[n] = NewOrder /\ doc' = [doc EXCEPT ![n] = NewOrder]
    BY <1>2 DEF CP!CreateCart, OrdersFresh, CP!NewOrder, NewOrder
  <2> QED
    BY <1>1, <2>1
<1>3. CP!AddToTotal(h) \/ CP!Uncount(h)
  BY <1>2, SameSteps
     DEF CartStep, CP!Update, CP!Delete, CP!FindCart, CP!NoCart, CP!AddRead,
         CP!AddCompare, CP!MinusMissing, CP!MinusRead, CP!IncrementLine,
         CP!NoLineFound, CP!RemoveLine, CP!InsertLine, CP!DeleteLine
<1> DEFINE o == visit[h].order
<1>4. visit[h].pc \in CP!Counting
  BY <1>3 DEF CP!AddToTotal, CP!Uncount, CP!At, CP!Counting
<1>5. o \in Orders
  BY <1>4 DEF ShopTyped, CP!Typed, CP!TypedSlot, CP!Counting
<1>6. CP!Counted(o)
  BY <1>4 DEF CP!Counted
<1>7. PICK total : doc' = [doc EXCEPT ![o].total = total]
  BY <1>3 DEF CP!AddToTotal, CP!Uncount
<1>8. doc' = [doc EXCEPT ![o].total = doc'[o].total]
  <2>1. doc'[o].total = total
    BY <1>1, <1>5, <1>7 DEF Doc
  <2> QED
    BY <1>7, <2>1
<1> QED
  BY <1>5, <1>6, <1>8, SameAmounts

\* The order handlers implement the moves of OrderBook among the requests on
\* carts as well, which change an order by its total alone: the property
\* MovesAmongCarts.
THEOREM OrdersMoveAmongCarts == ShopSpec => MovesAmongCarts
<1> DEFINE AddsUp == \E o \in Orders : Carts!Counted(o) /\ Book!Recount(o)
<1>1. ShopInit => Book!Init
  BY BookInit DEF ShopInit
<1>2. ShopTyped /\ UnracedOrders /\ Intents /\ OrdersFresh /\ [ShopNext]_shopVars
        => [Book!Next \/ AddsUp]_Book!vars
  <2> SUFFICES ASSUME ShopTyped, UnracedOrders, Intents, OrdersFresh,
                      [ShopNext]_shopVars
               PROVE  [Book!Next \/ AddsUp]_Book!vars
    OBVIOUS
  <2>1. CASE UNCHANGED shopVars
    <3>1. \A o \in Orders : Copies(o)' = Copies(o)
      BY <2>1 DEF shopVars, hvars, vars, Copies
    <3> QED
      BY <2>1, <3>1 DEF shopVars, hvars, vars, history, Book!vars
  <2>2. CASE ShopNext
    <3>1. Book!Copy
      BY <2>2, CopiesInShop DEF ShopNext, ShopRecord, Record, Book!Copy
    <3>2. CASE doc' = doc
      BY <3>1, <3>2 DEF Book!Next
    <3>3. ASSUME doc' # doc, NEW h \in Handlers, OrderStep(h) PROVE Book!Next
      BY <3>1, <3>3, HandlerMoves DEF OrderStep, ShopTyped, Book!Next
    <3>4. ASSUME doc' # doc, NEW h \in Handlers, CartStep(h) PROVE AddsUp
      BY <3>1, <3>4, CartCounts DEF Book!Recount
    <3>5. ASSUME Environment \/ Restart PROVE doc' = doc
      BY <3>5 DEF Environment, Settle, CacheExpire, Restock, Restart
    <3> QED
      BY <2>2, <3>2, <3>3, <3>4, <3>5 DEF ShopNext
  <2> QED
    BY <2>1, <2>2
<1>3. ShopSpec => []Intents
  <2>1. ShopInit => Intents
    BY NoIntent DEF ShopInit, HInit, Init, Intents
  <2>2. ShopTyped /\ Intents /\ [ShopNext]_shopVars => Intents'
    BY IntentInShop
  <2> QED
    BY <2>1, <2>2, ShopTypedAlways, PTL DEF ShopSpec
<1>4. GoodsFollow => OrdersFresh
  BY DEF GoodsFollow, OrdersFresh
<1> QED
  BY <1>1, <1>2, <1>3, <1>4, ShopTypedAlways, UnracedInShopAlways, FollowAlways, PTL
     DEF ShopSpec, MovesAmongCarts
===============================================================================
