----------------------------- MODULE OrderProofs -----------------------------
(* Theorems about OrderLifecycle and OrderHistory, for any orders, products, *)
(* handlers, quantities and confirm arguments.                               *)
EXTENDS OrderHistory, TLAPS

-----------------------------------------------------------------------------
(* Type correctness *)

Reads == [Details -> OrderDetail \cup {None}]

\* What Request builds, and that it is a request if its parts are well typed.
LEMMA RequestBuilt ==
    ASSUME NEW pc, NEW o, NEW seen, NEW data, NEW lines, NEW todo, NEW arg
    PROVE  LET r == Request(pc, o, seen, data, lines, todo, arg) IN
           /\ r.pc = pc /\ r.order = o /\ r.seen = seen /\ r.data = data
           /\ r.lines = lines /\ r.todo = todo /\ r.arg = arg
           /\ (/\ pc \in ConfirmSteps \cup OtherSteps /\ o \in Orders
               /\ seen \in Doc \cup {None} /\ data \in Update \cup {None}
               /\ lines \in Reads /\ todo \in SUBSET Details
               /\ arg \in Actors \cup Settlements \cup {None})
              => r \in Requests
BY DEF Request, Requests, Reads

\* The fields of the idle request and of one in progress.
LEMMA RequestFields ==
    /\ Idle \in Requests /\ Idle.pc = "idle" /\ TypedSlot(Idle)
    /\ \A r \in Requests : r.pc # "idle" =>
        /\ r.pc \in ConfirmSteps \cup OtherSteps
        /\ r.order \in Orders
        /\ r.seen \in Doc \cup {None}
        /\ r.data \in Update \cup {None}
        /\ r.lines \in Reads
        /\ r.todo \in SUBSET Details
        /\ r.arg \in Actors \cup Settlements \cup {None}
<1>1. Idle \in Requests
  BY DEF Requests
<1>2. Idle.pc = "idle" /\ Idle.todo = {}
  BY RequestBuilt DEF Idle
<1>3. TypedSlot(Idle)
  BY <1>2 DEF TypedSlot
<1> QED
  BY <1>1, <1>2, <1>3 DEF Requests, Reads

\* The initial state has the declared types.
LEMMA TypeInit == Init => TypeOK
BY OrderAssumption, RequestFields
   DEF Init, TypeOK, Doc, NewOrder, OrderStatuses, PaymentStatuses, Settlements

\* A handler slot given a well-typed request leaves the slots well typed.
LEMMA TypeBecome ==
    ASSUME TypeOK, NEW h \in Handlers, NEW r \in Requests, Become(h, r), TypedSlot(r)
    PROVE  /\ req' \in [Handlers -> Requests]
           /\ \A g \in Handlers : TypedSlot(req'[g])
BY DEF TypeOK, Become

LEMMA DocIsUpdate == Doc \subseteq Update
BY DEF Doc, Update

LEMMA NoneIsNoDoc == None \notin Doc
BY DocIsUpdate, OrderAssumption

\* A document after an update is one, with what the update gives.
LEMMA UpdatedDoc ==
    ASSUME NEW d \in Doc, NEW data \in Update \cup {None}
    PROVE  /\ Updated(d, data) \in Doc
           /\ data = None => Updated(d, data) = d
           /\ data # None => /\ Updated(d, data).status = data.status
                             /\ Updated(d, data).pay = data.pay
BY DEF Doc, Update, Updated

\* What a confirm is about to write.
LEMMA ConfirmedUpdate ==
    ASSUME NEW d \in Doc, NEW to \in Targets, NEW payArg \in PayArgs
    PROVE  [status |-> to, pay |-> ConfirmedPayment(d, to, payArg), total |-> None]
                \in Update
BY OrderAssumption DEF Doc, Update, ConfirmedPayment, PaymentStatuses

\* Every step of a confirm keeps the declared types.
LEMMA TypeConfirm ==
    ASSUME TypeOK, NEW h \in Handlers, Confirm(h)
    PROVE  TypeOK'
<1> USE DEF At, Begin, Finish
<1> DEFINE r == req[h]
<1>1. ASSUME NEW o \in Orders, NEW to \in Targets, NEW payArg \in PayArgs,
             ConfirmRead(h, o, to, payArg)
      PROVE  TypeOK'
  <2> DEFINE data == [status |-> to, pay |-> ConfirmedPayment(doc[o], to, payArg),
                      total |-> None]
             new == Confirming("lines", o, doc[o], data, NoLines, {})
  <2>1. doc[o] \in Doc /\ data \in Update /\ NoLines \in Reads
    BY ConfirmedUpdate DEF TypeOK, NoLines, Reads
  <2>2. Become(h, new) /\ UNCHANGED <<doc, line, stock, cache, gateway, bill>>
    BY <1>1 DEF ConfirmRead
  <2> HIDE DEF data
  <2>3. new \in Requests /\ TypedSlot(new)
    BY <2>1, RequestBuilt DEF Confirming, ConfirmSteps, TypedSlot
  <2> QED
    BY <2>2, <2>3, TypeBecome DEF TypeOK
<1>2. CASE ReadLines(h)
  <2> DEFINE lines == [d \in Details |-> IF d \in DetailsOf(r.order) THEN line[d] ELSE None]
             todo == LinesToCheck(r.order, r.data.status)
             pc == IF todo = {} THEN AfterChecks(r.seen, r.data) ELSE "check"
             new == Confirming(pc, r.order, r.seen, r.data, lines, todo)
  <2>1. r.order \in Orders /\ r.seen \in Doc /\ r.data \in Update
    BY <1>2, RequestFields DEF ReadLines, TypeOK, TypedSlot
  <2>2. lines \in Reads
    BY DEF TypeOK, Reads
  <2>3. todo \in SUBSET Details /\ \A d \in todo : lines[d] \in OrderDetail
    BY DEF LinesToCheck, DetailsOf, TypeOK
  <2>4. pc \in {"check", "fetch", "update"}
    BY DEF AfterChecks
  <2>5. Become(h, new) /\ UNCHANGED <<doc, line, stock, cache, gateway, bill>>
    BY <1>2 DEF ReadLines
  <2> HIDE DEF lines, todo, pc
  <2>6. new \in Requests /\ TypedSlot(new)
    BY <2>1, <2>2, <2>3, <2>4, RequestBuilt DEF Confirming, ConfirmSteps, TypedSlot
  <2> QED
    BY <2>5, <2>6, TypeBecome DEF TypeOK
<1>3. ASSUME NEW d \in Details, CheckLine(h, d) PROVE TypeOK'
  <2> DEFINE pc == IF r.todo = {d} THEN AfterChecks(r.seen, r.data) ELSE "check"
             new == Confirming(pc, r.order, r.seen, r.data, r.lines, r.todo \ {d})
  <2>1. /\ r.order \in Orders /\ r.seen \in Doc /\ r.data \in Update
        /\ r.lines \in Reads /\ r.todo \in SUBSET Details
        /\ \A e \in r.todo : r.lines[e] \in OrderDetail
    BY <1>3, RequestFields DEF CheckLine, TypeOK, TypedSlot
  <2>2. pc \in {"check", "fetch", "update"}
    BY DEF AfterChecks
  <2>3. new \in Requests /\ TypedSlot(new)
    BY <2>1, <2>2, RequestBuilt DEF Confirming, ConfirmSteps, TypedSlot
  <2>4. Become(h, new) /\ UNCHANGED <<doc, line, stock, cache, gateway, bill>>
    BY <1>3 DEF CheckLine
  <2> QED
    BY <2>3, <2>4, TypeBecome DEF TypeOK
<1>4. ASSUME NEW d \in Details, RejectLine(h, d) PROVE TypeOK'
  BY <1>4, TypeBecome, RequestFields DEF RejectLine, TypeOK
<1>5. CASE FetchPrevious(h)
  <2> DEFINE new == Confirming("update", r.order, r.seen, cache[r.order], r.lines, {})
  <2>1. /\ r.order \in Orders /\ r.seen \in Doc /\ r.lines \in Reads
        /\ cache[r.order] \in Update \cup {None}
    BY <1>5, RequestFields, DocIsUpdate DEF FetchPrevious, TypeOK, TypedSlot
  <2>2. new \in Requests /\ TypedSlot(new)
    BY <2>1, RequestBuilt DEF Confirming, ConfirmSteps, TypedSlot
  <2>3. Become(h, new) /\ UNCHANGED <<doc, line, stock, cache, gateway, bill>>
    BY <1>5 DEF FetchPrevious
  <2> QED
    BY <2>2, <2>3, TypeBecome DEF TypeOK
<1>6. CASE UpdateOrder(h)
  <2> DEFINE stored == Updated(doc[r.order], r.data)
             new == Confirming("remember", r.order, r.seen, stored, r.lines, {})
  <2>1. r.order \in Orders /\ r.seen \in Doc /\ r.lines \in Reads
    BY <1>6, RequestFields DEF UpdateOrder, TypeOK, TypedSlot
  <2>2. stored \in Doc /\ stored \in Update
    BY <1>6, <2>1, RequestFields, UpdatedDoc, DocIsUpdate DEF UpdateOrder, TypeOK
  <2>3. /\ Become(h, new) /\ UNCHANGED <<line, stock, cache, gateway, bill>>
        /\ doc' = [doc EXCEPT ![r.order] = stored]
    BY <1>6 DEF UpdateOrder
  <2> HIDE DEF stored
  <2>4. new \in Requests /\ TypedSlot(new)
    BY <2>1, <2>2, RequestBuilt DEF Confirming, ConfirmSteps, TypedSlot
  <2> QED
    BY <2>2, <2>3, <2>4, TypeBecome DEF TypeOK
<1>7. CASE Remember(h)
  <2> DEFINE deduct == r.data.status = "PREPARES_PACKAGE" /\ Listed(r.lines) # {}
             new == IF deduct THEN Deducting(r.order, r.lines, Listed(r.lines)) ELSE Idle
  <2>1. r.order \in Orders /\ r.seen \in Doc /\ r.lines \in Reads
    BY <1>7, RequestFields DEF Remember, TypeOK, TypedSlot
  <2>2. Deducting(r.order, r.lines, Listed(r.lines)) \in Requests
    BY <2>1, RequestBuilt DEF Deducting, ConfirmSteps, Listed
  <2>3. TypedSlot(Deducting(r.order, r.lines, Listed(r.lines)))
    BY <2>1, RequestBuilt DEF Deducting, TypedSlot, Listed, Reads
  <2>4. /\ Become(h, new) /\ UNCHANGED <<doc, line, stock, gateway, bill>>
        /\ cache' = [cache EXCEPT ![r.order] = r.seen]
    BY <1>7 DEF Remember
  <2>5. new \in Requests /\ TypedSlot(new)
    BY <2>2, <2>3, RequestFields
  <2> HIDE DEF new
  <2> QED
    BY <2>1, <2>4, <2>5, TypeBecome DEF TypeOK
<1>8. ASSUME NEW d \in Details, DeductLine(h, d) PROVE TypeOK'
  <2> DEFINE new == IF r.todo = {d} THEN Idle
                    ELSE Deducting(r.order, r.lines, r.todo \ {d})
  <2>1. /\ r.order \in Orders /\ r.lines \in Reads /\ r.todo \in SUBSET Details
        /\ \A e \in r.todo : r.lines[e] \in OrderDetail
    BY <1>8, RequestFields DEF DeductLine, TypeOK, TypedSlot
  <2>2. /\ Deducting(r.order, r.lines, r.todo \ {d}) \in Requests
        /\ TypedSlot(Deducting(r.order, r.lines, r.todo \ {d}))
    BY <2>1, RequestBuilt DEF Deducting, ConfirmSteps, TypedSlot
  <2>3. new \in Requests /\ TypedSlot(new)
    BY <2>2, RequestFields
  <2>4. /\ Become(h, new) /\ UNCHANGED <<doc, line, cache, gateway, bill>>
        /\ stock' = [stock EXCEPT ![r.lines[d].product] = @ - r.lines[d].quantity]
    BY <1>8 DEF DeductLine
  <2>5. r.lines[d] \in OrderDetail
    BY <1>8, <2>1 DEF DeductLine
  <2>6. stock' \in [Products -> Int]
    BY <2>4, <2>5 DEF TypeOK, OrderDetail
  <2> HIDE DEF new
  <2> QED
    BY <2>3, <2>4, <2>6, TypeBecome DEF TypeOK
<1> QED
  BY <1>1, <1>2, <1>3, <1>4, <1>5, <1>6, <1>7, <1>8 DEF Confirm

\* A cancel, checkout, payment or IPN in progress, and the document it writes.
LEMMA ServingBuilt ==
    ASSUME NEW pc \in OtherSteps, NEW o \in Orders,
           NEW arg \in Actors \cup Settlements \cup {None}
    PROVE  /\ Serving(pc, o, arg) \in Requests
           /\ Serving(pc, o, arg).pc = pc
           /\ Serving(pc, o, arg).order = o
           /\ Serving(pc, o, arg).arg = arg
           /\ pc \notin {"pay", "redirect"} => TypedSlot(Serving(pc, o, arg))
BY RequestBuilt DEF Serving, NoLines, Reads, TypedSlot, OtherSteps

LEMMA PayingBuilt ==
    ASSUME NEW pc \in {"pay", "redirect"}, NEW o \in Orders, NEW seen \in Doc
    PROVE  /\ Paying(pc, o, seen) \in Requests
           /\ Paying(pc, o, seen).pc = pc
           /\ Paying(pc, o, seen).order = o
           /\ Paying(pc, o, seen).seen = seen
           /\ TypedSlot(Paying(pc, o, seen))
BY RequestBuilt DEF Paying, NoLines, Reads, TypedSlot, OtherSteps

LEMMA WrittenDoc ==
    ASSUME NEW d \in Doc
    PROVE  /\ [d EXCEPT !.status = "CANCEL"] \in Doc
           /\ [d EXCEPT !.status = "CANCEL"].status = "CANCEL"
           /\ [d EXCEPT !.status = "PENDING"] \in Doc
           /\ [d EXCEPT !.status = "PENDING"].status = "PENDING"
           /\ [d EXCEPT !.status = "PENDING", !.pay = "SUCCESS"] \in Doc
           /\ [d EXCEPT !.status = "PENDING", !.pay = "SUCCESS"].status = "PENDING"
           /\ [d EXCEPT !.status = "PENDING", !.pay = "SUCCESS"].pay = "SUCCESS"
           /\ [d EXCEPT !.pay = "FAIL"] \in Doc
           /\ [d EXCEPT !.pay = "FAIL"].status = d.status
           /\ [d EXCEPT !.pay = "FAIL"].pay = "FAIL"
BY DEF Doc, OrderStatuses, PaymentStatuses

\* Every step of a customer's request keeps the declared types.
LEMMA TypeCustomer ==
    ASSUME TypeOK, NEW h \in Handlers, Customer(h)
    PROVE  TypeOK'
<1> USE DEF At, Begin, Finish
<1> DEFINE o == req[h].order
<1>a. Actors \subseteq Actors \cup Settlements \cup {None}
      /\ {"cancel", "checkout"} \subseteq OtherSteps
  BY DEF OtherSteps
<1>1. ASSUME NEW p \in Orders, NEW who \in Actors, CancelRead(h, p, who)
      PROVE  TypeOK'
  BY <1>1, <1>a, ServingBuilt, TypeBecome DEF CancelRead, TypeOK
<1>2. CASE CancelWrite(h)
  <2>1. o \in Orders /\ doc[o] \in Doc
    BY <1>2, RequestFields DEF CancelWrite, TypeOK
  <2>2. [doc[o] EXCEPT !.status = "CANCEL"] \in Doc
    BY <2>1, WrittenDoc
  <2> QED
    BY <1>2, <2>1, <2>2, TypeBecome, RequestFields DEF CancelWrite, TypeOK
<1>3. ASSUME NEW p \in Orders, CheckoutRead(h, p) PROVE TypeOK'
  BY <1>3, <1>a, ServingBuilt, TypeBecome DEF CheckoutRead, TypeOK
<1>4. CASE CheckoutWrite(h)
  <2>1. o \in Orders /\ doc[o] \in Doc
    BY <1>4, RequestFields DEF CheckoutWrite, TypeOK
  <2>2. [doc[o] EXCEPT !.status = "PENDING"] \in Doc
    BY <2>1, WrittenDoc
  <2> QED
    BY <1>4, <2>1, <2>2, TypeBecome, RequestFields DEF CheckoutWrite, TypeOK
<1>5. ASSUME NEW p \in Orders, CreatePaymentRead(h, p) PROVE TypeOK'
  <2>1. /\ Paying("pay", p, doc[p]) \in Requests
        /\ TypedSlot(Paying("pay", p, doc[p]))
    BY PayingBuilt DEF TypeOK
  <2> QED
    BY <1>5, <2>1, TypeBecome DEF CreatePaymentRead, TypeOK
<1>6. CASE CreatePaymentWrite(h)
  <2> DEFINE d == [doc[o] EXCEPT !.status = "PENDING", !.pay = "SUCCESS"]
             new == Paying("redirect", o, req[h].seen)
  <2>1. o \in Orders /\ doc[o] \in Doc /\ req[h].seen \in Doc
    BY <1>6, RequestFields DEF CreatePaymentWrite, TypeOK, TypedSlot
  <2>2. d \in Doc /\ new \in Requests /\ TypedSlot(new)
    BY <2>1, PayingBuilt, WrittenDoc
  <2>3. /\ Become(h, new) /\ doc' = [doc EXCEPT ![o] = d]
        /\ UNCHANGED <<line, stock, cache, gateway, bill>>
    BY <1>6 DEF CreatePaymentWrite
  <2> HIDE DEF d, new
  <2> QED
    BY <2>1, <2>2, <2>3, TypeBecome DEF TypeOK
<1>7. CASE Redirect(h)
  <2>1. o \in Orders /\ req[h].seen \in Doc
    BY <1>7, RequestFields DEF Redirect, TypeOK, TypedSlot
  <2>2. /\ gateway' \in [Orders -> {"none", "issued", "acked"} \cup Settlements]
        /\ bill' \in [Orders -> Int]
    BY <1>7, <2>1 DEF Redirect, TypeOK, Doc
  <2> QED
    BY <1>7, <2>2, TypeBecome, RequestFields DEF Redirect, TypeOK
<1> QED
  BY <1>1, <1>2, <1>3, <1>4, <1>5, <1>6, <1>7, OrderAssumption DEF Customer

\* Every step of an IPN call keeps the declared types.
LEMMA TypeIpn ==
    ASSUME TypeOK, NEW h \in Handlers, Ipn(h)
    PROVE  TypeOK'
<1> USE DEF At, Begin, Finish
<1> DEFINE r == req[h]
<1>a. {"ipn", "reply"} \subseteq OtherSteps
  BY DEF OtherSteps
<1>1. ASSUME NEW o \in Orders, IpnRead(h, o) PROVE TypeOK'
  <2>1. /\ Serving("ipn", o, gateway[o]) \in Requests
        /\ TypedSlot(Serving("ipn", o, gateway[o]))
    BY <1>1, <1>a, ServingBuilt DEF IpnRead, Unanswered
  <2> QED
    BY <1>1, <2>1, TypeBecome DEF IpnRead, TypeOK
<1>2. ASSUME NEW o \in Orders, IpnAlready(h, o) PROVE TypeOK'
  BY <1>2, <1>a, ServingBuilt, TypeBecome DEF IpnAlready, TypeOK
<1>3. CASE IpnWrite(h)
  <2> DEFINE d == IF r.arg = "paid"
                  THEN [doc[r.order] EXCEPT !.status = "PENDING", !.pay = "SUCCESS"]
                  ELSE [doc[r.order] EXCEPT !.pay = "FAIL"]
  <2>1. r.order \in Orders /\ doc[r.order] \in Doc
    BY <1>3, RequestFields DEF IpnWrite, TypeOK
  <2>2. d \in Doc
    BY <2>1, WrittenDoc
  <2>3. /\ Serving("reply", r.order, None) \in Requests
        /\ TypedSlot(Serving("reply", r.order, None))
    BY <1>a, <2>1, ServingBuilt
  <2>4. /\ Become(h, Serving("reply", r.order, None))
        /\ doc' = [doc EXCEPT ![r.order] = d]
        /\ UNCHANGED <<line, stock, cache, gateway, bill>>
    BY <1>3 DEF IpnWrite
  <2> HIDE DEF d
  <2> QED
    BY <2>1, <2>2, <2>3, <2>4, TypeBecome DEF TypeOK
<1>4. CASE IpnReply(h)
  <2>1. r.order \in Orders
    BY <1>4, RequestFields DEF IpnReply, TypeOK
  <2> QED
    BY <1>4, <2>1, TypeBecome, RequestFields DEF IpnReply, TypeOK
<1>5. CASE IpnReplyLost(h)
  BY <1>5, TypeBecome, RequestFields DEF IpnReplyLost, TypeOK
<1> QED
  BY <1>1, <1>2, <1>3, <1>4, <1>5 DEF Ipn

\* The settlement, an expiry, a receipt and a crash keep the declared types.
LEMMA TypeEnvironment ==
    ASSUME TypeOK, Environment \/ Crash
    PROVE  TypeOK'
<1>1. ASSUME NEW o \in Orders, NEW result \in Settlements, Settle(o, result)
      PROVE  TypeOK'
  BY <1>1 DEF Settle, TypeOK
<1>2. ASSUME NEW o \in Orders, CacheExpire(o) PROVE TypeOK'
  BY <1>2 DEF CacheExpire, TypeOK
<1>3. ASSUME NEW p \in Products, Restock(p) PROVE TypeOK'
  BY <1>3 DEF Restock, TypeOK
<1>4. CASE Crash
  BY <1>4, RequestFields DEF Crash, TypeOK
<1> QED
  BY <1>1, <1>2, <1>3, <1>4, OrderAssumption DEF Environment

\* So does a cart request that changes a total.
LEMMA TypeRecount ==
    ASSUME TypeOK, NEW o \in Orders, Recount(o)
    PROVE  TypeOK'
<1>1. PICK total \in Totals : doc' = [doc EXCEPT ![o].total = total]
  BY DEF Recount
<1>2. [doc[o] EXCEPT !.total = total] \in Doc
  BY OrderAssumption DEF TypeOK, Doc
<1> QED
  BY <1>1, <1>2 DEF Recount, TypeOK

LEMMA TypeStep == TypeOK /\ [Next]_vars => TypeOK'
<1> SUFFICES ASSUME TypeOK, [Next]_vars PROVE TypeOK'
  OBVIOUS
<1>1. CASE UNCHANGED vars
  BY <1>1 DEF vars, TypeOK
<1>2. CASE Next
  BY <1>2, TypeConfirm, TypeCustomer, TypeIpn, TypeEnvironment, TypeRecount
     DEF Next, Serve
<1> QED
  BY <1>1, <1>2

\* Type correctness of the order life cycle.
THEOREM TypeCorrect == Spec => []TypeOK
<1>1. Init => TypeOK
  BY TypeInit
<1>2. TypeOK /\ [Next]_vars => TypeOK'
  BY TypeStep
<1> QED
  BY <1>1, <1>2, PTL DEF Spec

-----------------------------------------------------------------------------
(* An order nobody overtook is paid when it is delivered *)

\* The history says nothing new about the types.
LEMMA HTypeStep == TypeOK /\ [HNext]_hvars => TypeOK'
BY TypeStep DEF HNext, hvars, Next, vars

\* A request that this step does not serve still stands on what it read:
\* had its order changed, the order would now count as raced.
LEMMA Bystander ==
    ASSUME UnracedOrders, Record, NEW g \in Handlers, req'[g] = req[g],
           req[g].pc # "idle", req[g].order \in Orders,
           req[g].order \notin raced'
    PROVE  Undisturbed(g)' /\ CopiesPaid(g)'
<1> DEFINE o == req[g].order
<1>1. o \notin raced /\ Undisturbed(g) /\ CopiesPaid(g)
  BY DEF Record, UnracedOrders
<1>2. CopiesPaid(g)'
  BY <1>1 DEF CopiesPaid, Paid
<1>3. CASE Open(req[g])
  <2>1. Open(req'[g])
    BY <1>3
  <2>2. doc'[o] = doc[o]
    BY <1>3, <2>1 DEF Record, Overtaken
  <2> QED
    BY <1>1, <1>2, <2>2 DEF Undisturbed
<1>4. CASE ~Open(req[g])
  BY <1>2, <1>4 DEF Undisturbed, Open
<1> QED
  BY <1>3, <1>4

\* What is left to show for a step that serves the request of h.
LEMMA UnracedStep ==
    ASSUME TypeOK, TypeOK', UnracedOrders, Record, NEW h \in Handlers,
           \A g \in Handlers \ {h} : req'[g] = req[g],
           \A o \in Orders \ raced' : Paid(doc'[o]) /\ Paid(cache'[o]),
           (req'[h].pc # "idle" /\ req'[h].order \notin raced')
               => (Undisturbed(h)' /\ CopiesPaid(h)')
    PROVE  UnracedOrders'
<1>1. raced' \subseteq Orders
  BY DEF Record, Overtaken, UnracedOrders
<1>2. ASSUME NEW g \in Handlers, req'[g].pc # "idle", req'[g].order \notin raced'
      PROVE  Undisturbed(g)' /\ CopiesPaid(g)'
  <2>1. CASE g = h
    BY <1>2, <2>1
  <2>2. CASE g # h
    <3>1. req'[g] = req[g] /\ req[g].order \in Orders
      BY <1>2, <2>2, RequestFields DEF TypeOK
    <3> QED
      BY <1>2, <3>1, Bystander
  <2> QED
    BY <2>1, <2>2
<1> QED
  BY <1>1, <1>2 DEF UnracedOrders

\* A request that reads its order and writes nothing.
LEMMA UnracedRead ==
    ASSUME TypeOK, TypeOK', UnracedOrders, Record, NEW h \in Handlers,
           NEW r, Become(h, r), UNCHANGED <<doc, cache>>,
           (r.pc # "idle" /\ r.order \notin raced)
               => (Undisturbed(h)' /\ CopiesPaid(h)')
    PROVE  UnracedOrders'
<1>1. req'[h] = r /\ \A g \in Handlers \ {h} : req'[g] = req[g]
  BY DEF Become, TypeOK
<1>2. raced \subseteq raced'
  BY DEF Record
<1>3. \A o \in Orders \ raced' : Paid(doc'[o]) /\ Paid(cache'[o])
  BY <1>2 DEF UnracedOrders, Paid
<1> QED
  BY <1>1, <1>2, <1>3, UnracedStep

\* A request that writes its order: what it writes must be paid if delivered.
LEMMA UnracedWrite ==
    ASSUME TypeOK, TypeOK', UnracedOrders, Record, NEW h \in Handlers,
           NEW o \in Orders, NEW d, doc' = [doc EXCEPT ![o] = d], cache' = cache,
           NEW r, Become(h, r), ~Open(r), req[h].order = o, req[h].pc # "idle",
           o \notin raced => (Paid(d) /\ Paid(r.seen) /\ Paid(r.data)),
           r.pc # "idle" => r.order = o
    PROVE  UnracedOrders'
<1>1. req'[h] = r /\ \A g \in Handlers \ {h} : req'[g] = req[g]
  BY DEF Become, TypeOK
<1>2. raced \subseteq raced'
  BY DEF Record
<1>3. \A q \in Orders \ raced' : Paid(doc'[q]) /\ Paid(cache'[q])
  BY <1>2 DEF UnracedOrders, Paid, TypeOK
<1>4. Undisturbed(h)'
  BY <1>1 DEF Undisturbed, Open
<1>5. (r.pc # "idle" /\ r.order \notin raced') => CopiesPaid(h)'
  BY <1>1, <1>2 DEF CopiesPaid, Paid
<1> QED
  BY <1>1, <1>3, <1>4, <1>5, UnracedStep

\* A request that holds no copy of its order.
LEMMA NoCopies ==
    /\ Paid(Idle.seen) /\ Paid(Idle.data) /\ ~Open(Idle)
    /\ \A pc, o, arg : /\ Paid(Serving(pc, o, arg).seen)
                       /\ Paid(Serving(pc, o, arg).data)
                       /\ Serving(pc, o, arg).pc = pc
                       /\ Serving(pc, o, arg).order = o
                       /\ Serving(pc, o, arg).arg = arg
    /\ \A o, lines, todo : /\ Paid(Deducting(o, lines, todo).seen)
                           /\ Paid(Deducting(o, lines, todo).data)
                           /\ Deducting(o, lines, todo).pc = "deduct"
    /\ \A pc, o, seen : /\ Paid(Paying(pc, o, seen).data)
                        /\ Paying(pc, o, seen).pc = pc
                        /\ Paying(pc, o, seen).order = o
                        /\ Paying(pc, o, seen).seen = seen
BY RequestBuilt, RequestFields DEF Idle, Serving, Deducting, Paying, Paid, Open

\* The steps of a confirm keep unraced orders paid when delivered.
LEMMA UnracedConfirm ==
    ASSUME TypeOK, TypeOK', UnracedOrders, Record, NEW h \in Handlers, Confirm(h)
    PROVE  UnracedOrders'
<1> USE DEF At, Begin, Finish
<1> DEFINE r == req[h]
           o == r.order
\* A step that goes on with the confirm and the copies it holds.
<1>0. ASSUME NEW pc \in {"check", "fetch", "update"}, NEW lines, NEW todo, NEW data,
             Become(h, Confirming(pc, o, r.seen, data, lines, todo)),
             UNCHANGED <<doc, cache>>, r.pc \in {"lines", "check", "fetch"},
             o \notin raced => Paid(data)
      PROVE  UnracedOrders'
  <2> DEFINE new == Confirming(pc, o, r.seen, data, lines, todo)
  <2>1. new.pc = pc /\ new.order = o /\ new.seen = r.seen /\ new.data = data
    BY RequestBuilt DEF Confirming
  <2>2. Become(h, new)
    BY <1>0
  <2> HIDE DEF new
  <2>3. req'[h] = new
    BY <2>2 DEF Become, TypeOK
  <2>4. o \notin raced => r.seen = doc[o] /\ CopiesPaid(h)
    BY <1>0 DEF Undisturbed, UnracedOrders
  <2>5. o \notin raced => Undisturbed(h)' /\ CopiesPaid(h)'
    BY <1>0, <2>1, <2>3, <2>4 DEF Undisturbed, CopiesPaid
  <2> QED
    BY <1>0, <2>1, <2>2, <2>5, UnracedRead
<1>1. ASSUME NEW q \in Orders, NEW to \in Targets, NEW payArg \in PayArgs,
             ConfirmRead(h, q, to, payArg)
      PROVE  UnracedOrders'
  <2> DEFINE data == [status |-> to, pay |-> ConfirmedPayment(doc[q], to, payArg),
                      total |-> None]
             new == Confirming("lines", q, doc[q], data, NoLines, {})
  <2>1. Become(h, new) /\ UNCHANGED <<doc, cache>>
    BY <1>1 DEF ConfirmRead
  <2>2. new.pc = "lines" /\ new.order = q /\ new.seen = doc[q] /\ new.data = data
    BY RequestBuilt DEF Confirming
  <2>3. Paid(data)
    BY DEF Paid, ConfirmedPayment
  <2> HIDE DEF new, data
  <2>4. req'[h] = new
    BY <2>1 DEF Become, TypeOK
  <2>5. q \notin raced => Undisturbed(h)' /\ CopiesPaid(h)'
    BY <2>1, <2>2, <2>3, <2>4 DEF Undisturbed, CopiesPaid, UnracedOrders
  <2> QED
    BY <2>1, <2>2, <2>5, UnracedRead
<1>2. CASE ReadLines(h)
  <2> DEFINE todo == LinesToCheck(o, r.data.status)
             lines == [d \in Details |-> IF d \in DetailsOf(o) THEN line[d] ELSE None]
             pc == IF todo = {} THEN AfterChecks(r.seen, r.data) ELSE "check"
  <2>1. /\ Become(h, Confirming(pc, o, r.seen, r.data, lines, todo))
        /\ r.pc = "lines" /\ UNCHANGED <<doc, cache>>
    BY <1>2 DEF ReadLines
  <2>2. pc \in {"check", "fetch", "update"}
    BY DEF AfterChecks
  <2>3. o \notin raced => Paid(r.data)
    BY <2>1 DEF UnracedOrders, CopiesPaid
  <2> HIDE DEF pc, lines, todo
  <2> QED
    BY <2>1, <2>2, <2>3, <1>0
<1>3. ASSUME NEW d \in Details, CheckLine(h, d) PROVE UnracedOrders'
  <2> DEFINE pc == IF r.todo = {d} THEN AfterChecks(r.seen, r.data) ELSE "check"
  <2>1. /\ Become(h, Confirming(pc, o, r.seen, r.data, r.lines, r.todo \ {d}))
        /\ r.pc = "check" /\ UNCHANGED <<doc, cache>>
    BY <1>3 DEF CheckLine
  <2>2. pc \in {"check", "fetch", "update"}
    BY DEF AfterChecks
  <2>3. o \notin raced => Paid(r.data)
    BY <2>1 DEF UnracedOrders, CopiesPaid
  <2> HIDE DEF pc
  <2> QED
    BY <2>1, <2>2, <2>3, <1>0
<1>4. ASSUME NEW d \in Details, RejectLine(h, d) PROVE UnracedOrders'
  <2>1. Become(h, Idle) /\ UNCHANGED <<doc, cache>>
    BY <1>4 DEF RejectLine
  <2> QED
    BY <2>1, UnracedRead, RequestFields
<1>5. CASE FetchPrevious(h)
  <2>1. /\ Become(h, Confirming("update", o, r.seen, cache[o], r.lines, {}))
        /\ r.pc = "fetch" /\ UNCHANGED <<doc, cache>>
    BY <1>5 DEF FetchPrevious
  <2>2. o \in Orders
    BY <2>1, RequestFields DEF TypeOK
  <2>3. o \notin raced => Paid(cache[o])
    BY <2>2 DEF UnracedOrders
  <2> QED
    BY <2>1, <2>3, <1>0
<1>6. CASE UpdateOrder(h)
  <2> DEFINE stored == Updated(doc[o], r.data)
             new == Confirming("remember", o, r.seen, stored, r.lines, {})
  <2>1. /\ Become(h, new) /\ cache' = cache /\ doc' = [doc EXCEPT ![o] = stored]
        /\ r.pc = "update"
    BY <1>6 DEF UpdateOrder
  <2>2. /\ new.pc = "remember" /\ new.order = o
        /\ new.seen = r.seen /\ new.data = stored
    BY RequestBuilt DEF Confirming
  <2>3. o \in Orders /\ doc[o] \in Doc /\ r.data \in Update \cup {None}
    BY <2>1, RequestFields DEF TypeOK
  <2>4. o \notin raced => Paid(doc[o]) /\ Paid(r.data) /\ Paid(r.seen)
    BY <2>1, <2>3 DEF UnracedOrders, CopiesPaid
  <2>5. o \notin raced => Paid(stored)
    BY <2>3, <2>4, UpdatedDoc DEF Paid
  <2> HIDE DEF new, stored
  <2> QED
    BY <2>1, <2>2, <2>3, <2>4, <2>5, UnracedWrite DEF Open
<1>7. CASE Remember(h)
  <2> DEFINE deduct == r.data.status = "PREPARES_PACKAGE" /\ Listed(r.lines) # {}
             new == IF deduct THEN Deducting(o, r.lines, Listed(r.lines)) ELSE Idle
  <2>1. /\ Become(h, new) /\ doc' = doc /\ cache' = [cache EXCEPT ![o] = r.seen]
        /\ r.pc = "remember"
    BY <1>7 DEF Remember
  <2>2. new.pc \in {"deduct", "idle"} /\ Paid(new.seen) /\ Paid(new.data)
    BY NoCopies, RequestFields
  <2>3. o \notin raced => Paid(r.seen)
    BY <2>1 DEF UnracedOrders, CopiesPaid
  <2>4. raced \subseteq raced'
    BY DEF Record
  <2>5. \A q \in Orders \ raced' : Paid(doc'[q]) /\ Paid(cache'[q])
    BY <2>1, <2>3, <2>4 DEF UnracedOrders, TypeOK, Paid
  <2> HIDE DEF new
  <2>6. req'[h] = new /\ \A g \in Handlers \ {h} : req'[g] = req[g]
    BY <2>1 DEF Become, TypeOK
  <2>7. Undisturbed(h)' /\ CopiesPaid(h)'
    BY <2>2, <2>6 DEF Undisturbed, CopiesPaid
  <2> QED
    BY <2>5, <2>6, <2>7, UnracedStep
<1>8. ASSUME NEW d \in Details, DeductLine(h, d) PROVE UnracedOrders'
  <2> DEFINE new == IF r.todo = {d} THEN Idle ELSE Deducting(o, r.lines, r.todo \ {d})
  <2>1. Become(h, new) /\ UNCHANGED <<doc, cache>>
    BY <1>8 DEF DeductLine
  <2>2. new.pc \in {"deduct", "idle"} /\ Paid(new.seen) /\ Paid(new.data)
    BY NoCopies, RequestFields
  <2> HIDE DEF new
  <2>3. req'[h] = new
    BY <2>1 DEF Become, TypeOK
  <2>4. Undisturbed(h)' /\ CopiesPaid(h)'
    BY <2>2, <2>3 DEF Undisturbed, CopiesPaid
  <2> QED
    BY <2>1, <2>4, UnracedRead
<1> QED
  BY <1>1, <1>2, <1>3, <1>4, <1>5, <1>6, <1>7, <1>8 DEF Confirm

\* A cancel, checkout or IPN that has just read its order.
LEMMA UnracedServing ==
    ASSUME TypeOK, TypeOK', UnracedOrders, Record, NEW h \in Handlers,
           NEW pc \in OtherSteps, NEW o, NEW arg,
           Become(h, Serving(pc, o, arg)), UNCHANGED <<doc, cache>>,
           pc = "cancel" => CancelAllowed(doc[o].status, arg),
           pc = "checkout" => doc[o].status = "CART", pc # "pay",
           pc = "ipn" => doc[o].pay = "PENDING"
    PROVE  UnracedOrders'
<1> DEFINE new == Serving(pc, o, arg)
<1>1. /\ new.pc = pc /\ new.order = o /\ new.arg = arg
      /\ Paid(new.seen) /\ Paid(new.data)
  BY NoCopies
<1> HIDE DEF new
<1>2. req'[h] = new
  BY DEF new, Become, TypeOK
<1>3. Undisturbed(h)' /\ CopiesPaid(h)'
  BY <1>1, <1>2 DEF Undisturbed, CopiesPaid, OtherSteps
<1> QED
  BY <1>3, UnracedRead DEF new

\* The steps of a customer's request keep unraced orders paid when delivered.
LEMMA UnracedCustomer ==
    ASSUME TypeOK, TypeOK', UnracedOrders, Record, NEW h \in Handlers, Customer(h)
    PROVE  UnracedOrders'
<1> USE DEF At, Begin, Finish
<1> DEFINE o == req[h].order
<1>1. ASSUME NEW p \in Orders, NEW who \in Actors, CancelRead(h, p, who)
      PROVE  UnracedOrders'
  BY <1>1, UnracedServing DEF CancelRead, OtherSteps
<1>2. CASE CancelWrite(h)
  <2> DEFINE d == [doc[o] EXCEPT !.status = "CANCEL"]
  <2>1. /\ o \in Orders /\ req[h].pc # "idle" /\ doc[o] \in Doc
        /\ Become(h, Idle) /\ cache' = cache /\ doc' = [doc EXCEPT ![o] = d]
    BY <1>2, RequestFields DEF CancelWrite, TypeOK
  <2>2. Paid(d)
    BY <2>1, WrittenDoc DEF Paid
  <2> HIDE DEF d
  <2> QED
    BY <2>1, <2>2, UnracedWrite, NoCopies, RequestFields
<1>3. ASSUME NEW p \in Orders, CheckoutRead(h, p) PROVE UnracedOrders'
  BY <1>3, UnracedServing DEF CheckoutRead, OtherSteps
<1>4. CASE CheckoutWrite(h)
  <2> DEFINE d == [doc[o] EXCEPT !.status = "PENDING"]
  <2>1. /\ o \in Orders /\ req[h].pc # "idle" /\ doc[o] \in Doc
        /\ Become(h, Idle) /\ cache' = cache /\ doc' = [doc EXCEPT ![o] = d]
    BY <1>4, RequestFields DEF CheckoutWrite, TypeOK
  <2>2. Paid(d)
    BY <2>1, WrittenDoc DEF Paid
  <2> HIDE DEF d
  <2> QED
    BY <2>1, <2>2, UnracedWrite, NoCopies, RequestFields
<1>5. ASSUME NEW p \in Orders, CreatePaymentRead(h, p) PROVE UnracedOrders'
  <2> DEFINE new == Paying("pay", p, doc[p])
  <2>1. /\ Become(h, new) /\ UNCHANGED <<doc, cache>> /\ doc[p].status = "CART"
    BY <1>5 DEF CreatePaymentRead
  <2>2. new.pc = "pay" /\ new.order = p /\ new.seen = doc[p] /\ Paid(new.data)
    BY NoCopies
  <2> HIDE DEF new
  <2>3. req'[h] = new
    BY <2>1 DEF Become, TypeOK
  <2>4. p \notin raced => Undisturbed(h)' /\ CopiesPaid(h)'
    BY <2>1, <2>2, <2>3 DEF Undisturbed, CopiesPaid, UnracedOrders
  <2> QED
    BY <2>1, <2>2, <2>4, UnracedRead
<1>6. CASE CreatePaymentWrite(h)
  <2> DEFINE d == [doc[o] EXCEPT !.status = "PENDING", !.pay = "SUCCESS"]
             new == Paying("redirect", o, req[h].seen)
  <2>1. /\ o \in Orders /\ req[h].pc = "pay" /\ doc[o] \in Doc
        /\ Become(h, new) /\ cache' = cache /\ doc' = [doc EXCEPT ![o] = d]
    BY <1>6, RequestFields DEF CreatePaymentWrite, TypeOK
  <2>2. Paid(d)
    BY <2>1, WrittenDoc DEF Paid
  <2>3. /\ new.pc = "redirect" /\ new.order = o
        /\ new.seen = req[h].seen /\ Paid(new.data)
    BY NoCopies
  <2>4. o \notin raced => Paid(req[h].seen)
    BY <2>1 DEF UnracedOrders, CopiesPaid
  <2> HIDE DEF d, new
  <2> QED
    BY <2>1, <2>2, <2>3, <2>4, UnracedWrite DEF Open
<1>7. CASE Redirect(h)
  BY <1>7, UnracedRead, RequestFields DEF Redirect
<1> QED
  BY <1>1, <1>2, <1>3, <1>4, <1>5, <1>6, <1>7, OrderAssumption DEF Customer

\* So do the steps of an IPN call: it fails a payment only while it is open,
\* so the order it fails is not delivered.
LEMMA UnracedIpn ==
    ASSUME TypeOK, TypeOK', UnracedOrders, Record, NEW h \in Handlers, Ipn(h)
    PROVE  UnracedOrders'
<1> USE DEF At, Begin, Finish
<1> DEFINE r == req[h]
           o == r.order
<1>1. ASSUME NEW p \in Orders, IpnRead(h, p) PROVE UnracedOrders'
  BY <1>1, UnracedServing DEF IpnRead, OtherSteps
<1>2. ASSUME NEW p \in Orders, IpnAlready(h, p) PROVE UnracedOrders'
  BY <1>2, UnracedServing DEF IpnAlready, OtherSteps
<1>3. CASE IpnWrite(h)
  <2> DEFINE d == IF r.arg = "paid"
                  THEN [doc[o] EXCEPT !.status = "PENDING", !.pay = "SUCCESS"]
                  ELSE [doc[o] EXCEPT !.pay = "FAIL"]
             new == Serving("reply", o, None)
  <2>1. /\ o \in Orders /\ r.pc = "ipn" /\ doc[o] \in Doc
        /\ Become(h, new) /\ cache' = cache /\ doc' = [doc EXCEPT ![o] = d]
    BY <1>3, RequestFields DEF IpnWrite, TypeOK
  <2>2. o \notin raced => Paid(d)
    <3>1. o \notin raced => doc[o].pay = "PENDING" /\ Paid(doc[o])
      BY <2>1 DEF UnracedOrders, Undisturbed
    <3>2. o \notin raced => doc[o].status # "SUCCESS"
      BY <2>1, <3>1, NoneIsNoDoc DEF Paid
    <3>3. CASE r.arg = "paid"
      BY <2>1, <3>3, WrittenDoc DEF Paid
    <3>4. CASE r.arg # "paid"
      <4>1. d.status = doc[o].status
        BY <2>1, <3>4, WrittenDoc
      <4> QED
        BY <3>2, <4>1 DEF Paid
    <3> QED
      BY <3>3, <3>4
  <2>3. new.pc = "reply" /\ new.order = o /\ Paid(new.seen) /\ Paid(new.data)
    BY NoCopies
  <2> HIDE DEF d, new
  <2> QED
    BY <2>1, <2>2, <2>3, UnracedWrite DEF Open
<1>4. CASE IpnReply(h)
  BY <1>4, UnracedRead, RequestFields DEF IpnReply
<1>5. CASE IpnReplyLost(h)
  BY <1>5, UnracedRead, RequestFields DEF IpnReplyLost
<1> QED
  BY <1>1, <1>2, <1>3, <1>4, <1>5 DEF Ipn

\* The environment and a crash keep unraced orders paid when delivered.
LEMMA UnracedEnvironment ==
    ASSUME TypeOK, TypeOK', UnracedOrders, Record, Environment \/ Crash
    PROVE  UnracedOrders'
<1>1. raced' = raced
  <2>1. doc' = doc
    BY DEF Environment, Crash, Settle, CacheExpire, Restock
  <2> QED
    BY <2>1 DEF Record, Overtaken
<1>2. \A o \in Orders \ raced' : Paid(doc'[o]) /\ Paid(cache'[o])
  <2>1. doc' = doc
    BY DEF Environment, Crash, Settle, CacheExpire, Restock
  <2>2. \A o \in Orders : cache'[o] \in {cache[o], None}
    BY DEF Environment, Crash, Settle, CacheExpire, Restock, TypeOK
  <2> QED
    BY <1>1, <2>1, <2>2 DEF UnracedOrders, Paid
<1>3. \A g \in Handlers : req'[g] = req[g] \/ req'[g].pc = "idle"
  BY RequestFields DEF Environment, Crash, Settle, CacheExpire, Restock
<1>4. \A g \in Handlers : (req'[g].pc # "idle" /\ req'[g].order \notin raced')
        => Undisturbed(g)' /\ CopiesPaid(g)'
  BY <1>3, Bystander, RequestFields DEF TypeOK
<1> QED
  BY <1>1, <1>2, <1>4 DEF UnracedOrders

\* A new total leaves status and payment alone, and whoever read the order
\* before it is overtaken by it.
LEMMA UnracedRecount ==
    ASSUME TypeOK, TypeOK', UnracedOrders, Record, NEW o \in Orders, Recount(o)
    PROVE  UnracedOrders'
<1>1. raced' \subseteq Orders
  BY DEF Record, Overtaken, UnracedOrders
<1>2. \A q \in Orders : doc'[q].status = doc[q].status /\ doc'[q].pay = doc[q].pay
  BY DEF Recount, TypeOK
<1>3. \A q \in Orders \ raced' : Paid(doc'[q]) /\ Paid(cache'[q])
  BY <1>2, NoneIsNoDoc DEF Recount, Record, UnracedOrders, Paid, TypeOK
<1>4. \A g \in Handlers : (req'[g].pc # "idle" /\ req'[g].order \notin raced')
        => Undisturbed(g)' /\ CopiesPaid(g)'
  BY Bystander, RequestFields DEF Recount, TypeOK
<1> QED
  BY <1>1, <1>3, <1>4 DEF UnracedOrders

LEMMA UnracedInit == HInit => UnracedOrders
<1>1. Idle.pc = "idle"
  BY RequestFields
<1> QED
  BY <1>1 DEF HInit, Init, NewOrder, UnracedOrders, Paid

LEMMA UnracedNext == TypeOK /\ TypeOK' /\ UnracedOrders /\ [HNext]_hvars => UnracedOrders'
<1> SUFFICES ASSUME TypeOK, TypeOK', UnracedOrders, [HNext]_hvars
             PROVE  UnracedOrders'
  OBVIOUS
<1>1. CASE UNCHANGED hvars
  BY <1>1 DEF hvars, vars, history, UnracedOrders, Undisturbed, CopiesPaid, Paid
<1>2. CASE HNext
  <2>1. Record /\ (Serve \/ Crash)
    BY <1>2 DEF HNext
  <2> QED
    BY <2>1, UnracedConfirm, UnracedCustomer, UnracedIpn, UnracedEnvironment,
       UnracedRecount DEF Serve
<1> QED
  BY <1>1, <1>2

\* For every order no request overtook, SUCCESS comes with a paid payment
\* (order.controller.ts:251-253): the property PaidWhenDelivered.
THEOREM DeliveredUnracedIsPaid == HSpec => []PaidWhenDelivered
<1>1. HInit => TypeOK /\ UnracedOrders
  BY TypeInit, UnracedInit DEF HInit
<1>2. TypeOK /\ UnracedOrders /\ [HNext]_hvars => TypeOK' /\ UnracedOrders'
  BY HTypeStep, UnracedNext
<1>3. ASSUME TypeOK, UnracedOrders PROVE PaidWhenDelivered
  <2> SUFFICES ASSUME NEW o \in Orders \ raced, doc[o].status = "SUCCESS"
               PROVE  doc[o].pay = "SUCCESS"
    BY DEF PaidWhenDelivered
  <2>1. Paid(doc[o])
    BY <1>3 DEF UnracedOrders
  <2>2. doc[o] \in Doc
    BY <1>3 DEF TypeOK
  <2> QED
    BY <2>1, <2>2, NoneIsNoDoc DEF Paid
<1> QED
  BY <1>1, <1>2, <1>3, PTL DEF HSpec

\* Only an update or a staff cancel takes an order nobody overtook from SUCCESS.
LEMMA LeftBy ==
    ASSUME TypeOK, UnracedOrders, NEW o \in Orders \ raced, LeavesDelivered(o),
           NEW h \in Handlers, Confirm(h) \/ Customer(h) \/ Ipn(h)
    PROVE  \E g \in Handlers : Undoes(g, o)
<1> USE DEF At, LeavesDelivered, Undoes
<1>1. doc[o].pay # "PENDING"
  BY NoneIsNoDoc DEF TypeOK, UnracedOrders, Paid
<1>2. CASE UpdateOrder(h)
  BY <1>2 DEF UpdateOrder, TypeOK
<1>3. CASE CancelWrite(h)
  <2>1. req[h].order = o /\ req[h].pc = "cancel"
    BY <1>3 DEF CancelWrite, TypeOK
  <2>2. CancelAllowed("SUCCESS", req[h].arg)
    BY <2>1 DEF UnracedOrders, Undisturbed
  <2> QED
    BY <2>1, <2>2 DEF CancelAllowed
<1>4. CASE CheckoutWrite(h) \/ CreatePaymentWrite(h)
  <2>1. req[h].order = o /\ req[h].pc \in {"checkout", "pay"}
    BY <1>4 DEF CheckoutWrite, CreatePaymentWrite, TypeOK
  <2> QED
    BY <2>1 DEF UnracedOrders, Undisturbed
<1>5. CASE IpnWrite(h)
  <2>1. req[h].order = o /\ req[h].pc = "ipn"
    BY <1>5 DEF IpnWrite, TypeOK
  <2> QED
    BY <1>1, <2>1 DEF UnracedOrders, Undisturbed
<1>6. doc' # doc
  OBVIOUS
<1> QED
  BY <1>2, <1>3, <1>4, <1>5, <1>6
     DEF Confirm, Customer, Ipn, ConfirmRead, ReadLines, CheckLine, RejectLine,
         FetchPrevious, Remember, DeductLine, CancelRead, CheckoutRead,
         CreatePaymentRead, Redirect, IpnRead, IpnAlready, IpnReply, IpnReplyLost

\* An order nobody overtook leaves SUCCESS only by a confirm or a staff cancel:
\* the property DeliveredStands.
THEOREM DeliveredUnracedStands == HSpec => DeliveredStands
<1> DEFINE Stands == \A o \in Orders \ raced :
                LeavesDelivered(o) => \E h \in Handlers : Undoes(h, o)
<1>1. TypeOK /\ UnracedOrders /\ [HNext]_hvars => [Stands]_hvars
  <2> SUFFICES ASSUME TypeOK, UnracedOrders, HNext,
                      NEW o \in Orders \ raced, LeavesDelivered(o)
               PROVE  \E h \in Handlers : Undoes(h, o)
    BY DEF Stands
  <2>1. ASSUME Environment \/ Crash PROVE FALSE
    BY <2>1 DEF LeavesDelivered, Environment, Crash, Settle, CacheExpire, Restock
  <2>2. ASSUME NEW q \in Orders, Recount(q) PROVE FALSE
    BY <2>2 DEF LeavesDelivered, Recount, TypeOK
  <2> QED
    BY <2>1, <2>2, LeftBy DEF HNext, Serve
<1>2. HInit => TypeOK /\ UnracedOrders
  BY TypeInit, UnracedInit DEF HInit
<1>3. TypeOK /\ UnracedOrders /\ [HNext]_hvars => TypeOK' /\ UnracedOrders'
  BY HTypeStep, UnracedNext
<1> QED
  BY <1>1, <1>2, <1>3, PTL DEF HSpec, DeliveredStands, Stands

-----------------------------------------------------------------------------
(* A delivered order was asked for by an admin, whatever requests raced *)

\* What is left to show for a step that serves the request of h, which becomes
\* r: an order once asked for stays so, and the other requests keep theirs.
LEMMA AskedStep ==
    ASSUME TypeOK, AskedOrders, Record, NEW h \in Handlers, NEW r, Become(h, r),
           \A o \in Orders : Asked(o, doc'[o]) /\ Asked(o, cache'[o]),
           r.pc # "idle" => /\ Asked(r.order, r.seen)
                            /\ Asked(r.order, r.data) \/ r.order \in asked'
    PROVE  AskedOrders'
<1>1. asked \subseteq asked'
  BY DEF Record
<1>2. \A o \in Orders : Asked(o, doc[o])' /\ Asked(o, cache[o])'
  BY <1>1 DEF Asked
<1>3. ASSUME NEW g \in Handlers, req'[g].pc # "idle"
      PROVE  Asked(req[g].order, req[g].seen)' /\ Asked(req[g].order, req[g].data)'
  <2>1. req'[h] = r /\ (g # h => req'[g] = req[g])
    BY DEF Become, TypeOK
  <2>2. CASE g = h
    BY <1>1, <1>3, <2>1, <2>2 DEF Asked
  <2>3. CASE g # h
    BY <1>1, <1>3, <2>1, <2>3 DEF AskedOrders, Asked
  <2> QED
    BY <2>2, <2>3
<1> QED
  BY <1>2, <1>3 DEF AskedOrders

\* A cancel, checkout, payment or IPN in progress carries no copy of an order.
LEMMA AskedServing ==
    ASSUME NEW pc, NEW o, NEW arg, NEW lines, NEW todo, NEW seen
    PROVE  /\ Asked(Serving(pc, o, arg).order, Serving(pc, o, arg).seen)
           /\ Asked(Serving(pc, o, arg).order, Serving(pc, o, arg).data)
           /\ Asked(Deducting(o, lines, todo).order, Deducting(o, lines, todo).seen)
           /\ Asked(Deducting(o, lines, todo).order, Deducting(o, lines, todo).data)
           /\ Asked(Paying(pc, o, seen).order, Paying(pc, o, seen).data)
           /\ Paying(pc, o, seen).order = o /\ Paying(pc, o, seen).seen = seen
BY RequestBuilt DEF Serving, Deducting, Paying, Asked

\* A step that serves h and writes no document, in MongoDB or in Redis.
LEMMA AskedRead ==
    ASSUME TypeOK, AskedOrders, Record, NEW h \in Handlers, NEW r, Become(h, r),
           UNCHANGED <<doc, cache>>,
           r.pc # "idle" => /\ Asked(r.order, r.seen)
                            /\ Asked(r.order, r.data) \/ r.order \in asked'
    PROVE  AskedOrders'
BY AskedStep DEF AskedOrders

\* A step that serves h and writes d as the document of o.
LEMMA AskedWrite ==
    ASSUME TypeOK, AskedOrders, Record, NEW h \in Handlers, NEW r, Become(h, r),
           NEW o \in Orders, NEW d, doc' = [doc EXCEPT ![o] = d], cache' = cache,
           Asked(o, d),
           r.pc # "idle" => Asked(r.order, r.seen) /\ Asked(r.order, r.data)
    PROVE  AskedOrders'
<1>1. \A q \in Orders : doc'[q] = IF q = o THEN d ELSE doc[q]
  BY DEF TypeOK
<1>2. \A q \in Orders : Asked(q, doc'[q]) /\ Asked(q, cache'[q])
  BY <1>1 DEF AskedOrders
<1> QED
  BY <1>2, AskedStep

\* The steps of a confirm: the first one is what asks, the update and the
\* cache hold only what was read, asked or cached before.
LEMMA AskedConfirm ==
    ASSUME TypeOK, AskedOrders, Record, NEW h \in Handlers, Confirm(h)
    PROVE  AskedOrders'
<1> USE DEF At, Begin, Finish
<1> DEFINE r == req[h]
           o == r.order
\* A step that goes on with the confirm and the copies it holds.
<1>0. ASSUME NEW pc, NEW lines, NEW todo, NEW data, r.pc # "idle",
             Become(h, Confirming(pc, o, r.seen, data, lines, todo)),
             UNCHANGED <<doc, cache>>, Asked(o, data)
      PROVE  AskedOrders'
  <2> DEFINE new == Confirming(pc, o, r.seen, data, lines, todo)
  <2>1. new.order = o /\ new.seen = r.seen /\ new.data = data
    BY RequestBuilt DEF Confirming
  <2>2. Asked(o, r.seen)
    BY <1>0 DEF AskedOrders
  <2>3. Become(h, new)
    BY <1>0
  <2> HIDE DEF new
  <2> QED
    BY <1>0, <2>1, <2>2, <2>3, AskedRead
<1>1. ASSUME NEW q \in Orders, NEW to \in Targets, NEW payArg \in PayArgs,
             ConfirmRead(h, q, to, payArg)
      PROVE  AskedOrders'
  <2> DEFINE data == [status |-> to, pay |-> ConfirmedPayment(doc[q], to, payArg),
                      total |-> None]
             new == Confirming("lines", q, doc[q], data, NoLines, {})
  <2>1. Become(h, new) /\ req[h] = Idle /\ UNCHANGED <<doc, cache>>
    BY <1>1 DEF ConfirmRead
  <2>2. new.pc = "lines" /\ new.order = q /\ new.seen = doc[q] /\ new.data = data
    BY RequestBuilt DEF Confirming
  <2>3. data.status = to
    OBVIOUS
  <2> HIDE DEF new, data
  <2>4. req'[h] = new
    BY <2>1 DEF Become, TypeOK
  <2>5. to = "SUCCESS" => q \in asked'
    BY <2>1, <2>2, <2>3, <2>4, RequestFields DEF Record, AskedNow, ConfirmSteps
  <2>6. Asked(q, data) \/ q \in asked'
    BY <2>3, <2>5 DEF Asked
  <2>7. Asked(q, doc[q])
    BY DEF AskedOrders
  <2> QED
    BY <2>1, <2>2, <2>6, <2>7, AskedRead
<1>2. CASE ReadLines(h)
  <2> DEFINE todo == LinesToCheck(o, r.data.status)
             lines == [d \in Details |-> IF d \in DetailsOf(o) THEN line[d] ELSE None]
             pc == IF todo = {} THEN AfterChecks(r.seen, r.data) ELSE "check"
  <2>1. /\ Become(h, Confirming(pc, o, r.seen, r.data, lines, todo))
        /\ r.pc = "lines" /\ UNCHANGED <<doc, cache>>
    BY <1>2 DEF ReadLines
  <2>2. Asked(o, r.data)
    BY <2>1 DEF AskedOrders
  <2> HIDE DEF pc, lines, todo
  <2> QED
    BY <2>1, <2>2, <1>0
<1>3. ASSUME NEW d \in Details, CheckLine(h, d) PROVE AskedOrders'
  <2> DEFINE pc == IF r.todo = {d} THEN AfterChecks(r.seen, r.data) ELSE "check"
  <2>1. /\ Become(h, Confirming(pc, o, r.seen, r.data, r.lines, r.todo \ {d}))
        /\ r.pc = "check" /\ UNCHANGED <<doc, cache>>
    BY <1>3 DEF CheckLine
  <2>2. Asked(o, r.data)
    BY <2>1 DEF AskedOrders
  <2> HIDE DEF pc
  <2> QED
    BY <2>1, <2>2, <1>0
<1>4. ASSUME NEW d \in Details, RejectLine(h, d) PROVE AskedOrders'
  <2>1. Become(h, Idle) /\ UNCHANGED <<doc, cache>>
    BY <1>4 DEF RejectLine
  <2> QED
    BY <2>1, AskedRead, RequestFields
<1>5. CASE FetchPrevious(h)
  <2>1. /\ Become(h, Confirming("update", o, r.seen, cache[o], r.lines, {}))
        /\ r.pc = "fetch" /\ UNCHANGED <<doc, cache>>
    BY <1>5 DEF FetchPrevious
  <2>2. o \in Orders
    BY <2>1, RequestFields DEF TypeOK
  <2>3. Asked(o, cache[o])
    BY <2>2 DEF AskedOrders
  <2> QED
    BY <2>1, <2>3, <1>0
<1>6. CASE UpdateOrder(h)
  <2> DEFINE stored == Updated(doc[o], r.data)
             new == Confirming("remember", o, r.seen, stored, r.lines, {})
  <2>1. /\ Become(h, new) /\ cache' = cache /\ doc' = [doc EXCEPT ![o] = stored]
        /\ r.pc = "update"
    BY <1>6 DEF UpdateOrder
  <2>2. new.order = o /\ new.seen = r.seen /\ new.data = stored
    BY RequestBuilt DEF Confirming
  <2>3. o \in Orders /\ doc[o] \in Doc /\ r.data \in Update \cup {None}
    BY <2>1, RequestFields DEF TypeOK
  <2>4. Asked(o, r.seen) /\ Asked(o, r.data) /\ Asked(o, doc[o])
    BY <2>1, <2>3 DEF AskedOrders
  <2>5. Asked(o, stored)
    BY <2>3, <2>4, UpdatedDoc DEF Asked
  <2> HIDE DEF new, stored
  <2> QED
    BY <2>1, <2>2, <2>3, <2>4, <2>5, AskedWrite
<1>7. CASE Remember(h)
  <2> DEFINE deduct == r.data.status = "PREPARES_PACKAGE" /\ Listed(r.lines) # {}
             new == IF deduct THEN Deducting(o, r.lines, Listed(r.lines)) ELSE Idle
  <2>1. /\ Become(h, new) /\ doc' = doc /\ cache' = [cache EXCEPT ![o] = r.seen]
        /\ r.pc = "remember"
    BY <1>7 DEF Remember
  <2>2. Asked(o, r.seen)
    BY <2>1 DEF AskedOrders
  <2>3. \A q \in Orders : cache'[q] = IF q = o THEN r.seen ELSE cache[q]
    BY <2>1 DEF TypeOK
  <2>4. \A q \in Orders : Asked(q, doc'[q]) /\ Asked(q, cache'[q])
    BY <2>1, <2>2, <2>3 DEF AskedOrders
  <2>5. new.pc # "idle" => Asked(new.order, new.seen) /\ Asked(new.order, new.data)
    BY AskedServing, RequestFields
  <2> HIDE DEF new
  <2> QED
    BY <2>1, <2>4, <2>5, AskedStep
<1>8. ASSUME NEW d \in Details, DeductLine(h, d) PROVE AskedOrders'
  <2> DEFINE new == IF r.todo = {d} THEN Idle ELSE Deducting(o, r.lines, r.todo \ {d})
  <2>1. Become(h, new) /\ UNCHANGED <<doc, cache>>
    BY <1>8 DEF DeductLine
  <2>2. new.pc # "idle" => Asked(new.order, new.seen) /\ Asked(new.order, new.data)
    BY AskedServing, RequestFields
  <2> HIDE DEF new
  <2> QED
    BY <2>1, <2>2, AskedRead
<1> QED
  BY <1>1, <1>2, <1>3, <1>4, <1>5, <1>6, <1>7, <1>8 DEF Confirm

\* Customers and VNPay write a document that is not delivered, or keep the
\* status it has.
LEMMA AskedCustomerOrIpn ==
    ASSUME TypeOK, AskedOrders, Record, NEW h \in Handlers, Customer(h) \/ Ipn(h)
    PROVE  AskedOrders'
<1> USE DEF At, Begin, Finish
<1> DEFINE r == req[h]
           o == r.order
<1>1. ASSUME NEW pc, NEW q, NEW arg, Become(h, Serving(pc, q, arg)),
             UNCHANGED <<doc, cache>>
      PROVE  AskedOrders'
  BY <1>1, AskedServing, AskedRead
<1>2. ASSUME Become(h, Idle), UNCHANGED <<doc, cache>> PROVE AskedOrders'
  BY <1>2, AskedRead, RequestFields
<1>3. CASE CancelWrite(h) \/ CheckoutWrite(h)
  <2>1. /\ r.pc # "idle" /\ Become(h, Idle) /\ cache' = cache
        /\ \E s \in {"CANCEL", "PENDING"} :
                doc' = [doc EXCEPT ![o] = [doc[o] EXCEPT !.status = s]]
    BY <1>3 DEF CancelWrite, CheckoutWrite
  <2>2. PICK s \in {"CANCEL", "PENDING"} :
            doc' = [doc EXCEPT ![o] = [doc[o] EXCEPT !.status = s]]
    BY <2>1
  <2> DEFINE d == [doc[o] EXCEPT !.status = s]
  <2>3. o \in Orders /\ doc[o] \in Doc
    BY <2>1, RequestFields DEF TypeOK
  <2>4. Asked(o, d)
    <3>1. d.status = s
      BY <2>3 DEF Doc
    <3> QED
      BY <3>1 DEF Asked
  <2>5. doc' = [doc EXCEPT ![o] = d]
    BY <2>2
  <2> HIDE DEF d
  <2> QED
    BY <2>1, <2>3, <2>4, <2>5, AskedWrite, RequestFields
<1>4. CASE CreatePaymentWrite(h) \/ IpnWrite(h)
  <2> DEFINE paid == [doc[o] EXCEPT !.status = "PENDING", !.pay = "SUCCESS"]
             failed == [doc[o] EXCEPT !.pay = "FAIL"]
  <2>1. /\ r.pc # "idle" /\ cache' = cache
        /\ \/ Become(h, Paying("redirect", o, r.seen))
           \/ Become(h, Serving("reply", o, None))
        /\ \E d \in {paid, failed} : doc' = [doc EXCEPT ![o] = d]
    BY <1>4 DEF CreatePaymentWrite, IpnWrite
  <2>2. o \in Orders /\ doc[o] \in Doc /\ Asked(o, doc[o]) /\ Asked(o, r.seen)
    BY <2>1, RequestFields DEF TypeOK, AskedOrders
  <2>3. Asked(o, paid)
    BY <2>2, WrittenDoc DEF Asked
  <2>4. Asked(o, failed)
    <3>1. failed.status = doc[o].status
      BY <2>2, WrittenDoc
    <3>2. doc[o] # None
      BY <2>2, NoneIsNoDoc
    <3> HIDE DEF failed
    <3> QED
      BY <2>2, <3>1, <3>2 DEF Asked
  <2> HIDE DEF paid, failed
  <2>5. PICK d \in {paid, failed} : doc' = [doc EXCEPT ![o] = d]
    BY <2>1
  <2>6. Asked(o, d)
    BY <2>3, <2>4, <2>5
  <2>7. PICK new : /\ Become(h, new)
                   /\ Asked(new.order, new.seen) /\ Asked(new.order, new.data)
    BY <2>1, <2>2, AskedServing
  <2> QED
    BY <2>1, <2>2, <2>5, <2>6, <2>7, AskedWrite
<1>a. ASSUME NEW p \in Orders, CreatePaymentRead(h, p) PROVE AskedOrders'
  <2> DEFINE new == Paying("pay", p, doc[p])
  <2>1. Become(h, new) /\ UNCHANGED <<doc, cache>>
    BY <1>a DEF CreatePaymentRead
  <2>2. Asked(new.order, new.seen) /\ Asked(new.order, new.data)
    BY AskedServing DEF AskedOrders
  <2> HIDE DEF new
  <2> QED
    BY <2>1, <2>2, AskedRead
<1>5. CASE Customer(h)
  BY <1>1, <1>2, <1>3, <1>4, <1>5, <1>a, OrderAssumption
     DEF Customer, CancelRead, CheckoutRead, Redirect
<1>6. CASE Ipn(h)
  BY <1>1, <1>2, <1>4, <1>6 DEF Ipn, IpnRead, IpnAlready, IpnReply, IpnReplyLost
<1> QED
  BY <1>5, <1>6

\* The environment and a crash write no document; the cache only forgets.
LEMMA AskedEnvironment ==
    ASSUME TypeOK, AskedOrders, Record, Environment \/ Crash
    PROVE  AskedOrders'
<1>1. asked \subseteq asked'
  BY DEF Record
<1>2. doc' = doc
  BY DEF Environment, Crash, Settle, CacheExpire, Restock
<1>3. \A o \in Orders : cache'[o] \in {cache[o], None}
  BY DEF Environment, Crash, Settle, CacheExpire, Restock, TypeOK
<1>4. \A g \in Handlers : req'[g] = req[g] \/ req'[g].pc = "idle"
  BY RequestFields DEF Environment, Crash, Settle, CacheExpire, Restock
<1> QED
  BY <1>1, <1>2, <1>3, <1>4 DEF AskedOrders, Asked

\* A new total delivers nothing.
LEMMA AskedRecount ==
    ASSUME TypeOK, AskedOrders, Record, NEW o \in Orders, Recount(o)
    PROVE  AskedOrders'
<1>1. asked \subseteq asked'
  BY DEF Record
<1>2. \A q \in Orders : doc'[q].status = doc[q].status /\ doc[q] # None
  BY NoneIsNoDoc DEF Recount, TypeOK
<1> QED
  BY <1>1, <1>2 DEF Recount, AskedOrders, Asked

LEMMA AskedInit == HInit => AskedOrders
<1>1. Idle.pc = "idle"
  BY RequestFields
<1> QED
  BY <1>1 DEF HInit, Init, NewOrder, AskedOrders, Asked

LEMMA AskedNext == TypeOK /\ AskedOrders /\ [HNext]_hvars => AskedOrders'
<1> SUFFICES ASSUME TypeOK, AskedOrders, [HNext]_hvars
             PROVE  AskedOrders'
  OBVIOUS
<1>1. CASE UNCHANGED hvars
  BY <1>1 DEF hvars, vars, history, AskedOrders, Asked
<1>2. CASE HNext
  <2>1. Record /\ (Serve \/ Crash)
    BY <1>2 DEF HNext
  <2> QED
    BY <2>1, AskedConfirm, AskedCustomerOrIpn, AskedEnvironment, AskedRecount
       DEF Serve
<1> QED
  BY <1>1, <1>2

\* No payment, IPN, checkout or copy from the cache delivers an order an admin
\* never confirmed to SUCCESS: the property DeliveredByAdmin.
THEOREM DeliveredOnRequest == HSpec => []DeliveredByAdmin
<1>1. HInit => TypeOK /\ AskedOrders
  BY TypeInit, AskedInit DEF HInit
<1>2. TypeOK /\ AskedOrders /\ [HNext]_hvars => TypeOK' /\ AskedOrders'
  BY HTypeStep, AskedNext
<1>3. TypeOK /\ AskedOrders => DeliveredByAdmin
  BY NoneIsNoDoc DEF TypeOK, AskedOrders, Asked, DeliveredByAdmin
<1> QED
  BY <1>1, <1>2, <1>3, PTL DEF HSpec

-----------------------------------------------------------------------------
(* The handlers implement OrderBook *)

\* What an admin who was shown seen may have asked for.
Asks(seen, data) ==
    /\ data # None /\ data.total = None
    /\ Confirmable(seen.status, data.status)
    /\ data.status = "SUCCESS" => data.pay = "SUCCESS"

\* The update of a confirm is what was asked for, but for a rollback, which
\* writes a copy of a whole document or nothing, over an order that was placed.
Intent(r) ==
    /\ r.pc \in {"lines", "check"} => Asks(r.seen, r.data)
    /\ r.pc = "fetch" => r.seen.status \notin {"CART", "CANCEL"}
    /\ r.pc = "update" =>
        \/ Asks(r.seen, r.data) /\ ~IsRollback(r.seen.status, r.data.status)
        \/ r.data \in Doc \cup {None} /\ r.seen.status \notin {"CART", "CANCEL"}

Intents == \A h \in Handlers : Intent(req[h])

\* Once the lines are checked: an update of what was asked for, or a rollback.
LEMMA ChecksDone ==
    ASSUME NEW seen \in Doc, NEW data \in Update, Asks(seen, data), NEW o, NEW lines
    PROVE  Intent(Confirming(AfterChecks(seen, data), o, seen, data, lines, {}))
<1> DEFINE pc == AfterChecks(seen, data)
           new == Confirming(pc, o, seen, data, lines, {})
<1>1. new.pc = pc /\ new.seen = seen /\ new.data = data
  BY RequestBuilt DEF Confirming
<1> HIDE DEF new
<1>2. IsRollback(seen.status, data.status) => seen.status \notin {"CART", "CANCEL"}
  BY DEF Doc, Update, OrderStatuses, Asks, Confirmable, IsRollback, StepIndex
<1> QED
  BY <1>1, <1>2 DEF AfterChecks, Intent, new

\* A request that is not a confirm about to write has no intent to keep.
LEMMA NoIntent ==
    /\ Intent(Idle)
    /\ \A pc \in OtherSteps : \A o, arg : Intent(Serving(pc, o, arg))
    /\ \A pc \in OtherSteps : \A o, seen : Intent(Paying(pc, o, seen))
    /\ \A o, lines, todo : Intent(Deducting(o, lines, todo))
    /\ \A o, seen, data, lines : Intent(Confirming("remember", o, seen, data, lines, {}))
<1>1. \A r : r.pc \notin {"lines", "check", "fetch", "update"} => Intent(r)
  BY DEF Intent
<1> QED
  BY <1>1, RequestBuilt, RequestFields
     DEF Serving, Paying, Deducting, Confirming, OtherSteps

LEMMA IntentConfirm ==
    ASSUME TypeOK, Intents, NEW h \in Handlers, Confirm(h)
    PROVE  \E r : Become(h, r) /\ Intent(r)
<1> USE DEF At, Begin, Finish
<1> DEFINE r == req[h]
           o == r.order
<1>0. r.pc \in {"lines", "check", "fetch"} =>
        /\ o \in Orders /\ r.seen \in Doc /\ r.data \in Update
        /\ Intent(r)
  BY RequestFields DEF TypeOK, TypedSlot, Intents
<1>1. ASSUME NEW q \in Orders, NEW to \in Targets, NEW payArg \in PayArgs,
             ConfirmRead(h, q, to, payArg)
      PROVE  \E n : Become(h, n) /\ Intent(n)
  <2> DEFINE data == [status |-> to, pay |-> ConfirmedPayment(doc[q], to, payArg),
                      total |-> None]
             new == Confirming("lines", q, doc[q], data, NoLines, {})
  <2>1. Become(h, new) /\ Confirmable(doc[q].status, to)
    BY <1>1 DEF ConfirmRead
  <2>2. new.pc = "lines" /\ new.seen = doc[q] /\ new.data = data
    BY RequestBuilt DEF Confirming
  <2>3. data \in Update
    BY ConfirmedUpdate DEF TypeOK
  <2>4. Asks(doc[q], data)
    BY <2>1, <2>3, OrderAssumption DEF Asks, ConfirmedPayment
  <2> HIDE DEF new, data
  <2>5. Intent(new)
    BY <2>2, <2>4 DEF Intent
  <2> QED
    BY <2>1, <2>5
<1>2. CASE ReadLines(h)
  <2> DEFINE todo == LinesToCheck(o, r.data.status)
             lines == [d \in Details |-> IF d \in DetailsOf(o) THEN line[d] ELSE None]
             checking == Confirming("check", o, r.seen, r.data, lines, todo)
             done == Confirming(AfterChecks(r.seen, r.data), o, r.seen, r.data, lines, {})
  <2>1. r.pc = "lines" /\ Become(h, IF todo = {} THEN done ELSE checking)
    BY <1>2 DEF ReadLines
  <2>2. Asks(r.seen, r.data)
    BY <1>0, <2>1 DEF Intent
  <2>3. Intent(done)
    BY <1>0, <2>1, <2>2, ChecksDone
  <2>4. Intent(checking)
    BY <2>2, RequestBuilt DEF Confirming, Intent
  <2> HIDE DEF todo, done, checking
  <2> QED
    BY <2>1, <2>3, <2>4
<1>3. ASSUME NEW d \in Details, CheckLine(h, d)
      PROVE  \E n : Become(h, n) /\ Intent(n)
  <2> DEFINE todo == r.todo \ {d}
             checking == Confirming("check", o, r.seen, r.data, r.lines, todo)
             done == Confirming(AfterChecks(r.seen, r.data), o, r.seen, r.data, r.lines, {})
  <2>1. r.pc = "check" /\ Become(h, IF r.todo = {d} THEN done ELSE checking)
    BY <1>3 DEF CheckLine
  <2>2. Asks(r.seen, r.data)
    BY <1>0, <2>1 DEF Intent
  <2>3. Intent(done)
    BY <1>0, <2>1, <2>2, ChecksDone
  <2>4. Intent(checking)
    BY <2>2, RequestBuilt DEF Confirming, Intent
  <2> HIDE DEF done, checking
  <2> QED
    BY <2>1, <2>3, <2>4
<1>4. ASSUME NEW d \in Details, RejectLine(h, d)
      PROVE  \E n : Become(h, n) /\ Intent(n)
  BY <1>4, NoIntent DEF RejectLine
<1>5. CASE FetchPrevious(h)
  <2> DEFINE new == Confirming("update", o, r.seen, cache[o], r.lines, {})
  <2>1. r.pc = "fetch" /\ Become(h, new)
    BY <1>5 DEF FetchPrevious
  <2>2. new.pc = "update" /\ new.seen = r.seen /\ new.data = cache[o]
    BY RequestBuilt DEF Confirming
  <2>3. cache[o] \in Doc \cup {None} /\ r.seen.status \notin {"CART", "CANCEL"}
    BY <1>0, <2>1 DEF TypeOK, Intent
  <2> HIDE DEF new
  <2> QED
    BY <2>1, <2>2, <2>3 DEF Intent
<1>6. CASE UpdateOrder(h)
  BY <1>6, NoIntent DEF UpdateOrder
<1>7. CASE Remember(h)
  BY <1>7, NoIntent DEF Remember
<1>8. ASSUME NEW d \in Details, DeductLine(h, d)
      PROVE  \E n : Become(h, n) /\ Intent(n)
  BY <1>8, NoIntent DEF DeductLine
<1> QED
  BY <1>1, <1>2, <1>3, <1>4, <1>5, <1>6, <1>7, <1>8 DEF Confirm

LEMMA IntentNext == TypeOK /\ Intents /\ [HNext]_hvars => Intents'
<1> SUFFICES ASSUME TypeOK, Intents, [HNext]_hvars PROVE Intents'
  OBVIOUS
<1>1. ASSUME NEW h \in Handlers, Confirm(h) \/ Customer(h) \/ Ipn(h)
      PROVE  Intents'
  <2>1. \E r : Become(h, r) /\ Intent(r)
    <3>1. CASE Customer(h)
      BY <3>1, NoIntent
         DEF Customer, CancelRead, CancelWrite, CheckoutRead, CheckoutWrite,
             CreatePaymentRead, CreatePaymentWrite, Redirect, Begin, Finish, OtherSteps
    <3>2. CASE Ipn(h)
      BY <3>2, NoIntent
         DEF Ipn, IpnRead, IpnAlready, IpnWrite, IpnReply, IpnReplyLost, Begin,
             Finish, OtherSteps
    <3> QED
      BY <1>1, <3>1, <3>2, IntentConfirm
  <2>2. PICK r : Become(h, r) /\ Intent(r)
    BY <2>1
  <2>3. \A g \in Handlers : req'[g] = IF g = h THEN r ELSE req[g]
    BY <2>2 DEF Become, TypeOK
  <2>4. \A g \in Handlers : Intent(req'[g])
    BY <2>2, <2>3 DEF Intents
  <2> QED
    BY <2>4 DEF Intents, Intent
<1>2. CASE Environment \/ Crash \/ \E o \in Orders : Recount(o)
  <2>1. \A g \in Handlers : req'[g] = req[g] \/ req'[g] = Idle
    BY <1>2 DEF Environment, Crash, Settle, CacheExpire, Restock, Recount
  <2>2. \A g \in Handlers : Intent(req'[g])
    BY <2>1, NoIntent DEF Intents
  <2> QED
    BY <2>2 DEF Intents, Intent
<1>3. CASE UNCHANGED hvars
  BY <1>3 DEF hvars, vars, Intents, Intent
<1> QED
  BY <1>1, <1>2, <1>3 DEF HNext, Serve

\* What one request holds of order o, if anything.
Holds(r, o) == IF r.order = o THEN {r.seen, r.data} \cap Doc ELSE {}

LEMMA CopiesHeld ==
    \A o : Copies(o) = ({doc[o], cache[o]} \cap Doc) \cup
                            UNION {Holds(req[h], o) : h \in Handlers}
BY DEF Copies, Holds

\* A request that names no order, or carries no document, holds nothing.
LEMMA HoldsNothing ==
    ASSUME NEW o \in Orders
    PROVE  /\ Holds(Idle, o) = {}
           /\ \A pc, q, arg : Holds(Serving(pc, q, arg), o) = {}
           /\ \A q, lines, todo : Holds(Deducting(q, lines, todo), o) = {}
           /\ \A pc, q, seen : Holds(Paying(pc, q, seen), o)
                                    = IF q = o THEN {seen} \cap Doc ELSE {}
           /\ \A pc, q, seen, data, lines, todo :
                Holds(Confirming(pc, q, seen, data, lines, todo), o)
                    = IF q = o THEN {seen, data} \cap Doc ELSE {}
<1>1. Idle.order \notin Orders
  BY RequestBuilt, OrderAssumption DEF Idle
<1>2. Holds(Idle, o) = {}
  BY <1>1 DEF Holds
<1>3. ASSUME NEW pc, NEW q, NEW arg PROVE Holds(Serving(pc, q, arg), o) = {}
  BY RequestBuilt, NoneIsNoDoc DEF Holds, Serving
<1>4. ASSUME NEW q, NEW lines, NEW todo PROVE Holds(Deducting(q, lines, todo), o) = {}
  BY RequestBuilt, NoneIsNoDoc DEF Holds, Deducting
<1>5. ASSUME NEW pc, NEW q, NEW seen
      PROVE  Holds(Paying(pc, q, seen), o) = IF q = o THEN {seen} \cap Doc ELSE {}
  <2> DEFINE r == Paying(pc, q, seen)
  <2>1. r.order = q /\ r.seen = seen /\ r.data = None
    BY RequestBuilt DEF Paying
  <2> HIDE DEF r
  <2>2. {seen, None} \cap Doc = {seen} \cap Doc
    BY NoneIsNoDoc
  <2> QED
    BY <2>1, <2>2 DEF Holds, r
<1>6. ASSUME NEW pc, NEW q, NEW seen, NEW data, NEW lines, NEW todo
      PROVE  Holds(Confirming(pc, q, seen, data, lines, todo), o)
                = IF q = o THEN {seen, data} \cap Doc ELSE {}
  BY RequestBuilt DEF Holds, Confirming
<1> QED
  BY <1>2, <1>3, <1>4, <1>5, <1>6

\* What is left to show of the copies when a step serves the request of h.
LEMMA CopiesStep ==
    ASSUME TypeOK, NEW h \in Handlers, NEW r, Become(h, r), NEW o \in Orders,
           cache'[o] \in Doc => cache'[o] \in Copies(o) \cup {doc'[o]},
           Holds(r, o) \subseteq Copies(o) \cup {doc'[o]}
    PROVE  Copies(o)' \subseteq Copies(o) \cup {doc'[o]}
<1>1. \A g \in Handlers : req'[g] = IF g = h THEN r ELSE req[g]
  BY DEF Become, TypeOK
<1>2. \A g \in Handlers \ {h} : Holds(req[g], o) \subseteq Copies(o)
  BY CopiesHeld
<1>3. \A g \in Handlers : Holds(req'[g], o) \subseteq Copies(o) \cup {doc'[o]}
  BY <1>1, <1>2
<1>4. Copies(o)' = ({doc'[o], cache'[o]} \cap Doc) \cup
                        UNION {Holds(req'[g], o) : g \in Handlers}
  BY DEF Copies, Holds
<1> QED
  BY <1>3, <1>4

\* Copies are made of documents that are there, or of copies.
LEMMA CopiesNext ==
    ASSUME TypeOK, [HNext]_hvars, NEW o \in Orders
    PROVE  Copies(o)' \subseteq Copies(o) \cup {doc'[o]}
<1> USE DEF At, Begin, Finish
<1>a. \A h \in Handlers : Holds(req[h], o) \subseteq Copies(o)
  BY CopiesHeld
<1>b. doc[o] \in Copies(o) /\ (cache[o] \in Doc => cache[o] \in Copies(o))
  BY DEF Copies, TypeOK
\* A step that serves h and leaves the cache alone.
<1>c. ASSUME NEW h \in Handlers, NEW r, Become(h, r), cache' = cache,
             Holds(r, o) \subseteq Copies(o) \cup {doc'[o]}
      PROVE  Copies(o)' \subseteq Copies(o) \cup {doc'[o]}
  BY <1>b, <1>c, CopiesStep
<1>1. ASSUME NEW h \in Handlers, Confirm(h)
      PROVE  Copies(o)' \subseteq Copies(o) \cup {doc'[o]}
  <2> DEFINE r == req[h]
  <2>0. r.order = o => {r.seen, r.data} \cap Doc \subseteq Copies(o)
    BY <1>a DEF Holds
  <2>1. ASSUME NEW q \in Orders, NEW to \in Targets, NEW payArg \in PayArgs,
               ConfirmRead(h, q, to, payArg)
        PROVE  Copies(o)' \subseteq Copies(o) \cup {doc'[o]}
    <3> DEFINE data == [status |-> to, pay |-> ConfirmedPayment(doc[q], to, payArg),
                        total |-> None]
               new == Confirming("lines", q, doc[q], data, NoLines, {})
    <3>1. Become(h, new) /\ cache' = cache
      BY <2>1 DEF ConfirmRead
    <3>2. data \notin Doc
      BY OrderAssumption DEF Doc
    <3> HIDE DEF data
    <3>3. Holds(new, o) \subseteq Copies(o)
      BY <1>b, <3>2, HoldsNothing
    <3> QED
      BY <1>c, <3>1, <3>3
  <2>2. ASSUME NEW pc, NEW lines, NEW todo, NEW data,
               Become(h, Confirming(pc, r.order, r.seen, data, lines, todo)),
               cache' = cache,
               r.order = o => ({data} \cap Doc \subseteq Copies(o) \cup {doc'[o]})
        PROVE  Copies(o)' \subseteq Copies(o) \cup {doc'[o]}
    BY <1>c, <2>0, <2>2, HoldsNothing
  <2>3. CASE ReadLines(h)
    BY <2>0, <2>2, <2>3 DEF ReadLines
  <2>4. ASSUME NEW d \in Details, CheckLine(h, d)
        PROVE  Copies(o)' \subseteq Copies(o) \cup {doc'[o]}
    BY <2>0, <2>2, <2>4 DEF CheckLine
  <2>5. CASE FetchPrevious(h)
    BY <1>b, <2>2, <2>5 DEF FetchPrevious
  <2>6. CASE UpdateOrder(h)
    <3>1. r.order = o => doc'[o] = Updated(doc[o], r.data)
      BY <2>6 DEF UpdateOrder, TypeOK
    <3> QED
      BY <2>2, <2>6, <3>1 DEF UpdateOrder
  <2>7. CASE Remember(h)
    <3>1. PICK new : Become(h, new) /\ Holds(new, o) = {}
      BY <2>7, HoldsNothing DEF Remember
    <3>2. cache'[o] = IF r.order = o THEN r.seen ELSE cache[o]
      BY <2>7 DEF Remember, TypeOK
    <3> QED
      BY <1>b, <2>0, <3>1, <3>2, CopiesStep
  <2>8. ASSUME NEW d \in Details, RejectLine(h, d) \/ DeductLine(h, d)
        PROVE  Copies(o)' \subseteq Copies(o) \cup {doc'[o]}
    <3>1. PICK new : Become(h, new) /\ Holds(new, o) = {}
      BY <2>8, HoldsNothing DEF RejectLine, DeductLine
    <3> QED
      BY <1>c, <2>8, <3>1 DEF RejectLine, DeductLine
  <2> QED
    BY <1>1, <2>1, <2>3, <2>4, <2>5, <2>6, <2>7, <2>8 DEF Confirm
<1>2. ASSUME NEW h \in Handlers, Customer(h) \/ Ipn(h)
      PROVE  Copies(o)' \subseteq Copies(o) \cup {doc'[o]}
  <2>1. cache' = cache
    BY <1>2 DEF Customer, Ipn, CancelRead, CancelWrite, CheckoutRead, CheckoutWrite,
                CreatePaymentRead, CreatePaymentWrite, Redirect, IpnRead, IpnAlready,
                IpnWrite, IpnReply, IpnReplyLost
  <2>2. ASSUME NEW p \in Orders, CreatePaymentRead(h, p)
        PROVE  Copies(o)' \subseteq Copies(o) \cup {doc'[o]}
    <3>1. Become(h, Paying("pay", p, doc[p]))
      BY <2>2 DEF CreatePaymentRead
    <3>2. Holds(Paying("pay", p, doc[p]), o) \subseteq Copies(o)
      BY <1>b, HoldsNothing
    <3> QED
      BY <1>c, <2>1, <3>1, <3>2
  <2>3. CASE CreatePaymentWrite(h)
    <3>1. Become(h, Paying("redirect", req[h].order, req[h].seen))
      BY <2>3 DEF CreatePaymentWrite
    <3>2. Holds(Paying("redirect", req[h].order, req[h].seen), o)
                \subseteq Holds(req[h], o)
      <4> DEFINE q == req[h].order
                 seen == req[h].seen
      <4>1. Holds(req[h], o) = IF q = o THEN {seen, req[h].data} \cap Doc ELSE {}
        BY DEF Holds
      <4> HIDE DEF q, seen
      <4>2. Holds(Paying("redirect", q, seen), o) = IF q = o THEN {seen} \cap Doc ELSE {}
        BY HoldsNothing
      <4> QED
        BY <4>1, <4>2 DEF q, seen
    <3>3. Holds(Paying("redirect", req[h].order, req[h].seen), o)
                \subseteq Copies(o) \cup {doc'[o]}
      BY <1>a, <3>2
    <3> QED
      BY <1>c, <2>1, <3>1, <3>3
  <2>4. ASSUME ~CreatePaymentWrite(h),
               \A p \in Orders : ~CreatePaymentRead(h, p)
        PROVE  \E r : Become(h, r) /\ Holds(r, o) = {}
    BY <1>2, <2>4, HoldsNothing, OrderAssumption
       DEF Customer, Ipn, CancelRead, CancelWrite, CheckoutRead, CheckoutWrite,
           Redirect, IpnRead, IpnAlready, IpnWrite, IpnReply, IpnReplyLost
  <2>5. ASSUME NEW r, Become(h, r), Holds(r, o) = {}
        PROVE  Copies(o)' \subseteq Copies(o) \cup {doc'[o]}
    BY <1>c, <2>1, <2>5
  <2> QED
    BY <2>2, <2>3, <2>4, <2>5
<1>3. CASE Environment \/ Crash \/ UNCHANGED hvars
  <2>1. doc' = doc /\ cache'[o] \in {cache[o], None}
    BY <1>3 DEF Environment, Crash, Settle, CacheExpire, Restock, hvars, vars, TypeOK
  <2>2. \A g \in Handlers : req'[g] = req[g] \/ req'[g] = Idle
    BY <1>3 DEF Environment, Crash, Settle, CacheExpire, Restock, hvars, vars
  <2>3. \A g \in Handlers : Holds(req'[g], o) \subseteq Copies(o)
    BY <1>a, <2>2, HoldsNothing
  <2>4. Copies(o)' = ({doc'[o], cache'[o]} \cap Doc) \cup
                        UNION {Holds(req'[g], o) : g \in Handlers}
    BY DEF Copies, Holds
  <2> QED
    BY <1>b, <2>1, <2>3, <2>4, NoneIsNoDoc
<1>4. ASSUME NEW q \in Orders, Recount(q)
      PROVE  Copies(o)' \subseteq Copies(o) \cup {doc'[o]}
  <2>1. cache' = cache /\ req' = req
    BY <1>4 DEF Recount
  <2>2. Copies(o)' = ({doc'[o], cache'[o]} \cap Doc) \cup
                        UNION {Holds(req'[g], o) : g \in Handlers}
    BY DEF Copies, Holds
  <2> QED
    BY <1>a, <1>b, <2>1, <2>2
<1> QED
  BY <1>1, <1>2, <1>3, <1>4 DEF HNext, Serve

\* An update that was asked for is a confirmation; a copy that is put back was
\* kept of the order.
LEMMA UpdateIsMove ==
    ASSUME TypeOK, UnracedOrders, Intents, NEW h \in Handlers, UpdateOrder(h),
           req[h].order \notin raced, doc' # doc
    PROVE  Book!Change(req[h].order)
<1> USE DEF At
<1> DEFINE r == req[h]
           o == r.order
           d == doc[o]
           e == Updated(d, r.data)
<1>1. /\ r.pc = "update" /\ o \in Orders /\ d \in Doc
      /\ r.data \in Update \cup {None}
      /\ doc' = [doc EXCEPT ![o] = e] /\ doc'[o] = e
  BY RequestFields DEF UpdateOrder, TypeOK
<1>2. r.seen = d /\ Intent(r)
  BY <1>1 DEF UnracedOrders, Undisturbed, Intents
<1>3. CASE Asks(d, r.data) /\ ~IsRollback(d.status, r.data.status)
  <2>1. /\ e.status = r.data.status /\ e.pay = r.data.pay /\ e.total = d.total
        /\ r.data \in Update
    BY <1>1, <1>3 DEF Updated, Asks
  <2>2. /\ r.data.status # "CANCEL"
        /\ d.status = "CANCEL" \/ Book!Rank[d.status] <= Book!Rank[r.data.status]
    BY <1>1, <1>3, <2>1
       DEF Doc, Update, OrderStatuses, Asks, Confirmable, IsRollback, StepIndex, Book!Rank
  <2>3. Book!Confirm(d, e)
    BY <1>3, <2>1, <2>2 DEF Book!Confirm, Asks
  <2> QED
    BY <1>1, <2>3 DEF Book!Change
<1>4. CASE r.data \in Doc \cup {None} /\ d.status \notin {"CART", "CANCEL"}
  <2>1. r.data \in Doc
    <3>1. CASE r.data = None
      <4>1. e = d
        BY <3>1 DEF Updated
      <4> QED
        BY <1>1, <4>1 DEF TypeOK
    <3> QED
      BY <1>4, <3>1
  <2>2. e = r.data
    <3>1. r.data # None /\ r.data.total # None
      BY <2>1, NoneIsNoDoc, OrderAssumption DEF Doc
    <3>2. e = [status |-> r.data.status, pay |-> r.data.pay, total |-> r.data.total]
      BY <3>1 DEF Updated
    <3> QED
      BY <2>1, <3>2 DEF Doc
  <2>3. r.data \in Copies(o)
    BY <2>1, CopiesHeld DEF Holds
  <2>4. Book!Restore(d, e, Copies(o))
    BY <1>4, <2>2, <2>3 DEF Book!Restore
  <2> QED
    BY <1>1, <2>4 DEF Book!Change
<1> QED
  BY <1>1, <1>2, <1>3, <1>4 DEF Intent

\* So do the customer and VNPay move the order as it was when they read it.
LEMMA CustomerOrIpnIsMove ==
    ASSUME TypeOK, UnracedOrders, NEW h \in Handlers,
           \/ CancelWrite(h) \/ CheckoutWrite(h) \/ CreatePaymentWrite(h) \/ IpnWrite(h),
           req[h].order \notin raced
    PROVE  Book!Change(req[h].order)
<1> USE DEF At
<1> DEFINE r == req[h]
           o == r.order
           d == doc[o]
<1>1. o \in Orders /\ d \in Doc /\ Undisturbed(h)
  BY RequestFields
     DEF CancelWrite, CheckoutWrite, CreatePaymentWrite, IpnWrite, TypeOK, UnracedOrders
<1>2. CASE CancelWrite(h)
  <2>1. doc'[o] = [d EXCEPT !.status = "CANCEL"]
    BY <1>1, <1>2 DEF CancelWrite, TypeOK
  <2> QED
    BY <1>1, <2>1 DEF Book!Change, Book!Cancel
<1>3. CASE CheckoutWrite(h) \/ CreatePaymentWrite(h)
  <2>1. d.status = "CART"
    BY <1>1, <1>3 DEF CheckoutWrite, CreatePaymentWrite, Undisturbed
  <2>2. doc'[o] \in {[d EXCEPT !.status = "PENDING"],
                     [d EXCEPT !.status = "PENDING", !.pay = "SUCCESS"]}
    BY <1>1, <1>3 DEF CheckoutWrite, CreatePaymentWrite, TypeOK
  <2>3. /\ doc'[o].status = "PENDING" /\ doc'[o].pay \in {d.pay, "SUCCESS"}
        /\ doc'[o].total = d.total
    BY <1>1, <2>2 DEF Doc
  <2> QED
    BY <1>1, <2>1, <2>3 DEF Book!Change, Book!Place
<1>4. CASE IpnWrite(h)
  <2>1. d.pay = "PENDING" /\ d.status # "SUCCESS"
    BY <1>1, <1>4, NoneIsNoDoc DEF IpnWrite, Undisturbed, UnracedOrders, Paid
  <2>2. doc'[o] \in {[d EXCEPT !.status = "PENDING", !.pay = "SUCCESS"],
                     [d EXCEPT !.pay = "FAIL"]}
    BY <1>1, <1>4 DEF IpnWrite, TypeOK
  <2> QED
    BY <1>1, <2>1, <2>2 DEF Book!Change, Book!Settle
<1> QED
  BY <1>2, <1>3, <1>4

\* A step of a handler changes the order of its request alone.
LEMMA WrittenByOne ==
    ASSUME TypeOK, NEW h \in Handlers, Confirm(h) \/ Customer(h) \/ Ipn(h), doc' # doc
    PROVE  /\ \/ UpdateOrder(h) \/ CancelWrite(h) \/ CheckoutWrite(h)
              \/ CreatePaymentWrite(h) \/ IpnWrite(h)
           /\ req[h].order \in Orders
           /\ \A p \in Orders \ {req[h].order} : doc'[p] = doc[p]
<1>1. \/ UpdateOrder(h) \/ CancelWrite(h) \/ CheckoutWrite(h)
      \/ CreatePaymentWrite(h) \/ IpnWrite(h)
  BY DEF Confirm, Customer, Ipn, ConfirmRead, ReadLines, CheckLine, RejectLine,
         FetchPrevious, Remember, DeductLine, CancelRead, CheckoutRead,
         CreatePaymentRead, Redirect, IpnRead, IpnAlready, IpnReply, IpnReplyLost
<1>2. req[h].pc # "idle"
  BY <1>1 DEF UpdateOrder, CancelWrite, CheckoutWrite, CreatePaymentWrite, IpnWrite, At
<1>3. req[h].order \in Orders
  BY <1>2, RequestFields DEF TypeOK
<1>4. PICK d : doc' = [doc EXCEPT ![req[h].order] = d]
  BY <1>1 DEF UpdateOrder, CancelWrite, CheckoutWrite, CreatePaymentWrite, IpnWrite
<1>5. \A p \in Orders \ {req[h].order} : doc'[p] = doc[p]
  BY <1>4 DEF TypeOK
<1> QED
  BY <1>1, <1>3, <1>5

\* A step of a handler that changes an order is a move of that order.
LEMMA HandlerMoves ==
    ASSUME TypeOK, UnracedOrders, Intents, NEW h \in Handlers,
           Confirm(h) \/ Customer(h) \/ Ipn(h), doc' # doc
    PROVE  \E o \in Orders : /\ Book!Change(o)
                             /\ \A p \in Orders \ {o} : doc'[p] = doc[p]
<1>1. CASE req[h].order \in raced
  BY <1>1, WrittenByOne DEF Book!Change
<1>2. CASE req[h].order \notin raced
  BY <1>2, WrittenByOne, UpdateIsMove, CustomerOrIpnIsMove
<1> QED
  BY <1>1, <1>2

\* Before any request the book is the new orders.
LEMMA BookInit == HInit => Book!Init
<1> SUFFICES ASSUME HInit PROVE Book!Init
  OBVIOUS
<1>1. NewOrder \in Doc
  BY DEF NewOrder, Doc, OrderStatuses, PaymentStatuses
<1>2. ASSUME NEW o \in Orders PROVE Copies(o) = {NewOrder}
  <2>1. doc[o] = NewOrder /\ cache[o] = None
    BY DEF HInit, Init
  <2>2. \A h \in Handlers : Holds(req[h], o) = {}
    BY HoldsNothing DEF HInit, Init
  <2> QED
    BY <1>1, <2>1, <2>2, CopiesHeld, NoneIsNoDoc
<1> QED
  BY <1>2 DEF Book!Init, HInit, Init, Book!NewOrder, NewOrder

\* The handlers implement moves made at once, for every order no request
\* overtook: the property MovesAtOnce.
THEOREM HandlersMoveAtOnce == HSpec => MovesAtOnce
<1>1. HInit => Book!Init
  BY BookInit
<1> DEFINE Moves == Book!Next \/ \E o \in Orders : Recount(o) /\ Book!Recount(o)
<1>2. TypeOK /\ UnracedOrders /\ Intents /\ [HNext]_hvars => [Moves]_Book!vars
  <2> SUFFICES ASSUME TypeOK, UnracedOrders, Intents, [HNext]_hvars
               PROVE  [Moves]_Book!vars
    OBVIOUS
  <2>1. CASE UNCHANGED hvars
    <3>1. \A o \in Orders : Copies(o)' = Copies(o)
      BY <2>1 DEF hvars, vars, Copies
    <3> QED
      BY <2>1, <3>1 DEF hvars, vars, history, Book!vars
  <2>2. CASE HNext
    <3>1. Book!Copy
      BY <2>2, CopiesNext DEF HNext, Record, Book!Copy
    <3>2. CASE doc' = doc
      BY <3>1, <3>2 DEF Book!Next
    <3>3. CASE doc' # doc
      <4>1. ASSUME NEW h \in Handlers, Confirm(h) \/ Customer(h) \/ Ipn(h)
            PROVE  Moves
        BY <3>1, <3>3, <4>1, HandlerMoves DEF Book!Next
      <4>2. ASSUME NEW o \in Orders, Recount(o)
            PROVE  Moves
        <5>1. doc' = [doc EXCEPT ![o].total = doc'[o].total]
          BY <4>2 DEF Recount, TypeOK
        <5> QED
          BY <3>1, <4>2, <5>1 DEF Book!Recount
      <4> QED
        BY <2>2, <3>3, <4>1, <4>2
           DEF HNext, Serve, Environment, Crash, Settle, CacheExpire, Restock
    <3> QED
      BY <3>2, <3>3
  <2> QED
    BY <2>1, <2>2
<1>3. HInit => TypeOK /\ UnracedOrders /\ Intents
  BY TypeInit, UnracedInit, NoIntent DEF HInit, Init, Intents
<1>4. TypeOK /\ UnracedOrders /\ Intents /\ [HNext]_hvars
        => TypeOK' /\ UnracedOrders' /\ Intents'
  BY HTypeStep, UnracedNext, IntentNext
<1> QED
  BY <1>1, <1>2, <1>3, <1>4, PTL DEF HSpec, MovesAtOnce, Moves
=============================================================================
