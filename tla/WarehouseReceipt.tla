--------------------------- MODULE WarehouseReceipt ---------------------------
(***************************************************************************)
(* Warehouse receipts: warehouse_receipt.controller.ts and                 *)
(* warehouse_receipt.service.ts.  A receipt lists the quantities delivered *)
(* of some products; completing it credits them to the stock.  The service *)
(* uses a transaction helper without handing its session to the writes, so *)
(* every write stands on its own, and the writes of the detail documents   *)
(* are not awaited: a handler slot stays busy until they are done.         *)
(***************************************************************************)
EXTENDS Integers, FiniteSets, Functions

CONSTANTS
    Receipts,   \* identifiers of warehouse receipts
    Products,   \* identifiers of products
    Handlers,   \* slots for requests in progress
    None,       \* no receipt, no value
    Contents,   \* the lists of products a request may carry, as quantities
    MaxStock    \* bound: no completion starts once a stock is above it

ReceiptStatuses == {"PENDING", "SUCCESS", "CANCEL"}

Quantities == [Products -> Nat]
Nothing == [p \in Products |-> 0]
Lines(content) == {p \in Products : content[p] > 0}
Total(content) == SumFunction(content)

\* Of the document: its status and totalQuantity (totalAmount is kept alike).
Receipt == [status : ReceiptStatuses,
            total : {Total(content) : content \in Contents}]

ASSUME ReceiptAssumption ==
    /\ None \notin Receipts \cup ReceiptStatuses \cup Receipt
    /\ Contents \subseteq Quantities
    /\ MaxStock \in Nat
    /\ IsFiniteSet(Receipts) /\ IsFiniteSet(Products) /\ IsFiniteSet(Handlers)

VARIABLES
    receipt,    \* receipt[r]: the receipt document, None before it exists
    details,    \* details[r][p]: sum of the quantities of r's detail documents of p
    stock,      \* stock[p]: Product.quantity
    req         \* req[h]: the request handler h executes

vars == <<receipt, details, stock, req>>

\* content: the lines to write or to credit; todo: those still to do.
Request(pc, r, content, todo, status) ==
    [pc |-> pc, receipt |-> r, content |-> content, todo |-> todo,
     status |-> status]

Idle == Request("idle", None, None, {}, None)

Requests == {Idle} \cup
    [pc : {"delete", "insert", "status", "load", "credit"}, receipt : Receipts,
     content : Quantities \cup {None}, todo : SUBSET Products,
     status : ReceiptStatuses \cup {None}]

\* Types of the state; no quantity is negative, lines are written and credited
\* from a known list, and only receipts that exist are worked on.
TypeOK ==
    /\ receipt \in [Receipts -> Receipt \cup {None}]
    /\ details \in [Receipts -> Quantities]
    /\ stock \in Quantities
    /\ req \in [Handlers -> Requests]
    /\ \A h \in Handlers :
        /\ req[h].pc # "idle" => receipt[req[h].receipt] # None
        /\ req[h].pc \in {"delete", "insert", "credit"}
             => req[h].content \in Quantities
        /\ req[h].pc = "status" => req[h].status \in ReceiptStatuses

Init ==
    /\ receipt = [r \in Receipts |-> None]
    /\ details = [r \in Receipts |-> Nothing]
    /\ stock = Nothing
    /\ req = [h \in Handlers |-> Idle]

Become(h, request) == req' = [req EXCEPT ![h] = request]
Begin(h, request) == req[h] = Idle /\ Become(h, request)
At(h, step) == req[h].pc = step

\* The request once line p of it is done.
Done(r, p) == IF r.todo = {p} THEN Idle ELSE [r EXCEPT !.todo = @ \ {p}]

-----------------------------------------------------------------------------
(* POST warehouse-receipt -- create *)

\* The receipt is stored with its total; the bulkWrite of its details follows
\* and is not awaited.
Create(h, r, content) ==
    /\ receipt[r] = None
    /\ receipt' = [receipt EXCEPT
            ![r] = [status |-> "PENDING", total |-> Total(content)]]
    /\ Begin(h, IF Lines(content) = {} THEN Idle
                ELSE Request("insert", r, content, Lines(content), None))
    /\ UNCHANGED <<details, stock>>

\* One insertOne of the bulkWrite, which is atomic only document by document.
InsertLine(h, p) ==
    LET r == req[h] IN
    /\ At(h, "insert") /\ p \in r.todo
    /\ details' = [details EXCEPT ![r.receipt][p] = @ + r.content[p]]
    /\ Become(h, Done(r, p))
    /\ UNCHANGED <<receipt, stock>>

-----------------------------------------------------------------------------
(* PATCH warehouse-receipt/:id -- update *)

\* Variant: the old details are not deleted.
EditKeepsDetails(h, r, content, status) ==
    /\ receipt[r] # None
    /\ receipt' = [receipt EXCEPT
            ![r] = [status |-> status, total |-> Total(content)]]
    /\ Begin(h, IF Lines(content) = {} THEN Idle
                ELSE Request("insert", r, content, Lines(content), None))
    /\ UNCHANGED <<details, stock>>

\* The receipt is overwritten whatever its status, with the status the body
\* names; no pipe gives the body its DTO's default, and one that names no status
\* leaves the stored one, which is among the choices here.  A body without
\* products ends here and leaves the details as they are.
Edit(h, r, content, status) ==
    /\ receipt[r] # None
    /\ receipt' = [receipt EXCEPT
            ![r] = [status |-> status, total |-> Total(content)]]
    /\ Begin(h, IF Lines(content) = {} THEN Idle
                ELSE Request("delete", r, content, Lines(content), None))
    /\ UNCHANGED <<details, stock>>

\* deleteMany of the details; the bulkWrite of the new ones follows.
DeleteDetails(h) ==
    LET r == req[h] IN
    /\ At(h, "delete")
    /\ details' = [details EXCEPT ![r.receipt] = Nothing]
    /\ Become(h, [r EXCEPT !.pc = "insert"])
    /\ UNCHANGED <<receipt, stock>>

-----------------------------------------------------------------------------
(* PATCH warehouse-receipt/:id/status -- updateStatus *)

\* Variant: the status guard is missing.
StatusReadAny(h, r, status) ==
    /\ receipt[r] # None
    /\ \A p \in Products : stock[p] <= MaxStock
    /\ Begin(h, Request("status", r, None, {}, status))
    /\ UNCHANGED <<receipt, details, stock>>

\* Variant: nothing is checked.
StatusReadUnchecked(h, r, status) ==
    /\ Begin(h, Request("status", r, None, {}, status))
    /\ UNCHANGED <<receipt, details, stock>>

\* findOneById: only a pending receipt passes the guard.
StatusRead(h, r, status) ==
    /\ receipt[r] # None /\ receipt[r].status = "PENDING"
    /\ \A p \in Products : stock[p] <= MaxStock
    /\ Begin(h, Request("status", r, None, {}, status))
    /\ UNCHANGED <<receipt, details, stock>>

\* findByIdAndUpdate by id alone; only SUCCESS goes on to the stock.
StatusWrite(h) ==
    LET r == req[h] IN
    /\ At(h, "status")
    /\ receipt' = [receipt EXCEPT ![r.receipt].status = r.status]
    /\ Become(h, IF r.status = "SUCCESS"
                 THEN Request("load", r.receipt, None, {}, None) ELSE Idle)
    /\ UNCHANGED <<details, stock>>

\* The details are read, and one bulkWrite adds them to the stock.
LoadDetails(h) ==
    LET r == req[h].receipt IN
    /\ At(h, "load")
    /\ Become(h, IF Lines(details[r]) = {} THEN Idle
                 ELSE Request("credit", r, details[r], Lines(details[r]), None))
    /\ UNCHANGED <<receipt, details, stock>>

\* Variant: one product of the receipt is credited, the others are not.
CreditFirstLine(h, p) ==
    LET r == req[h] IN
    /\ At(h, "credit") /\ p \in r.todo
    /\ stock' = [stock EXCEPT ![p] = @ + r.content[p]]
    /\ Become(h, Idle)
    /\ UNCHANGED <<receipt, details>>

\* The $inc of one product.
CreditLine(h, p) ==
    LET r == req[h] IN
    /\ At(h, "credit") /\ p \in r.todo
    /\ stock' = [stock EXCEPT ![p] = @ + r.content[p]]
    /\ Become(h, Done(r, p))
    /\ UNCHANGED <<receipt, details>>

\* The process stops and docker restarts it; MongoDB keeps its data.
Crash ==
    /\ \E h \in Handlers : req[h] # Idle
    /\ req' = [h \in Handlers |-> Idle]
    /\ UNCHANGED <<receipt, details, stock>>

-----------------------------------------------------------------------------

Write(h) ==
    \/ \E r \in Receipts, content \in Contents : Create(h, r, content)
    \/ \E r \in Receipts, content \in Contents, status \in ReceiptStatuses :
            Edit(h, r, content, status)
    \/ DeleteDetails(h)
    \/ \E p \in Products : InsertLine(h, p)

Complete(h) ==
    \/ \E r \in Receipts, status \in ReceiptStatuses : StatusRead(h, r, status)
    \/ StatusWrite(h)
    \/ LoadDetails(h)
    \/ \E p \in Products : CreditLine(h, p)

Serve == \E h \in Handlers : Write(h) \/ Complete(h)

Next == Serve \/ Crash

Spec == Init /\ [][Next]_vars
=============================================================================
