---------------------------- MODULE ReceiptHistory ----------------------------
(***************************************************************************)
(* WarehouseReceipt with history variables, each a function of the steps   *)
(* taken, and the properties that relate receipts, their details and the   *)
(* stock.                                                                  *)
(***************************************************************************)
EXTENDS WarehouseReceipt

VARIABLES
    completions,    \* completions[r]: status writes that set r to SUCCESS, 2: more
    credits,    \* credits[r]: times details of r went on to the stock, 2: more
    raced,      \* receipts whose status changed under another status request
    edited,     \* receipts edited to or from a status other than PENDING
    mixed,      \* receipts whose details two requests wrote at the same time
    late,       \* receipts whose details changed after a completion read them
    cut         \* receipts a crash interrupted a request on

history == <<completions, credits, raced, edited, mixed, late, cut>>
hvars == <<vars, history>>

WritesDetails(request, r) ==
    request.receipt = r /\ request.pc \in {"delete", "insert"}

Completing(r) == \E h \in Handlers :
    At(h, "status") /\ req'[h].pc = "load" /\ req[h].receipt = r

\* A completion finds details to credit.
Crediting(r) == \E h \in Handlers :
    At(h, "load") /\ req'[h].pc = "credit" /\ req[h].receipt = r

UpToTwo(count, happens) == IF happens /\ count < 2 THEN count + 1 ELSE count

Overtaken(r) ==
    /\ receipt'[r] # receipt[r]
    /\ \E h \in Handlers :
        At(h, "status") /\ req[h].receipt = r /\ req'[h] = req[h]

\* An edit changes the document: the step is not a status write.
EditedOpenly(r) ==
    /\ receipt[r] # None /\ receipt'[r] # receipt[r]
    /\ {receipt[r].status, receipt'[r].status} # {"PENDING"}
    /\ \A h \in Handlers : At(h, "status") => req'[h] = req[h]

Mixing(r) == \E h, g \in Handlers :
    h # g /\ WritesDetails(req'[h], r) /\ WritesDetails(req'[g], r)

HInit ==
    /\ Init
    /\ completions = [r \in Receipts |-> 0] /\ credits = [r \in Receipts |-> 0]
    /\ raced = {} /\ edited = {} /\ mixed = {} /\ late = {} /\ cut = {}

Record ==
    /\ completions' = [r \in Receipts |-> UpToTwo(completions[r], Completing(r))]
    /\ credits' = [r \in Receipts |-> UpToTwo(credits[r], Crediting(r))]
    /\ raced' = raced \cup {r \in Receipts : Overtaken(r)}
    /\ edited' = edited \cup {r \in Receipts : EditedOpenly(r)}
    /\ mixed' = mixed \cup {r \in Receipts : Mixing(r)}
    /\ late' = late \cup
            {r \in Receipts : completions[r] > 0 /\ details'[r] # details[r]}

HNext ==
    \/ Serve /\ Record /\ UNCHANGED cut
    \/ /\ Crash /\ Record
       /\ cut' = cut \cup {r \in Receipts :
                    \E h \in Handlers : req[h].receipt = r}

HSpec == HInit /\ [][HNext]_hvars

-----------------------------------------------------------------------------
(* Safety *)

\* A receipt is credited to the stock at most once (the PENDING guard of
\* WarehouseReceiptController.updateStatus), unless a status request acted on
\* a stale reading or an edit reopened the receipt.
CreditedOnce ==
    \A r \in Receipts \ (raced \cup edited) : credits[r] <= 1

\* What the guard of WarehouseReceiptController.updateStatus is there for: a
\* receipt that was closed cannot be completed, and its details credited, again.
\* It fails because the body of PATCH warehouse-receipt/:id may set the status
\* back to PENDING.
NeverCreditedTwice == \A r \in Receipts : credits[r] <= 1

\* What productQuantityByProductId computes: the quantity of p on the details
\* of the completed receipts.
Delivered(r, p) == IF receipt[r] # None /\ receipt[r].status = "SUCCESS"
                   THEN details[r][p] ELSE 0
Received(p) == SumFunction([r \in Receipts |-> Delivered(r, p)])

\* When nothing is in progress, the stock credited is what the completed
\* receipts list, unless one of them met a stale status, was edited when or
\* to closed, got details late or was interrupted.
AuditAgrees ==
    (/\ \A h \in Handlers : req[h] = Idle
     /\ raced \cup edited \cup late \cup cut = {})
        => \A p \in Products : stock[p] = Received(p)

\* The total on a receipt is the sum of its details once its writes are done,
\* unless two requests wrote the details together, a crash cut one off, or an
\* edit without products zeroed the total.
TotalsAreSums ==
    \A r \in Receipts \ (mixed \cup cut) :
        (/\ receipt[r] # None /\ receipt[r].total # 0
         /\ \A h \in Handlers : ~WritesDetails(req[h], r))
            => receipt[r].total = Total(details[r])

\* Inductive form of CreditedOnce, as far as the status goes: while a receipt
\* was neither raced nor edited, a pending receipt was never completed, and a
\* request that found it pending still does.
OpenUntilCredited ==
    \A r \in Receipts \ (raced \cup edited) :
        /\ completions[r] <= 1
        /\ receipt[r] = None => completions[r] = 0
        /\ (receipt[r] # None /\ receipt[r].status = "PENDING") => completions[r] = 0
        /\ \A h \in Handlers :
            (At(h, "status") /\ req[h].receipt = r)
                => receipt[r] # None /\ receipt[r].status = "PENDING"
=============================================================================
