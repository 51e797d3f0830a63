---------------------------- MODULE ReceiptProofs ----------------------------
(* Theorems about WarehouseReceipt and ReceiptHistory, for any receipts,    *)
(* products, handlers and contents.                                         *)
EXTENDS ReceiptHistory, SumLemmas, TLAPS

-----------------------------------------------------------------------------
(* Type correctness *)

\* What Request builds, and that it is a request if its parts are well typed.
LEMMA RequestBuilt ==
    ASSUME NEW pc, NEW r, NEW content, NEW todo, NEW status
    PROVE  LET q == Request(pc, r, content, todo, status) IN
           /\ q.pc = pc /\ q.receipt = r /\ q.content = content
           /\ q.todo = todo /\ q.status = status
           /\ (/\ pc \in {"delete", "insert", "status", "load", "credit"}
               /\ r \in Receipts
               /\ content \in Quantities \cup {None}
               /\ todo \in SUBSET Products
               /\ status \in ReceiptStatuses \cup {None})
              => q \in Requests
BY DEF Request, Requests

\* The fields of the idle request and of one in progress.
LEMMA RequestFields ==
    /\ Idle \in Requests /\ Idle.pc = "idle" /\ Idle.receipt = None
    /\ \A q \in Requests : q.pc # "idle" =>
        /\ q.pc \in {"delete", "insert", "status", "load", "credit"}
        /\ q.receipt \in Receipts
        /\ q.content \in Quantities \cup {None}
        /\ q.todo \in SUBSET Products
        /\ q.status \in ReceiptStatuses \cup {None}
<1>1. Idle \in Requests
  BY DEF Requests
<1>2. Idle.pc = "idle" /\ Idle.receipt = None
  BY RequestBuilt DEF Idle
<1> QED
  BY <1>1, <1>2 DEF Requests

\* The lines of the contents are products, and the contents are quantities.
LEMMA ContentFacts ==
    /\ Nothing \in Quantities
    /\ Contents \subseteq Quantities
    /\ \A content : Lines(content) \in SUBSET Products
BY ReceiptAssumption DEF Nothing, Quantities, Lines

\* A stored document is not the absence of one.
LEMMA TypeNotNone == \A d \in Receipt : d # None
BY ReceiptAssumption

\* The invariant a slot keeps when it is given a well-typed request.
LEMMA TypeBecome ==
    ASSUME TypeOK, NEW h \in Handlers, NEW q \in Requests, Become(h, q),
           receipt' \in [Receipts -> Receipt \cup {None}],
           \A r \in Receipts : receipt[r] # None => receipt'[r] # None,
           details' \in [Receipts -> Quantities], stock' \in Quantities,
           q.pc # "idle" => receipt'[q.receipt] # None,
           q.pc \in {"delete", "insert", "credit"} => q.content \in Quantities,
           q.pc = "status" => q.status \in ReceiptStatuses
    PROVE  TypeOK'
<1>1. \A g \in Handlers : req'[g] = IF g = h THEN q ELSE req[g]
  BY DEF TypeOK, Become
<1>2. req' \in [Handlers -> Requests]
  BY DEF TypeOK, Become
<1>3. ASSUME NEW g \in Handlers
      PROVE  /\ req'[g].pc # "idle" => receipt'[req'[g].receipt] # None
             /\ req'[g].pc \in {"delete", "insert", "credit"}
                  => req'[g].content \in Quantities
             /\ req'[g].pc = "status" => req'[g].status \in ReceiptStatuses
  <2>1. CASE g = h
    BY <1>1, <2>1
  <2>2. CASE g # h
    BY <1>1, <2>2, RequestFields DEF TypeOK
  <2> QED
    BY <2>1, <2>2
<1> QED
  BY <1>2, <1>3 DEF TypeOK

\* What is left of a request in progress when one of its lines is done.
LEMMA DoneTyped ==
    ASSUME NEW q \in Requests, q.pc # "idle", NEW p
    PROVE  /\ Done(q, p) \in Requests
           /\ Done(q, p) = Idle \/ (/\ Done(q, p).pc = q.pc
                                    /\ Done(q, p).receipt = q.receipt
                                    /\ Done(q, p).content = q.content
                                    /\ Done(q, p).status = q.status)
BY RequestFields DEF Done, Requests

\* Storing a receipt and going on to its details keeps the declared types.
LEMMA TypeStore ==
    ASSUME TypeOK, NEW h \in Handlers, NEW r \in Receipts,
           NEW content \in Contents, NEW pc \in {"insert", "delete"},
           NEW status \in ReceiptStatuses,
           receipt' = [receipt EXCEPT
                ![r] = [status |-> status, total |-> Total(content)]],
           Become(h, IF Lines(content) = {} THEN Idle
                     ELSE Request(pc, r, content, Lines(content), None)),
           UNCHANGED <<details, stock>>
    PROVE  TypeOK'
<1> DEFINE stored == [status |-> status, total |-> Total(content)]
           new == IF Lines(content) = {} THEN Idle
                  ELSE Request(pc, r, content, Lines(content), None)
<1>1. stored \in Receipt /\ stored # None
  BY ReceiptAssumption DEF Receipt
<1>2. new = Idle \/ (/\ new.pc = pc /\ new.receipt = r
                     /\ new.content = content)
  BY RequestBuilt
<1>3. new \in Requests
  BY RequestBuilt, RequestFields, ContentFacts
<1>4. /\ receipt' \in [Receipts -> Receipt \cup {None}]
      /\ receipt'[r] # None
      /\ \A s \in Receipts : receipt[s] # None => receipt'[s] # None
  BY <1>1 DEF TypeOK
<1>5. details' \in [Receipts -> Quantities] /\ stock' \in Quantities
  BY DEF TypeOK
<1> HIDE DEF new
<1>6. /\ new.pc # "idle" => receipt'[new.receipt] # None
      /\ new.pc \in {"delete", "insert", "credit"} => new.content \in Quantities
      /\ new.pc # "status"
  BY <1>2, <1>4, RequestFields, ContentFacts
<1> QED
  BY <1>3, <1>4, <1>5, <1>6, TypeBecome DEF new

\* The steps of a create or an edit keep the declared types.
LEMMA TypeWrite ==
    ASSUME TypeOK, NEW h \in Handlers, Write(h)
    PROVE  TypeOK'
<1> USE DEF At, Begin
<1> DEFINE q == req[h]
<1>1. ASSUME NEW r \in Receipts, NEW content \in Contents, Create(h, r, content)
      PROVE  TypeOK'
  BY <1>1, TypeStore DEF Create, ReceiptStatuses
<1>2. ASSUME NEW r \in Receipts, NEW content \in Contents,
             NEW status \in ReceiptStatuses, Edit(h, r, content, status)
      PROVE  TypeOK'
  BY <1>2, TypeStore DEF Edit
<1>3. CASE DeleteDetails(h)
  <2> DEFINE new == [q EXCEPT !.pc = "insert"]
  <2>1. /\ q \in Requests /\ q.pc = "delete" /\ Become(h, new)
        /\ details' = [details EXCEPT ![q.receipt] = Nothing]
        /\ UNCHANGED <<receipt, stock>>
    BY <1>3 DEF DeleteDetails, TypeOK
  <2>2. /\ new \in Requests /\ new.pc = "insert" /\ new.receipt = q.receipt
        /\ new.content = q.content
    BY <2>1, RequestFields DEF Requests
  <2>3. q.content \in Quantities /\ receipt[q.receipt] # None
    BY <2>1 DEF TypeOK
  <2>4. details' \in [Receipts -> Quantities]
    BY <2>1, ContentFacts DEF TypeOK
  <2> HIDE DEF new
  <2> QED
    BY <2>1, <2>2, <2>3, <2>4, TypeBecome DEF TypeOK
<1>4. ASSUME NEW p \in Products, InsertLine(h, p) PROVE TypeOK'
  <2> DEFINE new == Done(q, p)
  <2>1. /\ q \in Requests /\ q.pc = "insert" /\ Become(h, new)
        /\ details' = [details EXCEPT ![q.receipt][p] = @ + q.content[p]]
        /\ UNCHANGED <<receipt, stock>>
    BY <1>4 DEF InsertLine, TypeOK
  <2>2. q.content \in Quantities /\ receipt[q.receipt] # None /\ q.receipt \in Receipts
    BY <2>1, RequestFields DEF TypeOK
  <2>3. /\ new \in Requests
        /\ new = Idle \/ (/\ new.pc = "insert" /\ new.receipt = q.receipt
                          /\ new.content = q.content)
    BY <2>1, DoneTyped
  <2>4. details[q.receipt][p] + q.content[p] \in Nat
    BY <2>2 DEF TypeOK, Quantities
  <2>5. details' \in [Receipts -> Quantities]
    BY <2>1, <2>4 DEF TypeOK, Quantities
  <2> HIDE DEF new
  <2> QED
    BY <2>1, <2>2, <2>3, <2>5, TypeBecome, RequestFields DEF TypeOK
<1> QED
  BY <1>1, <1>2, <1>3, <1>4 DEF Write

\* The steps of a completion keep the declared types.
LEMMA TypeComplete ==
    ASSUME TypeOK, NEW h \in Handlers, Complete(h)
    PROVE  TypeOK'
<1> USE DEF At, Begin
<1> DEFINE q == req[h]
<1>1. ASSUME NEW r \in Receipts, NEW status \in ReceiptStatuses,
             StatusRead(h, r, status)
      PROVE  TypeOK'
  <2> DEFINE new == Request("status", r, None, {}, status)
  <2>1. Become(h, new) /\ receipt[r] # None /\ UNCHANGED <<receipt, details, stock>>
    BY <1>1 DEF StatusRead
  <2>2. /\ new \in Requests /\ new.pc = "status" /\ new.receipt = r
        /\ new.status = status
    BY RequestBuilt
  <2> HIDE DEF new
  <2> QED
    BY <2>1, <2>2, TypeBecome DEF TypeOK
<1>2. CASE StatusWrite(h)
  <2> DEFINE new == IF q.status = "SUCCESS"
                    THEN Request("load", q.receipt, None, {}, None) ELSE Idle
  <2>1. /\ q \in Requests /\ q.pc = "status" /\ Become(h, new)
        /\ receipt' = [receipt EXCEPT ![q.receipt].status = q.status]
        /\ UNCHANGED <<details, stock>>
    BY <1>2 DEF StatusWrite, TypeOK
  <2>2. /\ q.receipt \in Receipts /\ q.status \in ReceiptStatuses
        /\ receipt[q.receipt] \in Receipt
    BY <2>1, RequestFields DEF TypeOK
  <2>3. new \in Requests /\ (new = Idle \/ (new.pc = "load" /\ new.receipt = q.receipt))
    BY <2>2, RequestBuilt, RequestFields
  <2>4. [receipt[q.receipt] EXCEPT !.status = q.status] \in Receipt
    BY <2>2 DEF Receipt
  <2>5. /\ receipt' \in [Receipts -> Receipt \cup {None}]
        /\ receipt'[q.receipt] # None
        /\ \A s \in Receipts : receipt[s] # None => receipt'[s] # None
    BY <2>1, <2>2, <2>4, ReceiptAssumption DEF TypeOK
  <2> HIDE DEF new
  <2> QED
    BY <2>1, <2>3, <2>5, TypeBecome, RequestFields DEF TypeOK
<1>3. CASE LoadDetails(h)
  <2> DEFINE r == q.receipt
             new == IF Lines(details[r]) = {} THEN Idle
                    ELSE Request("credit", r, details[r], Lines(details[r]), None)
  <2>1. /\ q \in Requests /\ q.pc = "load" /\ Become(h, new)
        /\ UNCHANGED <<receipt, details, stock>>
    BY <1>3 DEF LoadDetails, TypeOK
  <2>2. r \in Receipts /\ receipt[r] # None /\ details[r] \in Quantities
    BY <2>1, RequestFields DEF TypeOK
  <2>3. /\ new \in Requests
        /\ new = Idle \/ (/\ new.pc = "credit" /\ new.receipt = r
                          /\ new.content = details[r])
    BY <2>2, RequestBuilt, RequestFields, ContentFacts
  <2> HIDE DEF new
  <2> QED
    BY <2>1, <2>2, <2>3, TypeBecome, RequestFields DEF TypeOK
<1>4. ASSUME NEW p \in Products, CreditLine(h, p) PROVE TypeOK'
  <2> DEFINE new == Done(q, p)
  <2>1. /\ q \in Requests /\ q.pc = "credit" /\ Become(h, new)
        /\ stock' = [stock EXCEPT ![p] = @ + q.content[p]]
        /\ UNCHANGED <<receipt, details>>
    BY <1>4 DEF CreditLine, TypeOK
  <2>2. q.content \in Quantities /\ receipt[q.receipt] # None
    BY <2>1 DEF TypeOK
  <2>3. /\ new \in Requests
        /\ new = Idle \/ (/\ new.pc = "credit" /\ new.receipt = q.receipt
                          /\ new.content = q.content)
    BY <2>1, DoneTyped
  <2>4. stock' \in Quantities
    BY <2>1, <2>2 DEF TypeOK, Quantities
  <2> HIDE DEF new
  <2> QED
    BY <2>1, <2>2, <2>3, <2>4, TypeBecome, RequestFields DEF TypeOK
<1> QED
  BY <1>1, <1>2, <1>3, <1>4 DEF Complete

\* The initial state has the declared types.
LEMMA TypeInit == Init => TypeOK
BY ReceiptAssumption, RequestFields, ContentFacts
   DEF Init, TypeOK

\* Every step keeps the declared types.
LEMMA TypeStep == TypeOK /\ [Next]_vars => TypeOK'
<1> SUFFICES ASSUME TypeOK, [Next]_vars PROVE TypeOK'
  OBVIOUS
<1>1. CASE Serve
  BY <1>1, TypeWrite, TypeComplete DEF Serve
<1>2. CASE Crash
  BY <1>2, RequestFields DEF Crash, TypeOK
<1>3. CASE UNCHANGED vars
  BY <1>3 DEF vars, TypeOK
<1> QED
  BY <1>1, <1>2, <1>3 DEF Next

\* The state of the receipt component always has the declared types
\* (warehouse_receipt.service.ts, every handler of the controller).
THEOREM TypeCorrect == Spec => []TypeOK
BY TypeInit, TypeStep, PTL DEF Spec

-----------------------------------------------------------------------------
(* A receipt is credited once *)

\* A step that no completion takes and that leaves a receipt's document alone
\* keeps what is claimed of it.
LEMMA CompletionsKept ==
    ASSUME Record, NEW r \in Receipts, ~Completing(r)
    PROVE  completions'[r] = completions[r]
BY DEF Record, UpToTwo

\* Only a request that was at "status" completes a receipt.
LEMMA NotCompleting ==
    ASSUME TypeOK, NEW h \in Handlers, NEW q, Become(h, q), ~At(h, "status")
    PROVE  \A r : ~Completing(r)
BY DEF TypeOK, Become, Completing, At

\* A step that changes no document and starts no status request keeps the
\* invariant.
LEMMA OpenKept ==
    ASSUME TypeOK, OpenUntilCredited, Record, NEW h \in Handlers, NEW q,
           Become(h, q), ~At(h, "status"), UNCHANGED receipt,
           q.pc = "status" => /\ q.receipt \in Receipts
                              /\ receipt[q.receipt] # None
                              /\ receipt[q.receipt].status = "PENDING"
    PROVE  OpenUntilCredited'
<1>1. \A r \in Receipts : completions'[r] = completions[r]
  BY NotCompleting, CompletionsKept
<1>2. raced \subseteq raced' /\ edited \subseteq edited'
  BY DEF Record
<1>3. \A g \in Handlers : req'[g] = IF g = h THEN q ELSE req[g]
  BY DEF TypeOK, Become
<1> QED
  BY <1>1, <1>2, <1>3 DEF OpenUntilCredited, At

\* Storing a document keeps the invariant if nobody holds a reading of the
\* receipt and it was not credited, or the step counts as an open edit.
LEMMA OpenStore ==
    ASSUME TypeOK, OpenUntilCredited, Record, NEW h \in Handlers, req[h] = Idle,
           NEW r \in Receipts, NEW content \in Contents,
           NEW status \in ReceiptStatuses, NEW q, Become(h, q), q.pc # "status",
           receipt' = [receipt EXCEPT
                ![r] = [status |-> status, total |-> Total(content)]],
           receipt[r] # None \/ status = "PENDING"
    PROVE  OpenUntilCredited'
<1>1. ~At(h, "status")
  BY RequestFields DEF At
<1>2. \A s \in Receipts : completions'[s] = completions[s]
  BY <1>1, NotCompleting, CompletionsKept
<1>3. raced \subseteq raced' /\ edited \subseteq edited'
  BY DEF Record
<1>4. \A g \in Handlers : req'[g] = IF g = h THEN q ELSE req[g]
  BY DEF TypeOK, Become
<1>5. \A s \in Receipts \ {r} : receipt'[s] = receipt[s]
  BY DEF TypeOK
<1>6. receipt'[r] = [status |-> status, total |-> Total(content)]
  BY DEF TypeOK
<1>7. CASE receipt'[r] = receipt[r]
  <2>1. receipt' = receipt
    BY <1>5, <1>7 DEF TypeOK
  <2> QED
    BY <1>1, <2>1, OpenKept
<1>8. CASE receipt'[r] # receipt[r] /\ receipt[r] = None
  <2>1. r \notin raced' \cup edited' =>
            /\ completions'[r] = 0
            /\ \A g \in Handlers : At(g, "status") => req[g].receipt # r
    BY <1>2, <1>3, <1>8 DEF OpenUntilCredited
  <2> QED
    BY <1>2, <1>3, <1>4, <1>5, <2>1 DEF OpenUntilCredited, At
<1>9. CASE receipt'[r] # receipt[r] /\ receipt[r] # None
  <2>1. \A g \in Handlers : At(g, "status") => req'[g] = req[g]
    BY <1>1, <1>4
  <2>2. r \notin edited' => {receipt[r].status, receipt'[r].status} = {"PENDING"}
    BY <1>9, <2>1 DEF Record, EditedOpenly
  <2>3. r \notin raced' \cup edited' =>
            /\ completions'[r] = 0
            /\ receipt'[r] # None /\ receipt'[r].status = "PENDING"
    <3> SUFFICES ASSUME r \notin raced' \cup edited'
                 PROVE  /\ completions'[r] = 0
                        /\ receipt'[r] # None /\ receipt'[r].status = "PENDING"
      OBVIOUS
    <3>1. receipt[r].status = "PENDING" /\ receipt'[r].status = "PENDING"
      BY <2>2
    <3>2. completions[r] = 0
      BY <1>3, <1>9, <3>1 DEF OpenUntilCredited
    <3>3. receipt'[r] # None
      BY <1>6, TypeNotNone DEF Receipt
    <3> QED
      BY <1>2, <3>1, <3>2, <3>3
  <2> QED
    BY <1>2, <1>3, <1>4, <1>5, <2>3 DEF OpenUntilCredited, At
<1> QED
  BY <1>7, <1>8, <1>9

\* A status write counts its receipt if it completes it; whoever else holds a
\* reading of the receipt is overtaken if the document changed.
LEMMA OpenStatusWrite ==
    ASSUME TypeOK, OpenUntilCredited, Record, NEW h \in Handlers, StatusWrite(h)
    PROVE  OpenUntilCredited'
<1> DEFINE q == req[h]
           r == q.receipt
           new == IF q.status = "SUCCESS"
                  THEN Request("load", r, None, {}, None) ELSE Idle
<1>1. /\ q \in Requests /\ q.pc = "status" /\ Become(h, new)
      /\ receipt' = [receipt EXCEPT ![r].status = q.status]
  BY DEF StatusWrite, TypeOK, At
<1>2. /\ r \in Receipts /\ q.status \in ReceiptStatuses
      /\ receipt[r] \in Receipt /\ receipt[r] # None
  BY <1>1, RequestFields DEF TypeOK
<1>3. /\ new.pc # "status"
      /\ new.pc = "load" => q.status = "SUCCESS"
  BY RequestBuilt, RequestFields
<1> HIDE DEF new
<1>4. \A g \in Handlers : req'[g] = IF g = h THEN new ELSE req[g]
  BY <1>1 DEF TypeOK, Become
<1>5. \A s \in Receipts \ {r} : receipt'[s] = receipt[s] /\ ~Completing(s)
  BY <1>1, <1>4 DEF TypeOK, Completing, At
<1>6. receipt'[r] \in Receipt /\ receipt'[r].status = q.status
  BY <1>1, <1>2 DEF TypeOK, Receipt
<1>7. raced \subseteq raced' /\ edited \subseteq edited'
  BY DEF Record
<1>8. ASSUME r \notin raced' \cup edited'
      PROVE  /\ completions'[r] <= 1
             /\ receipt'[r] # None
             /\ receipt'[r].status = "PENDING" => completions'[r] = 0
             /\ \A g \in Handlers \ {h} : (At(g, "status") /\ req[g].receipt = r)
                    => receipt'[r].status = "PENDING"
  <2>1. receipt[r].status = "PENDING" /\ completions[r] = 0
    BY <1>1, <1>2, <1>7, <1>8 DEF OpenUntilCredited, At
  <2>2. completions'[r] = IF Completing(r) THEN 1 ELSE 0
    BY <1>2, <2>1 DEF Record, UpToTwo
  <2>3. Completing(r) => q.status = "SUCCESS"
    BY <1>3, <1>4 DEF Completing, At
  <2>4. receipt'[r] # None
    BY <1>6, TypeNotNone
  <2>5. ASSUME NEW g \in Handlers \ {h}, At(g, "status"), req[g].receipt = r
        PROVE  receipt'[r].status = "PENDING"
    <3>1. receipt'[r] = receipt[r]
      BY <1>2, <1>4, <1>8, <2>5 DEF Record, Overtaken
    <3> QED
      BY <2>1, <3>1
  <2> QED
    BY <1>6, <2>2, <2>3, <2>4, <2>5
<1>9. \A s \in Receipts \ {r} : completions'[s] = completions[s]
  BY <1>5, CompletionsKept
<1> QED
  BY <1>3, <1>4, <1>5, <1>7, <1>8, <1>9 DEF OpenUntilCredited, At

\* The invariant is inductive.
LEMMA OpenStep ==
    TypeOK /\ TypeOK' /\ OpenUntilCredited /\ [HNext]_hvars => OpenUntilCredited'
<1> SUFFICES ASSUME TypeOK, TypeOK', OpenUntilCredited, [HNext]_hvars
             PROVE  OpenUntilCredited'
  OBVIOUS
<1>1. ASSUME NEW h \in Handlers, Write(h), Record PROVE OpenUntilCredited'
  <2>1. ASSUME NEW r \in Receipts, NEW content \in Contents, Create(h, r, content)
        PROVE  OpenUntilCredited'
    <3> DEFINE new == IF Lines(content) = {} THEN Idle
                      ELSE Request("insert", r, content, Lines(content), None)
    <3>1. new.pc # "status"
      BY RequestBuilt, RequestFields
    <3>2. /\ Become(h, new) /\ req[h] = Idle
          /\ receipt' = [receipt EXCEPT
                ![r] = [status |-> "PENDING", total |-> Total(content)]]
      BY <2>1 DEF Create, Begin
    <3> HIDE DEF new
    <3> QED
      BY <1>1, <3>1, <3>2, OpenStore DEF ReceiptStatuses
  <2>2. ASSUME NEW r \in Receipts, NEW content \in Contents,
               NEW status \in ReceiptStatuses, Edit(h, r, content, status)
        PROVE  OpenUntilCredited'
    <3> DEFINE new == IF Lines(content) = {} THEN Idle
                      ELSE Request("delete", r, content, Lines(content), None)
    <3>1. new.pc # "status"
      BY RequestBuilt, RequestFields
    <3>2. /\ Become(h, new) /\ req[h] = Idle /\ receipt[r] # None
          /\ receipt' = [receipt EXCEPT
                ![r] = [status |-> status, total |-> Total(content)]]
      BY <2>2 DEF Edit, Begin
    <3> HIDE DEF new
    <3> QED
      BY <1>1, <3>1, <3>2, OpenStore
  <2>3. CASE DeleteDetails(h)
    <3>1. [req[h] EXCEPT !.pc = "insert"].pc # "status"
      BY <2>3, RequestFields DEF DeleteDetails, TypeOK, Requests, At
    <3> QED
      BY <1>1, <2>3, <3>1, OpenKept DEF DeleteDetails, At
  <2>4. ASSUME NEW p \in Products, InsertLine(h, p) PROVE OpenUntilCredited'
    <3>1. Done(req[h], p).pc # "status"
      BY <2>4, DoneTyped, RequestFields DEF InsertLine, TypeOK, At
    <3> QED
      BY <1>1, <2>4, <3>1, OpenKept DEF InsertLine, At
  <2> QED
    BY <1>1, <2>1, <2>2, <2>3, <2>4 DEF Write
<1>2. ASSUME NEW h \in Handlers, Complete(h), Record PROVE OpenUntilCredited'
  <2>1. ASSUME NEW r \in Receipts, NEW status \in ReceiptStatuses,
               StatusRead(h, r, status)
        PROVE  OpenUntilCredited'
    <3>1. LET new == Request("status", r, None, {}, status) IN new.receipt = r
      BY RequestBuilt
    <3> QED
      BY <1>2, <2>1, <3>1, OpenKept, RequestFields DEF StatusRead, Begin, At
  <2>2. CASE StatusWrite(h)
    BY <1>2, <2>2, OpenStatusWrite
  <2>3. CASE LoadDetails(h)
    <3> DEFINE r == req[h].receipt
               new == IF Lines(details[r]) = {} THEN Idle
                      ELSE Request("credit", r, details[r], Lines(details[r]), None)
    <3>1. new.pc # "status"
      BY RequestBuilt, RequestFields
    <3>2. Become(h, new) /\ ~At(h, "status") /\ receipt' = receipt
      BY <2>3 DEF LoadDetails, At
    <3> HIDE DEF new
    <3> QED
      BY <1>2, <3>1, <3>2, OpenKept
  <2>4. ASSUME NEW p \in Products, CreditLine(h, p) PROVE OpenUntilCredited'
    <3>1. Done(req[h], p).pc # "status"
      BY <2>4, DoneTyped, RequestFields DEF CreditLine, TypeOK, At
    <3> QED
      BY <1>2, <2>4, <3>1, OpenKept DEF CreditLine, At
  <2> QED
    BY <1>2, <2>1, <2>2, <2>3, <2>4 DEF Complete
<1>3. CASE Crash /\ Record
  <2>1. \A r \in Receipts : completions'[r] = completions[r]
    BY <1>3, RequestFields, CompletionsKept DEF Crash, Completing
  <2>2. raced \subseteq raced' /\ edited \subseteq edited'
    BY <1>3 DEF Record
  <2> QED
    BY <1>3, <2>1, <2>2, RequestFields DEF Crash, OpenUntilCredited, At
<1>4. CASE UNCHANGED hvars
  BY <1>4 DEF hvars, history, vars, OpenUntilCredited, At
<1> QED
  BY <1>1, <1>2, <1>3, <1>4 DEF HNext, Serve

\* A request that completed r and has not read its details.
Loading(h, r) == At(h, "load") /\ req[h].receipt = r

\* Inductive, beside OpenUntilCredited: every completion credits once at most,
\* and one that has still to read the details has credited nothing.
CreditsCounted ==
    /\ completions \in [Receipts -> Nat] /\ credits \in [Receipts -> Nat]
    /\ \A r \in Receipts \ (raced \cup edited) :
        /\ credits[r] <= completions[r]
        /\ \A h \in Handlers : Loading(h, r) => completions[r] >= 1 /\ credits[r] = 0
        /\ \A h, g \in Handlers : Loading(h, r) /\ Loading(g, r) => h = g

LEMMA CountsTyped ==
    ASSUME Record, completions \in [Receipts -> Nat], credits \in [Receipts -> Nat]
    PROVE  /\ completions' \in [Receipts -> Nat] /\ credits' \in [Receipts -> Nat]
           /\ \A r \in Receipts : completions'[r] >= completions[r]
           /\ raced \subseteq raced' /\ edited \subseteq edited'
<1>1. ASSUME NEW n \in Nat, NEW b \in BOOLEAN
      PROVE  UpToTwo(n, b) \in Nat /\ UpToTwo(n, b) >= n
  BY <1>1 DEF UpToTwo
<1>2. \A r \in Receipts : Completing(r) \in BOOLEAN /\ Crediting(r) \in BOOLEAN
  BY DEF Completing, Crediting
<1>3. \A r \in Receipts : /\ UpToTwo(completions[r], Completing(r)) \in Nat
                          /\ UpToTwo(completions[r], Completing(r)) >= completions[r]
                          /\ UpToTwo(credits[r], Crediting(r)) \in Nat
  BY <1>1, <1>2
<1> QED
  BY <1>3 DEF Record

\* A step after which nobody new has details to read, and in which nobody reads
\* them, keeps the counts apart.
LEMMA CountsKept ==
    ASSUME CreditsCounted, Record,
           \A r \in Receipts : ~Crediting(r),
           \A r \in Receipts, h \in Handlers : Loading(h, r)' => Loading(h, r)
    PROVE  CreditsCounted'
<1>1. \A r \in Receipts : credits'[r] = credits[r]
  BY DEF Record, UpToTwo
<1>2. /\ completions' \in [Receipts -> Nat] /\ credits' \in [Receipts -> Nat]
      /\ \A r \in Receipts : completions'[r] >= completions[r]
      /\ raced \subseteq raced' /\ edited \subseteq edited'
  BY CountsTyped DEF CreditsCounted
<1> HIDE DEF Loading
<1>3. ASSUME NEW r \in Receipts \ (raced \cup edited)'
      PROVE  /\ credits'[r] <= completions'[r]
             /\ \A h \in Handlers :
                    Loading(h, r)' => completions'[r] >= 1 /\ credits'[r] = 0
             /\ \A h, g \in Handlers : Loading(h, r)' /\ Loading(g, r)' => h = g
  <2>1. /\ r \in Receipts \ (raced \cup edited)
        /\ completions[r] \in Nat /\ completions'[r] \in Nat /\ credits[r] \in Nat
    BY <1>2 DEF CreditsCounted
  <2> QED
    BY <1>1, <1>2, <2>1 DEF CreditsCounted
<1> QED
  BY <1>2, <1>3 DEF CreditsCounted

\* A completion: nobody else has details of that receipt to read.
LEMMA CountsCompletion ==
    ASSUME TypeOK, OpenUntilCredited, CreditsCounted, Record,
           NEW h \in Handlers, StatusWrite(h)
    PROVE  CreditsCounted'
<1> DEFINE r == req[h].receipt
           new == req'[h]
<1>1. /\ At(h, "status") /\ r \in Receipts
      /\ new.pc = "load" => new.receipt = r
      /\ \A g \in Handlers \ {h} : req'[g] = req[g]
      /\ new.pc # "load" => new = Idle
  <2>1. /\ At(h, "status")
        /\ Become(h, IF req[h].status = "SUCCESS"
                     THEN Request("load", r, None, {}, None) ELSE Idle)
    BY DEF StatusWrite
  <2>2. /\ Request("load", r, None, {}, None).receipt = r
        /\ Request("load", r, None, {}, None).pc = "load"
    BY RequestBuilt
  <2>3. r \in Receipts
    BY <2>1, RequestFields DEF TypeOK, At
  <2> QED
    BY <2>1, <2>2, <2>3, RequestFields DEF TypeOK, Become
<1>2. \A s \in Receipts : ~Crediting(s)
  BY <1>1 DEF Crediting, At
<1>3. \A s \in Receipts : credits'[s] = credits[s]
  BY <1>2 DEF Record, UpToTwo
<1>4. /\ completions' \in [Receipts -> Nat] /\ credits' \in [Receipts -> Nat]
      /\ \A s \in Receipts : completions'[s] >= completions[s]
      /\ raced \subseteq raced' /\ edited \subseteq edited'
  BY CountsTyped DEF CreditsCounted
<1>5. CASE new.pc # "load"
  <2>1. \A s \in Receipts, g \in Handlers : Loading(g, s)' => Loading(g, s)
    BY <1>1, <1>5 DEF Loading, At
  <2> QED
    BY <1>2, <2>1, CountsKept
<1>6. CASE new.pc = "load"
  <2>1. \A g \in Handlers \ {h}, s \in Receipts : Loading(g, s)' <=> Loading(g, s)
    BY <1>1 DEF Loading, At
  <2>2. \A s \in Receipts : Loading(h, s)' => s = r
    BY <1>1, <1>6 DEF Loading, At
  <2>3. r \notin (raced \cup edited)' =>
            /\ completions[r] = 0 /\ credits[r] = 0 /\ completions'[r] = 1
            /\ \A g \in Handlers : ~Loading(g, r)
    <3> SUFFICES ASSUME r \notin (raced \cup edited)'
                 PROVE  /\ completions[r] = 0 /\ credits[r] = 0 /\ completions'[r] = 1
                        /\ \A g \in Handlers : ~Loading(g, r)
      OBVIOUS
    <3>1. completions[r] = 0
      BY <1>1, <1>4 DEF OpenUntilCredited
    <3>2. Completing(r)
      BY <1>1, <1>6 DEF Completing
    <3>3. completions'[r] = 1
      BY <1>1, <3>1, <3>2 DEF Record, UpToTwo
    <3>4. /\ r \in Receipts \ (raced \cup edited)
          /\ completions[r] \in Nat /\ credits[r] \in Nat
      BY <1>1, <1>4 DEF CreditsCounted
    <3> HIDE DEF r, Loading
    <3>5. credits[r] <= completions[r] /\ \A g \in Handlers : ~Loading(g, r)
      BY <3>1, <3>4 DEF CreditsCounted
    <3> QED
      BY <3>1, <3>3, <3>4, <3>5
  <2> HIDE DEF r, new, Loading
  <2>4. ASSUME NEW s \in Receipts \ (raced \cup edited)'
        PROVE  /\ credits'[s] <= completions'[s]
               /\ \A g \in Handlers :
                      Loading(g, s)' => completions'[s] >= 1 /\ credits'[s] = 0
               /\ \A f, g \in Handlers : Loading(f, s)' /\ Loading(g, s)' => f = g
    <3>1. /\ s \in Receipts \ (raced \cup edited)
          /\ completions[s] \in Nat /\ completions'[s] \in Nat /\ credits[s] \in Nat
      BY <1>4 DEF CreditsCounted
    <3>2. CASE s = r
      BY <1>3, <2>1, <2>3, <3>1, <3>2
    <3>3. CASE s # r
      BY <1>3, <1>4, <2>1, <2>2, <3>1, <3>3 DEF CreditsCounted
    <3> QED
      BY <3>2, <3>3
  <2> QED
    BY <1>4, <2>4 DEF CreditsCounted
<1> QED
  BY <1>5, <1>6

\* The details are read: the one completion that had to has credited.
LEMMA CountsCredit ==
    ASSUME TypeOK, CreditsCounted, Record, NEW h \in Handlers, LoadDetails(h)
    PROVE  CreditsCounted'
<1> DEFINE r == req[h].receipt
<1>1. /\ Loading(h, r) /\ r \in Receipts
      /\ req'[h].pc # "load"
      /\ \A g \in Handlers \ {h} : req'[g] = req[g]
  <2>1. /\ At(h, "load")
        /\ Become(h, IF Lines(details[r]) = {} THEN Idle
                     ELSE Request("credit", r, details[r], Lines(details[r]), None))
    BY DEF LoadDetails
  <2>2. Request("credit", r, details[r], Lines(details[r]), None).pc = "credit"
    BY RequestBuilt
  <2>3. r \in Receipts
    BY <2>1, RequestFields DEF TypeOK, At
  <2> QED
    BY <2>1, <2>2, <2>3, RequestFields DEF TypeOK, Become, Loading, At
<1>2. \A s \in Receipts : Crediting(s) => s = r
  BY <1>1 DEF Crediting, At
<1>3. /\ \A s \in Receipts \ {r} : credits'[s] = credits[s]
      /\ credits'[r] \in {credits[r], credits[r] + 1}
  BY <1>1, <1>2 DEF Record, UpToTwo
<1>4. /\ completions' \in [Receipts -> Nat] /\ credits' \in [Receipts -> Nat]
      /\ \A s \in Receipts : completions'[s] >= completions[s]
      /\ raced \subseteq raced' /\ edited \subseteq edited'
  BY CountsTyped DEF CreditsCounted
<1>5. /\ \A g \in Handlers, s \in Receipts : Loading(g, s)' => g # h /\ Loading(g, s)
  BY <1>1 DEF Loading, At
<1> HIDE DEF r, Loading
<1>6. ASSUME NEW s \in Receipts \ (raced \cup edited)'
      PROVE  /\ credits'[s] <= completions'[s]
             /\ \A g \in Handlers :
                    Loading(g, s)' => completions'[s] >= 1 /\ credits'[s] = 0
             /\ \A f, g \in Handlers : Loading(f, s)' /\ Loading(g, s)' => f = g
  <2>1. /\ s \in Receipts \ (raced \cup edited)
        /\ completions[s] \in Nat /\ completions'[s] \in Nat /\ credits[s] \in Nat
    BY <1>4 DEF CreditsCounted
  <2>2. CASE s = r
    <3>1. completions[r] >= 1 /\ credits[r] = 0
          /\ \A g \in Handlers : Loading(g, r) => g = h
      BY <1>1, <2>1, <2>2 DEF CreditsCounted
    <3> QED
      BY <1>3, <1>4, <1>5, <2>1, <2>2, <3>1
  <2>3. CASE s # r
    BY <1>3, <1>4, <1>5, <2>1, <2>3 DEF CreditsCounted
  <2> QED
    BY <2>2, <2>3
<1> QED
  BY <1>4, <1>6 DEF CreditsCounted

\* The invariant is inductive beside OpenUntilCredited.
LEMMA CountsStep ==
    TypeOK /\ OpenUntilCredited /\ CreditsCounted /\ [HNext]_hvars => CreditsCounted'
<1> SUFFICES ASSUME TypeOK, OpenUntilCredited, CreditsCounted, [HNext]_hvars
             PROVE  CreditsCounted'
  OBVIOUS
<1>1. ASSUME Record, NEW h \in Handlers, NEW q, Become(h, q), ~At(h, "load"),
             q.pc # "load"
      PROVE  CreditsCounted'
  <2>1. \A g \in Handlers : req'[g] = IF g = h THEN q ELSE req[g]
    BY <1>1 DEF TypeOK, Become
  <2>2. /\ \A r \in Receipts : ~Crediting(r)
        /\ \A r \in Receipts, g \in Handlers : Loading(g, r)' => Loading(g, r)
    BY <1>1, <2>1 DEF Crediting, Loading, At
  <2> QED
    BY <1>1, <2>2, CountsKept
<1>2. ASSUME NEW h \in Handlers, Write(h), Record PROVE CreditsCounted'
  <2>1. \E q : Become(h, q) /\ ~At(h, "load") /\ q.pc # "load"
    <3>1. ASSUME NEW pc \in {"insert", "delete"}, NEW r, NEW content, NEW todo
          PROVE  (IF todo = {} THEN Idle
                  ELSE Request(pc, r, content, todo, None)).pc # "load"
      BY <3>1, RequestBuilt, RequestFields
    <3>2. ASSUME NEW r \in Receipts, NEW content \in Contents, Create(h, r, content)
          PROVE  \E q : Become(h, q) /\ ~At(h, "load") /\ q.pc # "load"
      BY <3>1, <3>2, RequestFields DEF Create, Begin, At
    <3>3. ASSUME NEW r \in Receipts, NEW content \in Contents,
                 NEW status \in ReceiptStatuses, Edit(h, r, content, status)
          PROVE  \E q : Become(h, q) /\ ~At(h, "load") /\ q.pc # "load"
      BY <3>1, <3>3, RequestFields DEF Edit, Begin, At
    <3>4. CASE DeleteDetails(h)
      <4>1. [req[h] EXCEPT !.pc = "insert"].pc # "load"
        BY <3>4, RequestFields DEF DeleteDetails, TypeOK, Requests, At
      <4> QED
        BY <3>4, <4>1 DEF DeleteDetails, At
    <3>5. ASSUME NEW p \in Products, InsertLine(h, p)
          PROVE  \E q : Become(h, q) /\ ~At(h, "load") /\ q.pc # "load"
      <4>1. Done(req[h], p).pc # "load"
        BY <3>5, DoneTyped, RequestFields DEF InsertLine, TypeOK, At
      <4> QED
        BY <3>5, <4>1 DEF InsertLine, At
    <3> QED
      BY <1>2, <3>2, <3>3, <3>4, <3>5 DEF Write
  <2> QED
    BY <1>1, <1>2, <2>1
<1>3. ASSUME NEW h \in Handlers, Complete(h), Record PROVE CreditsCounted'
  <2>1. ASSUME NEW r \in Receipts, NEW status \in ReceiptStatuses,
               StatusRead(h, r, status)
        PROVE  CreditsCounted'
    <3>1. Request("status", r, None, {}, status).pc = "status"
      BY RequestBuilt
    <3> QED
      BY <1>1, <1>3, <2>1, <3>1, RequestFields DEF StatusRead, Begin, At
  <2>2. ASSUME NEW p \in Products, CreditLine(h, p) PROVE CreditsCounted'
    <3>1. Done(req[h], p).pc # "load"
      BY <2>2, DoneTyped, RequestFields DEF CreditLine, TypeOK, At
    <3> QED
      BY <1>1, <1>3, <2>2, <3>1 DEF CreditLine, At
  <2> QED
    BY <1>3, <2>1, <2>2, CountsCompletion, CountsCredit DEF Complete
<1>4. CASE Crash /\ Record
  <2>1. /\ \A r \in Receipts : ~Crediting(r)
        /\ \A r \in Receipts, g \in Handlers : Loading(g, r)' => Loading(g, r)
    BY <1>4, RequestFields DEF Crash, Crediting, Loading, At
  <2> QED
    BY <1>4, <2>1, CountsKept
<1>5. CASE UNCHANGED hvars
  BY <1>5 DEF hvars, history, vars, CreditsCounted, Loading, At
<1> QED
  BY <1>2, <1>3, <1>4, <1>5 DEF HNext, Serve

\* A receipt is credited to the stock at most once, unless a status request
\* acted on a stale reading or an edit reopened the receipt (updateStatus).
THEOREM ReceiptCreditedOnce == HSpec => []CreditedOnce
<1>1. HInit => TypeOK /\ OpenUntilCredited /\ CreditsCounted
  BY TypeInit, RequestFields
     DEF HInit, Init, OpenUntilCredited, CreditsCounted, Loading, At
<1>2. [HNext]_hvars => [Next]_vars
  BY DEF HNext, hvars, Next
<1>3. TypeOK /\ OpenUntilCredited /\ CreditsCounted /\ [HNext]_hvars
        => TypeOK' /\ OpenUntilCredited' /\ CreditsCounted'
  BY <1>2, TypeStep, OpenStep, CountsStep
<1>4. OpenUntilCredited /\ CreditsCounted => CreditedOnce
  BY DEF OpenUntilCredited, CreditsCounted, CreditedOnce
<1> QED
  BY <1>1, <1>3, <1>4, PTL DEF HSpec

-----------------------------------------------------------------------------
(* The total of a receipt is that of its details *)

\* What is known of a receipt whose details are written by one request at a
\* time: the total is that of the list that is written, of which the details
\* hold what is done, or it was zeroed by an edit without products.
WritesOf(r) ==
    /\ receipt[r] = None => details[r] = Nothing
    /\ \A h, g \in Handlers :
        WritesDetails(req[h], r) /\ WritesDetails(req[g], r) => h = g
    /\ (receipt[r] # None /\ \A h \in Handlers : ~WritesDetails(req[h], r))
        => receipt[r].total \in {0, Total(details[r])}
    /\ \A h \in Handlers : WritesDetails(req[h], r) =>
        /\ receipt[r].total \in {0, Total(req[h].content)}
        /\ At(h, "delete") => req[h].todo = Lines(req[h].content)
        /\ At(h, "insert") =>
            \A p \in Products : details[r][p] =
                IF p \in req[h].todo THEN 0 ELSE req[h].content[p]

\* Inductive form of TotalsAreSums.
WritesAccounted == \A r \in Receipts \ (mixed \cup cut) : WritesOf(r)

\* A list of nothing comes to nothing.
LEMMA TotalOfNothing ==
    ASSUME NEW content \in Quantities, Lines(content) = {}
    PROVE  Total(content) = 0
<1>1. DOMAIN content = Products /\ \A p \in Products : content[p] = 0
  BY DEF Quantities, Lines
<1> QED
  BY <1>1, SumZero, ReceiptAssumption DEF Total, SumFunction

\* Two requests that write the details of one receipt are seen by Record.
LEMMA OneWriter ==
    ASSUME Record, NEW r \in Receipts \ mixed', NEW h \in Handlers,
           NEW g \in Handlers, WritesDetails(req'[h], r), WritesDetails(req'[g], r)
    PROVE  h = g
BY DEF Record, Mixing

\* A step that leaves the total and the details of a receipt alone, of a
\* request that neither wrote them nor is about to, keeps what is known of it.
LEMMA WritesElsewhere ==
    ASSUME TypeOK, NEW r \in Receipts, WritesOf(r),
           NEW h \in Handlers, NEW q, Become(h, q),
           ~WritesDetails(req[h], r), ~WritesDetails(q, r),
           (receipt'[r] = None) <=> (receipt[r] = None),
           receipt[r] # None => receipt'[r].total = receipt[r].total,
           details'[r] = details[r]
    PROVE  WritesOf(r)'
<1>1. \A g \in Handlers : req'[g] = IF g = h THEN q ELSE req[g]
  BY DEF TypeOK, Become
<1>2. ASSUME NEW g \in Handlers
      PROVE  /\ WritesDetails(req'[g], r) <=> WritesDetails(req[g], r)
             /\ WritesDetails(req'[g], r) => req'[g] = req[g] /\ receipt[r] # None
  <2>1. WritesDetails(req[g], r) => receipt[r] # None
    BY RequestFields DEF TypeOK, WritesDetails
  <2> QED
    BY <1>1, <2>1
<1> QED
  BY <1>1, <1>2 DEF WritesOf, At

\* A request that is alone in writing the details of a receipt accounts for them.
LEMMA WritesAlone ==
    ASSUME NEW r, NEW h \in Handlers, receipt'[r] # None,
           WritesDetails(req'[h], r), req'[h].pc = "insert",
           \A g \in Handlers : WritesDetails(req'[g], r) => g = h,
           receipt'[r].total \in {0, Total(req'[h].content)},
           \A p \in Products : details'[r][p] =
                IF p \in req'[h].todo THEN 0 ELSE req'[h].content[p]
    PROVE  WritesOf(r)'
BY DEF WritesOf, At

\* A new receipt has no details yet and nobody who writes them.
LEMMA WritesOfCreate ==
    ASSUME TypeOK, NEW h \in Handlers, NEW r \in Receipts, WritesOf(r),
           NEW content \in Contents, Create(h, r, content)
    PROVE  WritesOf(r)'
<1> DEFINE new == IF Lines(content) = {} THEN Idle
                  ELSE Request("insert", r, content, Lines(content), None)
<1>1. /\ receipt[r] = None /\ req[h] = Idle /\ Become(h, new) /\ details' = details
      /\ receipt' = [receipt EXCEPT
            ![r] = [status |-> "PENDING", total |-> Total(content)]]
  BY DEF Create, Begin
<1>2. receipt'[r].total = Total(content) /\ details[r] = Nothing
  BY <1>1 DEF TypeOK, WritesOf
<1>3. receipt'[r] # None
  <2>1. [status |-> "PENDING", total |-> Total(content)] \in Receipt
    BY DEF Receipt, ReceiptStatuses
  <2> QED
    BY <1>1, <2>1, TypeNotNone DEF TypeOK
<1>4. \A g \in Handlers : req'[g] = IF g = h THEN new ELSE req[g]
  BY <1>1 DEF TypeOK, Become
<1>5. \A g \in Handlers : ~WritesDetails(req[g], r)
  BY <1>1, RequestFields DEF TypeOK, WritesDetails
<1>6. CASE Lines(content) = {}
  <2>1. Total(content) = 0
    BY <1>6, TotalOfNothing, ReceiptAssumption
  <2>2. \A g \in Handlers : ~WritesDetails(req'[g], r)
    BY <1>4, <1>5, <1>6, RequestFields DEF WritesDetails
  <2> QED
    BY <1>2, <1>3, <2>1, <2>2 DEF WritesOf
<1>7. CASE Lines(content) # {}
  <2>1. /\ new.pc = "insert" /\ new.content = content
        /\ new.todo = Lines(content)
    BY <1>7, RequestBuilt
  <2>2. \A p \in Products : details'[r][p] =
                IF p \in Lines(content) THEN 0 ELSE content[p]
    <3>1. \A p \in Products : details'[r][p] = 0
      BY <1>1, <1>2 DEF Nothing
    <3>2. \A p \in Products \ Lines(content) : content[p] = 0
      BY ReceiptAssumption DEF Lines, Quantities
    <3> QED
      BY <3>1, <3>2
  <2>3. /\ req'[h] = new /\ new.receipt = r
        /\ \A g \in Handlers : WritesDetails(req'[g], r) => g = h
    BY <1>4, <1>5, <1>7, RequestBuilt
  <2> HIDE DEF new
  <2> QED
    BY <1>2, <1>3, <2>1, <2>2, <2>3, WritesAlone DEF WritesDetails
<1> QED
  BY <1>6, <1>7

\* An edit sets the total to that of the list it goes on to write, alone.
LEMMA WritesOfEdit ==
    ASSUME TypeOK, NEW h \in Handlers, NEW r \in Receipts, WritesOf(r),
           NEW content \in Contents, NEW status \in ReceiptStatuses,
           Edit(h, r, content, status), Record, r \notin mixed'
    PROVE  WritesOf(r)'
<1> DEFINE new == IF Lines(content) = {} THEN Idle
                  ELSE Request("delete", r, content, Lines(content), None)
<1>1. /\ receipt[r] # None /\ req[h] = Idle /\ Become(h, new) /\ details' = details
      /\ receipt' = [receipt EXCEPT
            ![r] = [status |-> status, total |-> Total(content)]]
  BY DEF Edit, Begin
<1>2. receipt'[r].total = Total(content)
  BY <1>1 DEF TypeOK
<1>3. receipt'[r] # None
  <2>1. [status |-> status, total |-> Total(content)] \in Receipt
    BY DEF Receipt
  <2> QED
    BY <1>1, <2>1, TypeNotNone DEF TypeOK
<1>4. \A g \in Handlers : req'[g] = IF g = h THEN new ELSE req[g]
  BY <1>1 DEF TypeOK, Become
<1>5. \A g, k \in Handlers :
            WritesDetails(req'[g], r) /\ WritesDetails(req'[k], r) => g = k
  BY OneWriter
<1>6. CASE Lines(content) = {}
  <2>1. Total(content) = 0
    BY <1>6, TotalOfNothing, ReceiptAssumption
  <2>2. \A g \in Handlers : WritesDetails(req'[g], r) => req'[g] = req[g]
    BY <1>4, <1>6, RequestFields DEF WritesDetails
  <2>3. receipt'[r].total = 0
    BY <1>2, <2>1
  <2> QED
    BY <1>1, <1>3, <1>5, <2>2, <2>3 DEF WritesOf, At
<1>7. CASE Lines(content) # {}
  <2>1. /\ new.pc = "delete" /\ new.content = content /\ new.receipt = r
        /\ new.todo = Lines(content)
    BY <1>7, RequestBuilt
  <2>2. \A g \in Handlers : WritesDetails(req'[g], r) => g = h
    BY <1>4, <1>5, <2>1 DEF WritesDetails
  <2>3. WritesDetails(req'[h], r) /\ req'[h] = new
    BY <1>4, <2>1 DEF WritesDetails
  <2> HIDE DEF new
  <2> QED
    BY <1>2, <1>3, <1>5, <2>1, <2>2, <2>3 DEF WritesOf, At
<1> QED
  BY <1>6, <1>7

\* Once the old details are deleted, all the lines are still to be written.
LEMMA WritesOfDelete ==
    ASSUME TypeOK, NEW h \in Handlers, NEW r \in Receipts, req[h].receipt = r,
           WritesOf(r), DeleteDetails(h)
    PROVE  WritesOf(r)'
<1> DEFINE q == req[h]
           new == [q EXCEPT !.pc = "insert"]
<1>1. /\ q \in Requests /\ q.pc = "delete" /\ Become(h, new)
      /\ details' = [details EXCEPT ![r] = Nothing] /\ receipt' = receipt
  BY DEF DeleteDetails, TypeOK, At
<1>2. receipt[r] # None /\ q.content \in Quantities /\ q.todo \in SUBSET Products
  BY <1>1, RequestFields DEF TypeOK
<1>3. /\ new.pc = "insert" /\ new.receipt = r /\ new.content = q.content
      /\ new.todo = q.todo
  BY <1>1, RequestFields DEF Requests
<1>4. WritesDetails(q, r)
  BY <1>1 DEF WritesDetails
<1>5. /\ \A g \in Handlers : WritesDetails(req[g], r) => g = h
      /\ receipt[r].total \in {0, Total(q.content)}
      /\ q.todo = Lines(q.content)
  BY <1>1, <1>4 DEF WritesOf, At
<1>6. \A p \in Products : details'[r][p] = IF p \in q.todo THEN 0 ELSE q.content[p]
  <2>1. \A p \in Products : details'[r][p] = 0
    BY <1>1, <1>2 DEF TypeOK, Nothing
  <2>2. \A p \in Products \ Lines(q.content) : q.content[p] = 0
    BY <1>2 DEF Lines, Quantities
  <2> QED
    BY <1>5, <2>1, <2>2
<1> HIDE DEF new
<1>7. \A g \in Handlers : req'[g] = IF g = h THEN new ELSE req[g]
  BY <1>1 DEF TypeOK, Become
<1>8. \A g \in Handlers : WritesDetails(req'[g], r) => g = h
  BY <1>5, <1>7
<1> QED
  BY <1>1, <1>2, <1>3, <1>5, <1>6, <1>7, <1>8, WritesAlone DEF WritesDetails

\* A line more of the list is on the details; after the last they are the list.
LEMMA WritesOfInsert ==
    ASSUME TypeOK, NEW h \in Handlers, NEW r \in Receipts, req[h].receipt = r,
           WritesOf(r), NEW p \in Products, InsertLine(h, p)
    PROVE  WritesOf(r)'
<1> DEFINE q == req[h]
           new == Done(q, p)
<1>1. /\ q \in Requests /\ q.pc = "insert" /\ Become(h, new) /\ p \in q.todo
      /\ details' = [details EXCEPT ![r][p] = @ + q.content[p]]
      /\ receipt' = receipt
  BY DEF InsertLine, TypeOK, At
<1>2. /\ receipt[r] # None /\ q.content \in Quantities
      /\ q.todo \in SUBSET Products /\ details[r] \in Quantities
  BY <1>1, RequestFields DEF TypeOK
<1>3. WritesDetails(q, r)
  BY <1>1 DEF WritesDetails
<1>4. /\ \A g \in Handlers : WritesDetails(req[g], r) => g = h
      /\ receipt[r].total \in {0, Total(q.content)}
      /\ \A s \in Products : details[r][s] = IF s \in q.todo THEN 0 ELSE q.content[s]
  BY <1>1, <1>3 DEF WritesOf, At
<1>5. \A s \in Products :
        details'[r][s] = IF s \in q.todo \ {p} THEN 0 ELSE q.content[s]
  <2>1. details'[r] = [details[r] EXCEPT ![p] = @ + q.content[p]]
    BY <1>1 DEF TypeOK
  <2>2. details'[r][p] = q.content[p]
    BY <1>1, <1>2, <1>4, <2>1 DEF Quantities
  <2>3. \A s \in Products \ {p} : details'[r][s] = details[r][s]
    BY <1>2, <2>1 DEF Quantities
  <2> QED
    BY <1>4, <2>2, <2>3
<1>6. \A g \in Handlers : req'[g] = IF g = h THEN new ELSE req[g]
  BY <1>1 DEF TypeOK, Become
<1>7. CASE q.todo = {p}
  <2>1. details'[r] = q.content
    <3>1. details'[r] \in Quantities
      <4>1. details[r][p] + q.content[p] \in Nat
        BY <1>2 DEF Quantities
      <4> QED
        BY <1>1, <1>2, <4>1 DEF TypeOK, Quantities
    <3>2. \A s \in Products : details'[r][s] = q.content[s]
      BY <1>5, <1>7
    <3> QED
      BY <1>2, <3>1, <3>2 DEF Quantities
  <2>2. \A g \in Handlers : ~WritesDetails(req'[g], r)
    BY <1>4, <1>6, <1>7, RequestFields DEF WritesDetails, Done
  <2> QED
    BY <1>1, <1>2, <1>4, <2>1, <2>2 DEF WritesOf
<1>8. CASE q.todo # {p}
  <2>1. /\ new.pc = "insert" /\ new.receipt = r /\ new.content = q.content
        /\ new.todo = q.todo \ {p}
    BY <1>1, <1>8, RequestFields DEF Requests, Done
  <2> HIDE DEF new
  <2> QED
    BY <1>1, <1>2, <1>4, <1>5, <1>6, <2>1 DEF WritesOf, At, WritesDetails
<1> QED
  BY <1>7, <1>8

\* The invariant is inductive.
LEMMA WritesStep ==
    TypeOK /\ WritesAccounted /\ [HNext]_hvars => WritesAccounted'
<1> SUFFICES ASSUME TypeOK, WritesAccounted, [HNext]_hvars
             PROVE  WritesAccounted'
  OBVIOUS
<1>1. ASSUME NEW h \in Handlers, Write(h), Record, UNCHANGED cut
      PROVE  WritesAccounted'
  <2> SUFFICES ASSUME NEW r \in Receipts, r \notin mixed' \cup cut'
               PROVE  WritesOf(r)'
    BY DEF WritesAccounted
  <2>1. WritesOf(r)
    BY <1>1 DEF Record, WritesAccounted
  <2>2. ASSUME NEW s \in Receipts, NEW content \in Contents, Create(h, s, content)
        PROVE  WritesOf(r)'
    <3>1. CASE s = r
      BY <2>1, <2>2, <3>1, WritesOfCreate
    <3>2. CASE s # r
      <4> DEFINE new == IF Lines(content) = {} THEN Idle
                        ELSE Request("insert", s, content, Lines(content), None)
      <4>1. /\ Become(h, new) /\ req[h] = Idle /\ details' = details
            /\ receipt'[r] = receipt[r]
        BY <2>2, <3>2 DEF Create, Begin, TypeOK
      <4>2. ~WritesDetails(new, r) /\ ~WritesDetails(req[h], r)
        BY <3>2, <4>1, RequestBuilt, RequestFields DEF WritesDetails
      <4> HIDE DEF new
      <4> QED
        BY <2>1, <4>1, <4>2, WritesElsewhere
    <3> QED
      BY <3>1, <3>2
  <2>3. ASSUME NEW s \in Receipts, NEW content \in Contents,
               NEW status \in ReceiptStatuses, Edit(h, s, content, status)
        PROVE  WritesOf(r)'
    <3>1. CASE s = r
      BY <1>1, <2>1, <2>3, <3>1, WritesOfEdit
    <3>2. CASE s # r
      <4> DEFINE new == IF Lines(content) = {} THEN Idle
                        ELSE Request("delete", s, content, Lines(content), None)
      <4>1. /\ Become(h, new) /\ req[h] = Idle /\ details' = details
            /\ receipt'[r] = receipt[r]
        BY <2>3, <3>2 DEF Edit, Begin, TypeOK
      <4>2. ~WritesDetails(new, r) /\ ~WritesDetails(req[h], r)
        BY <3>2, <4>1, RequestBuilt, RequestFields DEF WritesDetails
      <4> HIDE DEF new
      <4> QED
        BY <2>1, <4>1, <4>2, WritesElsewhere
    <3> QED
      BY <3>1, <3>2
  <2>4. CASE DeleteDetails(h)
    <3>1. CASE req[h].receipt = r
      BY <2>1, <2>4, <3>1, WritesOfDelete
    <3>2. CASE req[h].receipt # r
      <4> DEFINE new == [req[h] EXCEPT !.pc = "insert"]
      <4>1. /\ Become(h, new) /\ receipt' = receipt /\ details'[r] = details[r]
            /\ req[h] \in Requests /\ req[h].pc # "idle"
        BY <2>4, <3>2 DEF DeleteDetails, TypeOK, At
      <4>2. new.receipt = req[h].receipt
        BY <4>1, RequestFields DEF Requests
      <4> HIDE DEF new
      <4> QED
        BY <2>1, <3>2, <4>1, <4>2, WritesElsewhere DEF WritesDetails
    <3> QED
      BY <3>1, <3>2
  <2>5. ASSUME NEW p \in Products, InsertLine(h, p) PROVE WritesOf(r)'
    <3>1. CASE req[h].receipt = r
      BY <2>1, <2>5, <3>1, WritesOfInsert
    <3>2. CASE req[h].receipt # r
      <4> DEFINE new == Done(req[h], p)
      <4>1. /\ Become(h, new) /\ receipt' = receipt /\ details'[r] = details[r]
            /\ req[h] \in Requests /\ req[h].pc # "idle"
        BY <2>5, <3>2 DEF InsertLine, TypeOK, At
      <4>2. new = Idle \/ new.receipt = req[h].receipt
        BY <4>1, DoneTyped
      <4> HIDE DEF new
      <4>3. ~WritesDetails(new, r)
        BY <3>2, <4>2, RequestFields DEF WritesDetails
      <4> QED
        BY <2>1, <3>2, <4>1, <4>3, WritesElsewhere DEF WritesDetails
    <3> QED
      BY <3>1, <3>2
  <2> QED
    BY <1>1, <2>2, <2>3, <2>4, <2>5 DEF Write
<1>2. ASSUME NEW h \in Handlers, Complete(h), Record, UNCHANGED cut
      PROVE  WritesAccounted'
  <2> SUFFICES ASSUME NEW r \in Receipts, r \notin mixed' \cup cut'
               PROVE  WritesOf(r)'
    BY DEF WritesAccounted
  <2>1. WritesOf(r)
    BY <1>2 DEF Record, WritesAccounted
  <2>2. ~WritesDetails(req[h], r)
    BY <1>2, RequestFields DEF Complete, StatusRead, StatusWrite, LoadDetails,
       CreditLine, Begin, At, WritesDetails
  <2>3. PICK q : Become(h, q) /\ ~WritesDetails(q, r)
    <3>1. ASSUME NEW s \in Receipts, NEW status \in ReceiptStatuses,
                 StatusRead(h, s, status)
          PROVE  \E q : Become(h, q) /\ ~WritesDetails(q, r)
      BY <3>1, RequestBuilt DEF StatusRead, Begin, WritesDetails
    <3>2. CASE StatusWrite(h)
      BY <3>2, RequestBuilt, RequestFields DEF StatusWrite, WritesDetails
    <3>3. CASE LoadDetails(h)
      BY <3>3, RequestBuilt, RequestFields DEF LoadDetails, WritesDetails
    <3>4. ASSUME NEW p \in Products, CreditLine(h, p)
          PROVE  \E q : Become(h, q) /\ ~WritesDetails(q, r)
      BY <3>4, DoneTyped, RequestFields DEF CreditLine, TypeOK, At, WritesDetails
    <3> QED
      BY <1>2, <3>1, <3>2, <3>3, <3>4 DEF Complete
  <2>4. /\ (receipt'[r] = None) <=> (receipt[r] = None)
        /\ receipt[r] # None => receipt'[r].total = receipt[r].total
    <3>1. CASE StatusWrite(h)
      <4> DEFINE s == req[h].receipt
                 new == [receipt[s] EXCEPT !.status = req[h].status]
      <4>1. /\ receipt' = [receipt EXCEPT ![s] = new]
            /\ s \in Receipts /\ receipt[s] \in Receipt /\ receipt[s] # None
            /\ req[h].status \in ReceiptStatuses
        BY <3>1, RequestFields DEF StatusWrite, TypeOK, At
      <4>2. new \in Receipt /\ new.total = receipt[s].total /\ new # None
        <5>1. new \in Receipt /\ new.total = receipt[s].total
          BY <4>1 DEF Receipt
        <5> QED
          BY <5>1, TypeNotNone
      <4> HIDE DEF new
      <4> QED
        BY <4>1, <4>2 DEF TypeOK
    <3>2. CASE UNCHANGED receipt
      BY <3>2
    <3> QED
      BY <1>2, <3>1, <3>2 DEF Complete, StatusRead, LoadDetails, CreditLine
  <2>5. details' = details
    BY <1>2 DEF Complete, StatusRead, StatusWrite, LoadDetails, CreditLine
  <2> QED
    BY <2>1, <2>2, <2>3, <2>4, <2>5, WritesElsewhere
<1>3. CASE /\ Crash /\ Record
           /\ cut' = cut \cup {r \in Receipts : \E h \in Handlers : req[h].receipt = r}
  <2> SUFFICES ASSUME NEW r \in Receipts, r \notin mixed' \cup cut'
               PROVE  WritesOf(r)'
    BY DEF WritesAccounted
  <2>1. WritesOf(r) /\ \A h \in Handlers : ~WritesDetails(req[h], r)
    BY <1>3 DEF Record, WritesAccounted, WritesDetails
  <2>2. \A h \in Handlers : ~WritesDetails(req'[h], r)
    BY <1>3, RequestFields DEF Crash, WritesDetails
  <2> QED
    BY <1>3, <2>1, <2>2 DEF Crash, WritesOf
<1>4. CASE UNCHANGED hvars
  BY <1>4 DEF hvars, history, vars, WritesAccounted, WritesOf, WritesDetails, At
<1> QED
  BY <1>1, <1>2, <1>3, <1>4 DEF HNext, Serve

\* The total on a receipt is the sum of its details once its writes are done
\* (create and update), unless two requests wrote the details together, a crash
\* cut one off, or an edit without products zeroed the total.
THEOREM ReceiptTotalsAreSums == HSpec => []TotalsAreSums
<1>1. HInit => TypeOK /\ WritesAccounted
  BY TypeInit, RequestFields DEF HInit, Init, WritesAccounted, WritesOf, WritesDetails
<1>2. [HNext]_hvars => [Next]_vars
  BY DEF HNext, hvars, Next
<1>3. TypeOK /\ WritesAccounted /\ [HNext]_hvars => TypeOK' /\ WritesAccounted'
  BY <1>2, TypeStep, WritesStep
<1>4. WritesAccounted => TotalsAreSums
  BY DEF WritesAccounted, WritesOf, TotalsAreSums
<1> QED
  BY <1>1, <1>3, <1>4, PTL DEF HSpec

-----------------------------------------------------------------------------
(* The stock is what the completed receipts list *)

\* What a completion has still to add to the stock of p.
Owed(h, p) == IF At(h, "load") THEN details[req[h].receipt][p]
              ELSE IF At(h, "credit") /\ p \in req[h].todo THEN req[h].content[p]
              ELSE 0

OwedInAll(p) == SumFunction([h \in Handlers |-> Owed(h, p)])

NoException == raced \cup edited \cup late \cup cut = {}

Completed(r) == receipt[r] # None /\ receipt[r].status = "SUCCESS"

\* Inductive form of AuditAgrees: while there is no exception, the stock and
\* what is still owed to it are what the completed receipts list, and a receipt
\* that was completed, or is being, is counted as such.
StockAccounted ==
    /\ completions \in [Receipts -> Nat]
    /\ NoException =>
        /\ \A p \in Products : stock[p] + OwedInAll(p) = Received(p)
        /\ \A r \in Receipts : Completed(r) => completions[r] > 0
        /\ \A h \in Handlers : At(h, "load") => completions[req[h].receipt] > 0

\* What is owed and what was delivered are numbers, before a step and after it.
AmountsTyped == \A p \in Products :
    /\ \A h \in Handlers : Owed(h, p) \in Nat
    /\ \A r \in Receipts : Delivered(r, p) \in Nat

LEMMA OwedTyped == TypeOK => AmountsTyped
<1> SUFFICES ASSUME TypeOK, NEW p \in Products
             PROVE  /\ \A h \in Handlers : Owed(h, p) \in Nat
                    /\ \A r \in Receipts : Delivered(r, p) \in Nat
  BY DEF AmountsTyped
<1>1. ASSUME NEW h \in Handlers PROVE Owed(h, p) \in Nat
  <2>1. CASE At(h, "load")
    BY <2>1, RequestFields DEF TypeOK, Owed, At, Quantities
  <2>2. CASE At(h, "credit")
    BY <2>2 DEF TypeOK, Owed, At, Quantities
  <2> QED
    BY <2>1, <2>2 DEF Owed
<1>2. \A r \in Receipts : Delivered(r, p) \in Nat
  BY DEF TypeOK, Delivered, Quantities
<1> QED
  BY <1>1, <1>2

LEMMA OwedTypedNext == TypeOK' => AmountsTyped'
BY OwedTyped, PTL

\* A step that changes what one request owes of a product and what one receipt
\* delivered of it by as much as the stock keeps the account.
LEMMA AccountKept ==
    ASSUME TypeOK, TypeOK', NEW p \in Products, NEW h \in Handlers,
           NEW r \in Receipts,
           \A g \in Handlers \ {h} : Owed(g, p)' = Owed(g, p),
           \A s \in Receipts \ {r} : Delivered(s, p)' = Delivered(s, p),
           stock'[p] + Owed(h, p)' + Delivered(r, p)
               = stock[p] + Owed(h, p) + Delivered(r, p)',
           stock[p] + OwedInAll(p) = Received(p)
    PROVE  (stock[p] + OwedInAll(p) = Received(p))'
<1> DEFINE f == [g \in Handlers |-> Owed(g, p)]
           fn == [g \in Handlers |-> Owed(g, p)']
           d == [s \in Receipts |-> Delivered(s, p)]
           dn == [s \in Receipts |-> Delivered(s, p)']
<1>1. /\ \A g \in Handlers : Owed(g, p) \in Int /\ Owed(g, p)' \in Int
      /\ \A s \in Receipts : Delivered(s, p) \in Int /\ Delivered(s, p)' \in Int
  BY OwedTyped, OwedTypedNext DEF AmountsTyped
<1>2. SumFunctionOnSet(fn, Handlers)
          = SumFunctionOnSet(f, Handlers) - Owed(h, p) + Owed(h, p)'
  <2>1. /\ \A g \in Handlers : f[g] \in Int /\ fn[g] \in Int
        /\ \A g \in Handlers \ {h} : f[g] = fn[g]
        /\ f[h] = Owed(h, p) /\ fn[h] = Owed(h, p)'
    BY <1>1
  <2> HIDE DEF f, fn
  <2> QED
    BY <2>1, SumChanged, ReceiptAssumption
<1>3. SumFunctionOnSet(dn, Receipts)
          = SumFunctionOnSet(d, Receipts) - Delivered(r, p) + Delivered(r, p)'
  <2>1. /\ \A s \in Receipts : d[s] \in Int /\ dn[s] \in Int
        /\ \A s \in Receipts \ {r} : d[s] = dn[s]
        /\ d[r] = Delivered(r, p) /\ dn[r] = Delivered(r, p)'
    BY <1>1
  <2> HIDE DEF d, dn
  <2> QED
    BY <2>1, SumChanged, ReceiptAssumption
<1>4. /\ OwedInAll(p) = SumFunctionOnSet(f, Handlers)
      /\ OwedInAll(p)' = SumFunctionOnSet(fn, Handlers)
      /\ Received(p) = SumFunctionOnSet(d, Receipts)
      /\ Received(p)' = SumFunctionOnSet(dn, Receipts)
  BY DEF OwedInAll, Received, SumFunction
<1>5. SumFunctionOnSet(f, Handlers) \in Int /\ SumFunctionOnSet(d, Receipts) \in Int
  BY <1>1, SumInt, ReceiptAssumption
<1>6. stock[p] \in Int /\ stock'[p] \in Int
  BY DEF TypeOK, Quantities
<1> HIDE DEF f, fn, d, dn
<1> QED
  BY <1>1, <1>2, <1>3, <1>4, <1>5, <1>6
\* A receipt whose details change was not completed, or there is an exception.
LEMMA DetailsOfOpen ==
    ASSUME Record, late' = {}, completions \in [Receipts -> Nat],
           NEW r \in Receipts, details'[r] # details[r]
    PROVE  completions[r] = 0
BY DEF Record

\* A step of Record does not undo exceptions nor completions.
LEMMA RecordGrows ==
    ASSUME Record, cut \subseteq cut', completions \in [Receipts -> Nat]
    PROVE  /\ NoException' => NoException
           /\ NoException' => late' = {}
           /\ completions' \in [Receipts -> Nat]
           /\ \A r \in Receipts : completions[r] > 0 => completions'[r] > 0
<1>1. NoException' => NoException /\ late' = {}
  BY DEF Record, NoException
<1>2. \A r \in Receipts : completions'[r] \in {completions[r], completions[r] + 1}
  BY DEF Record, UpToTwo
<1>3. completions' = [r \in Receipts |-> completions'[r]]
  BY DEF Record
<1> QED
  BY <1>1, <1>2, <1>3

\* What a step of one request has to leave as it is to keep the account: what
\* the others owe, what every receipt but one delivered, and who is completed
\* or being completed.
LEMMA AccountStep ==
    ASSUME TypeOK, TypeOK', StockAccounted, Record, cut \subseteq cut',
           NEW h \in Handlers, NEW q, Become(h, q), NEW r \in Receipts,
           NoException' =>
             /\ \A s \in Receipts \ {r} : receipt'[s] = receipt[s]
             /\ Completed(r)' => Completed(r) \/ completions'[r] > 0
             /\ q.pc = "load" => q.receipt \in Receipts /\ completions'[q.receipt] > 0
             /\ \A p \in Products :
                  stock'[p] + Owed(h, p)' + Delivered(r, p)
                    = stock[p] + Owed(h, p) + Delivered(r, p)'
    PROVE  StockAccounted'
<1>1. /\ NoException' => NoException /\ late' = {}
      /\ completions' \in [Receipts -> Nat]
      /\ \A s \in Receipts : completions[s] > 0 => completions'[s] > 0
  BY RecordGrows DEF StockAccounted
<1> SUFFICES ASSUME NoException'
             PROVE  /\ \A p \in Products : (stock[p] + OwedInAll(p) = Received(p))'
                    /\ \A s \in Receipts : Completed(s)' => completions'[s] > 0
                    /\ \A g \in Handlers :
                         req'[g].pc = "load" => completions'[req'[g].receipt] > 0
  BY <1>1 DEF StockAccounted, At
<1>2. \A g \in Handlers : req'[g] = IF g = h THEN q ELSE req[g]
  BY DEF TypeOK, Become
<1>3. \A g \in Handlers : At(g, "load") =>
            req[g].receipt \in Receipts /\ completions[req[g].receipt] > 0
  BY <1>1, RequestFields DEF StockAccounted, TypeOK, At
<1>4. \A s \in Receipts : details'[s] # details[s] => completions[s] = 0
  BY <1>1, DetailsOfOpen DEF StockAccounted
<1>5. \A s \in Receipts : Completed(s) => completions[s] > 0
  BY <1>1 DEF StockAccounted
<1>6. ASSUME NEW p \in Products, NEW g \in Handlers \ {h}
      PROVE  Owed(g, p)' = Owed(g, p)
  <2>1. At(g, "load") => details'[req[g].receipt] = details[req[g].receipt]
    BY <1>1, <1>3, <1>4 DEF StockAccounted
  <2> QED
    BY <1>2, <2>1 DEF Owed, At
<1>7. ASSUME NEW p \in Products, NEW s \in Receipts \ {r}
      PROVE  Delivered(s, p)' = Delivered(s, p)
  <2>1. receipt'[s] = receipt[s]
    OBVIOUS
  <2>2. Completed(s) => details'[s] = details[s]
    BY <1>1, <1>4, <1>5 DEF StockAccounted
  <2> QED
    BY <2>1, <2>2 DEF Delivered, Completed
<1>8. ASSUME NEW p \in Products PROVE (stock[p] + OwedInAll(p) = Received(p))'
  <2>1. stock[p] + OwedInAll(p) = Received(p)
    BY <1>1 DEF StockAccounted
  <2> QED
    BY <1>6, <1>7, <2>1, AccountKept
<1>9. ASSUME NEW s \in Receipts, Completed(s)' PROVE completions'[s] > 0
  BY <1>1, <1>5, <1>9 DEF Completed
<1>10. ASSUME NEW g \in Handlers, req'[g].pc = "load"
       PROVE  completions'[req'[g].receipt] > 0
  BY <1>1, <1>2, <1>3, <1>10 DEF At
<1> QED
  BY <1>8, <1>9, <1>10
\* A request that owes nothing before and after a step leaves the account
\* alone, if its receipt delivers what it did.
LEMMA AccountIdle ==
    ASSUME TypeOK, TypeOK', StockAccounted, Record, cut \subseteq cut',
           NEW h \in Handlers, NEW q, Become(h, q), NEW r \in Receipts,
           req[h].pc \notin {"load", "credit"}, q.pc \notin {"load", "credit"},
           stock' = stock,
           NoException' => /\ \A s \in Receipts \ {r} : receipt'[s] = receipt[s]
                           /\ receipt'[r] = receipt[r] \/ ~(Completed(r) \/ Completed(r)')
    PROVE  StockAccounted'
<1>1. req'[h] = q
  BY DEF TypeOK, Become
<1>2. \A p \in Products : Owed(h, p) = 0 /\ Owed(h, p)' = 0
  BY <1>1 DEF Owed, At
<1>3. ASSUME NoException', NEW p \in Products
      PROVE  Delivered(r, p)' = Delivered(r, p)
  <2>1. NoException /\ late' = {}
    BY <1>3, RecordGrows DEF StockAccounted
  <2>2. Completed(r) => details'[r] = details[r]
    BY <2>1, DetailsOfOpen DEF StockAccounted
  <2> QED
    BY <1>3, <2>2 DEF Delivered, Completed
<1>4. ASSUME NoException', NEW p \in Products
      PROVE  stock'[p] + Owed(h, p)' + Delivered(r, p)
                = stock[p] + Owed(h, p) + Delivered(r, p)'
  BY <1>2, <1>3, <1>4
<1>5. NoException' => (Completed(r)' => Completed(r))
  BY DEF Completed
<1> QED
  BY <1>4, <1>5, AccountStep

\* A create or an edit, and the writes of the details, leave the account alone.
LEMMA AccountWrite ==
    ASSUME TypeOK, TypeOK', StockAccounted, Record, UNCHANGED cut,
           NEW h \in Handlers, Write(h)
    PROVE  StockAccounted'
<1>1. ASSUME NEW r \in Receipts, NEW content \in Contents, Create(h, r, content)
      PROVE  StockAccounted'
  <2> DEFINE new == IF Lines(content) = {} THEN Idle
                    ELSE Request("insert", r, content, Lines(content), None)
  <2>1. /\ Become(h, new) /\ req[h] = Idle /\ stock' = stock /\ receipt[r] = None
        /\ receipt' = [receipt EXCEPT
              ![r] = [status |-> "PENDING", total |-> Total(content)]]
    BY <1>1 DEF Create, Begin
  <2>2. new.pc \notin {"load", "credit"} /\ req[h].pc = "idle"
    BY <2>1, RequestBuilt, RequestFields
  <2>3. ~Completed(r) /\ ~Completed(r)'
    BY <2>1 DEF Completed, TypeOK
  <2>4. \A s \in Receipts \ {r} : receipt'[s] = receipt[s]
    BY <2>1 DEF TypeOK
  <2> HIDE DEF new
  <2> QED
    BY <2>1, <2>2, <2>3, <2>4, AccountIdle
<1>2. ASSUME NEW r \in Receipts, NEW content \in Contents,
             NEW status \in ReceiptStatuses, Edit(h, r, content, status)
      PROVE  StockAccounted'
  <2> DEFINE new == IF Lines(content) = {} THEN Idle
                    ELSE Request("delete", r, content, Lines(content), None)
  <2>1. /\ Become(h, new) /\ req[h] = Idle /\ stock' = stock /\ receipt[r] # None
        /\ receipt' = [receipt EXCEPT
              ![r] = [status |-> status, total |-> Total(content)]]
    BY <1>2 DEF Edit, Begin
  <2>2. new.pc \notin {"load", "credit"} /\ req[h].pc = "idle"
    BY <2>1, RequestBuilt, RequestFields
  <2>3. NoException' /\ receipt'[r] # receipt[r] => ~Completed(r) /\ ~Completed(r)'
    <3> SUFFICES ASSUME NoException', receipt'[r] # receipt[r]
                 PROVE  ~Completed(r) /\ ~Completed(r)'
      OBVIOUS
    <3>1. \A g \in Handlers : At(g, "status") => req'[g] = req[g]
      BY <2>1, <2>2 DEF Become, TypeOK, At
    <3>2. {receipt[r].status, receipt'[r].status} = {"PENDING"}
      BY <2>1, <3>1 DEF NoException, Record, EditedOpenly
    <3> QED
      BY <3>2 DEF Completed
  <2>4. \A s \in Receipts \ {r} : receipt'[s] = receipt[s]
    BY <2>1 DEF TypeOK
  <2> HIDE DEF new
  <2> QED
    BY <2>1, <2>2, <2>3, <2>4, AccountIdle
<1>3. CASE DeleteDetails(h)
  <2>1. /\ req[h] \in Requests /\ req[h].pc = "delete" /\ UNCHANGED <<receipt, stock>>
        /\ Become(h, [req[h] EXCEPT !.pc = "insert"])
    BY <1>3 DEF DeleteDetails, TypeOK, At
  <2>2. req[h].receipt \in Receipts /\ [req[h] EXCEPT !.pc = "insert"].pc = "insert"
    BY <2>1, RequestFields DEF Requests
  <2> QED
    BY <2>1, <2>2, AccountIdle
<1>4. ASSUME NEW p \in Products, InsertLine(h, p) PROVE StockAccounted'
  <2>1. /\ req[h] \in Requests /\ req[h].pc = "insert" /\ UNCHANGED <<receipt, stock>>
        /\ Become(h, Done(req[h], p))
    BY <1>4 DEF InsertLine, TypeOK, At
  <2>2. req[h].receipt \in Receipts /\ Done(req[h], p).pc \in {"idle", "insert"}
    BY <2>1, DoneTyped, RequestFields
  <2> QED
    BY <2>1, <2>2, AccountIdle
<1> QED
  BY <1>1, <1>2, <1>3, <1>4 DEF Write

\* A receipt that becomes completed delivers what its request owes from then on.
LEMMA AccountStatusWrite ==
    ASSUME TypeOK, TypeOK', StockAccounted, OpenUntilCredited, Record,
           UNCHANGED cut, NEW h \in Handlers, StatusWrite(h),
           NEW r, req[h].receipt = r
    PROVE  StockAccounted'
<1> DEFINE q == req[h]
           new == IF q.status = "SUCCESS"
                  THEN Request("load", r, None, {}, None) ELSE Idle
<1>1. /\ q \in Requests /\ q.pc = "status" /\ Become(h, new)
      /\ receipt' = [receipt EXCEPT ![r].status = q.status]
      /\ UNCHANGED <<details, stock>>
  BY DEF StatusWrite, TypeOK, At
<1>2. /\ r \in Receipts /\ q.status \in ReceiptStatuses
      /\ receipt[r] \in Receipt /\ receipt[r] # None
  BY <1>1, RequestFields DEF TypeOK
<1>3. /\ q.status = "SUCCESS" => new.pc = "load" /\ new.receipt = r
      /\ q.status # "SUCCESS" => new.pc = "idle"
  BY RequestBuilt, RequestFields
<1> HIDE DEF new
<1>4. req'[h] = new
  BY <1>1 DEF TypeOK, Become
<1>5. receipt'[r].status = q.status /\ receipt'[r] # None
  <2>1. receipt'[r] \in Receipt /\ receipt'[r].status = q.status
    BY <1>1, <1>2 DEF TypeOK, Receipt
  <2> QED
    BY <2>1, TypeNotNone
<1>6. \A s \in Receipts \ {r} : receipt'[s] = receipt[s]
  BY <1>1 DEF TypeOK
<1>7. ASSUME NoException'
      PROVE  /\ ~Completed(r)
             /\ q.status = "SUCCESS" => completions'[r] > 0
  <2>1. NoException
    BY <1>7, RecordGrows DEF StockAccounted
  <2>2. receipt[r].status = "PENDING" /\ completions[r] = 0
    BY <1>1, <1>2, <2>1 DEF OpenUntilCredited, NoException, At
  <2>3. q.status = "SUCCESS" => Completing(r)
    BY <1>1, <1>3, <1>4 DEF Completing, At
  <2> QED
    BY <1>2, <2>2, <2>3 DEF Record, UpToTwo, Completed
<1>8. ASSUME NoException', NEW p \in Products
      PROVE  stock'[p] + Owed(h, p)' + Delivered(r, p)
                = stock[p] + Owed(h, p) + Delivered(r, p)'
  <2>1. Owed(h, p) = 0 /\ Delivered(r, p) = 0
    BY <1>1, <1>7, <1>8 DEF Owed, At, Delivered, Completed
  <2>2. /\ Owed(h, p)' = IF q.status = "SUCCESS" THEN details[r][p] ELSE 0
        /\ Delivered(r, p)' = IF q.status = "SUCCESS" THEN details[r][p] ELSE 0
    BY <1>1, <1>3, <1>4, <1>5 DEF Owed, At, Delivered
  <2>3. stock[p] \in Int /\ stock'[p] = stock[p] /\ details[r][p] \in Int
    BY <1>1, <1>2 DEF TypeOK, Quantities
  <2> QED
    BY <2>1, <2>2, <2>3
<1>9. NoException' => (new.pc = "load" => new.receipt \in Receipts
                                          /\ completions'[new.receipt] > 0)
  BY <1>2, <1>3, <1>7
<1>10. NoException' => (Completed(r)' => completions'[r] > 0)
  BY <1>5, <1>7 DEF Completed
<1> QED
  BY <1>1, <1>2, <1>6, <1>8, <1>9, <1>10, AccountStep
\* The lines read are those owed, and each credited is owed no more.
LEMMA AccountComplete ==
    ASSUME TypeOK, TypeOK', StockAccounted, OpenUntilCredited, Record,
           UNCHANGED cut, NEW h \in Handlers, Complete(h)
    PROVE  StockAccounted'
<1>1. ASSUME NEW r \in Receipts, NEW status \in ReceiptStatuses,
             StatusRead(h, r, status)
      PROVE  StockAccounted'
  <2> DEFINE new == Request("status", r, None, {}, status)
  <2>1. new.pc = "status" /\ Become(h, new) /\ req[h].pc = "idle"
    BY <1>1, RequestBuilt, RequestFields DEF StatusRead, Begin
  <2> HIDE DEF new
  <2> QED
    BY <1>1, <2>1, AccountIdle DEF StatusRead
<1>2. CASE StatusWrite(h)
  BY <1>2, AccountStatusWrite
<1>3. CASE LoadDetails(h)
  <2>1. PICK r \in Receipts : r = req[h].receipt
    BY <1>3, RequestFields DEF LoadDetails, TypeOK, At
  <2> DEFINE new == IF Lines(details[r]) = {} THEN Idle
                    ELSE Request("credit", r, details[r], Lines(details[r]), None)
  <2>2. /\ req[h].pc = "load" /\ Become(h, new)
        /\ UNCHANGED <<receipt, details, stock>>
    BY <1>3, <2>1 DEF LoadDetails, At
  <2>3. req'[h] = new
    BY <2>2 DEF TypeOK, Become
  <2>4. new.pc # "load"
    BY RequestBuilt, RequestFields
  <2>5. ASSUME NEW p \in Products PROVE Owed(h, p)' = details[r][p]
    <3>1. p \notin Lines(details[r]) => details[r][p] = 0
      BY DEF TypeOK, Lines, Quantities
    <3>2. CASE Lines(details[r]) = {}
      BY <2>3, <3>1, <3>2, RequestFields DEF Owed, At
    <3>3. CASE Lines(details[r]) # {}
      <4>1. /\ req'[h].pc = "credit" /\ req'[h].todo = Lines(details[r])
            /\ req'[h].content = details[r]
        BY <2>3, <3>3, RequestBuilt
      <4> HIDE DEF new
      <4> QED
        BY <3>1, <4>1 DEF Owed, At
    <3> QED
      BY <3>2, <3>3
  <2>6. \A p \in Products : Owed(h, p) = details[r][p]
    BY <2>1, <2>2 DEF Owed, At
  <2>7. \A p \in Products : Delivered(r, p)' = Delivered(r, p)
    BY <2>2 DEF Delivered
  <2>8. Completed(r)' <=> Completed(r)
    BY <2>2 DEF Completed
  <2> HIDE DEF new
  <2> QED
    BY <2>2, <2>4, <2>5, <2>6, <2>7, <2>8, AccountStep
<1>4. ASSUME NEW p \in Products, CreditLine(h, p) PROVE StockAccounted'
  <2> DEFINE q == req[h]
             new == Done(q, p)
  <2>1. PICK r \in Receipts : r = q.receipt
    BY <1>4, RequestFields DEF CreditLine, TypeOK, At
  <2>2. /\ q \in Requests /\ q.pc = "credit" /\ p \in q.todo /\ Become(h, new)
        /\ stock' = [stock EXCEPT ![p] = @ + q.content[p]]
        /\ UNCHANGED <<receipt, details>>
    BY <1>4 DEF CreditLine, TypeOK, At
  <2>3. q.content \in Quantities
    BY <2>2 DEF TypeOK
  <2>4. new = Idle \/ (new.pc = "credit" /\ new.content = q.content)
    BY <2>2, DoneTyped
  <2>5. /\ new = Idle => q.todo \subseteq {p}
        /\ new # Idle => new.todo = q.todo \ {p}
    BY <2>2, RequestFields DEF Done, Requests
  <2> HIDE DEF new
  <2>6. req'[h] = new
    BY <2>2 DEF TypeOK, Become
  <2>7. ASSUME NEW s \in Products
        PROVE  stock'[s] + Owed(h, s)' + Delivered(r, s)
                  = stock[s] + Owed(h, s) + Delivered(r, s)'
    <3>1. Delivered(r, s)' = Delivered(r, s) /\ Delivered(r, s) \in Int
      BY <2>2, OwedTyped DEF Delivered, AmountsTyped
    <3>2. Owed(h, s) = IF s \in q.todo THEN q.content[s] ELSE 0
      BY <2>2 DEF Owed, At
    <3>3. Owed(h, s)' = IF s \in q.todo \ {p} THEN q.content[s] ELSE 0
      BY <2>4, <2>5, <2>6, RequestFields DEF Owed, At
    <3>4. stock'[s] = IF s = p THEN stock[s] + q.content[s] ELSE stock[s]
      BY <2>2 DEF TypeOK, Quantities
    <3>5. stock[s] \in Int /\ q.content[s] \in Int
      BY <2>3 DEF TypeOK, Quantities
    <3> QED
      BY <2>2, <3>1, <3>2, <3>3, <3>4, <3>5
  <2>8. (Completed(r)' <=> Completed(r)) /\ new.pc # "load"
    BY <2>2, <2>4, RequestFields DEF Completed
  <2> QED
    BY <2>2, <2>7, <2>8, AccountStep
<1> QED
  BY <1>1, <1>2, <1>3, <1>4 DEF Complete

\* The invariant is inductive.
LEMMA AccountInductive ==
    /\ TypeOK /\ TypeOK' /\ OpenUntilCredited /\ StockAccounted /\ [HNext]_hvars
    => StockAccounted'
<1> SUFFICES ASSUME TypeOK, TypeOK', OpenUntilCredited, StockAccounted,
                    [HNext]_hvars
             PROVE  StockAccounted'
  OBVIOUS
<1>1. CASE Serve /\ Record /\ UNCHANGED cut
  BY <1>1, AccountWrite, AccountComplete DEF Serve
<1>2. CASE /\ Crash /\ Record
           /\ cut' = cut \cup {r \in Receipts : \E h \in Handlers : req[h].receipt = r}
  <2>1. PICK h \in Handlers : req[h] # Idle
    BY <1>2 DEF Crash
  <2>2. req[h].receipt \in Receipts
    BY <2>1, RequestFields DEF TypeOK, Requests
  <2>3. req[h].receipt \in cut'
    BY <1>2, <2>2
  <2>4. ~NoException'
    BY <2>3 DEF NoException
  <2>5. completions' \in [Receipts -> Nat]
    BY <1>2, RecordGrows DEF StockAccounted
  <2> QED
    BY <2>4, <2>5 DEF StockAccounted
<1>3. CASE UNCHANGED hvars
  <2>1. \A p : OwedInAll(p)' = OwedInAll(p) /\ Received(p)' = Received(p)
    BY <1>3 DEF hvars, history, vars, OwedInAll, Owed, Received, Delivered, At
  <2> QED
    BY <1>3, <2>1 DEF hvars, history, vars, StockAccounted, NoException, Completed, At
<1> QED
  BY <1>1, <1>2, <1>3 DEF HNext

\* When nothing is in progress, the stock credited is what the completed
\* receipts list (findByIdAndUpdateStatus and productQuantityByProductId),
\* unless one of them met a stale status, was edited when or to closed, got
\* details late or was interrupted.
THEOREM StockAgreesWithReceipts == HSpec => []AuditAgrees
<1>1. HInit => TypeOK /\ OpenUntilCredited /\ StockAccounted
  <2> SUFFICES ASSUME HInit PROVE TypeOK /\ OpenUntilCredited /\ StockAccounted
    OBVIOUS
  <2>1. TypeOK /\ OpenUntilCredited
    BY TypeInit, RequestFields DEF HInit, Init, OpenUntilCredited, At
  <2>2. completions \in [Receipts -> Nat]
    BY DEF HInit
  <2>3. /\ \A r \in Receipts : ~Completed(r)
        /\ \A h \in Handlers : ~At(h, "load") /\ ~At(h, "credit")
    BY RequestFields DEF HInit, Init, Completed, At
  <2>4. ASSUME NEW p \in Products PROVE stock[p] + OwedInAll(p) = Received(p)
    <3>1. \A h \in Handlers : Owed(h, p) = 0
      BY <2>3 DEF Owed
    <3>2. \A r \in Receipts : Delivered(r, p) = 0
      BY <2>3 DEF Delivered, Completed
    <3>3. OwedInAll(p) = 0 /\ Received(p) = 0
      BY <3>1, <3>2, SumZero, ReceiptAssumption DEF OwedInAll, Received, SumFunction
    <3> QED
      BY <3>3 DEF HInit, Init, Nothing
  <2> QED
    BY <2>1, <2>2, <2>3, <2>4 DEF StockAccounted
<1>2. [HNext]_hvars => [Next]_vars
  BY DEF HNext, hvars, Next
<1>3. TypeOK /\ OpenUntilCredited /\ StockAccounted /\ [HNext]_hvars
        => TypeOK' /\ OpenUntilCredited' /\ StockAccounted'
  BY <1>2, TypeStep, OpenStep, AccountInductive
<1>4. TypeOK /\ StockAccounted => AuditAgrees
  <2> SUFFICES ASSUME TypeOK, StockAccounted, NoException,
                      \A h \in Handlers : req[h] = Idle, NEW p \in Products
               PROVE  stock[p] = Received(p)
    BY DEF AuditAgrees, NoException
  <2>1. \A h \in Handlers : Owed(h, p) = 0
    BY RequestFields DEF Owed, At
  <2>2. OwedInAll(p) = 0
    BY <2>1, SumZero, ReceiptAssumption DEF OwedInAll, SumFunction
  <2>3. stock[p] + OwedInAll(p) = Received(p) /\ stock[p] \in Int
    BY DEF StockAccounted, TypeOK, Quantities
  <2> QED
    BY <2>2, <2>3
<1> QED
  BY <1>1, <1>3, <1>4, PTL DEF HSpec
=============================================================================
