------------------------------- MODULE Category -------------------------------
(***************************************************************************)
(* The category tree: category.service.ts, with the subtree query that     *)
(* product.service.ts makes.  A category is stored with the left and right *)
(* numbers of a nested set; creating one renumbers the others with two     *)
(* updateMany calls before it inserts the document.  Each document that     *)
(* updateMany moves is a write of its own, in whatever order.              *)
(***************************************************************************)
EXTENDS Integers

CONSTANTS
    Categories, \* category ids, a bound on the categories created
    Root,       \* the category the database was seeded with
    Handlers,   \* slots for requests in progress
    None,       \* no document, no value
    MaxRight    \* bound: no create starts once the root's right number is above

Doc == [parentId : Categories \cup {None}, left : Nat, right : Nat, dept : Nat]

ASSUME CategoryAssumption ==
    Root \in Categories /\ None \notin Categories \cup Doc /\ MaxRight \in Nat

VARIABLES
    cat,        \* cat[c]: the category document, None before it is created
    req         \* req[h]: the request handler h executes

vars == <<cat, req>>

\* category: the parent; right and dept: what was read of it; moved: what the
\* updateMany in progress has moved.
Request(pc, c, right, dept) ==
    [pc |-> pc, category |-> c, right |-> right, dept |-> dept, moved |-> {}]

Idle == Request("idle", None, 0, 0)

Creating == {"rights", "lefts", "insert"}

Requests == {Idle} \cup
    [pc : Creating, category : Categories, right : Nat, dept : Nat,
     moved : SUBSET Categories]

Exists(c) == cat[c] # None
Existing == {c \in Categories : Exists(c)}

\* Types of the state; a request works on a category that exists.
TypeOK ==
    /\ cat \in [Categories -> Doc \cup {None}]
    /\ req \in [Handlers -> Requests]
    /\ Exists(Root)
    /\ \A c \in Categories :
        (Exists(c) /\ c # Root) => cat[c].parentId \in Categories
    /\ \A h \in Handlers : req[h].pc # "idle" => Exists(req[h].category)

\* A create without a parent fails on parent.dept, so the root is not created
\* by the program.
Init ==
    /\ cat = [c \in Categories |->
            IF c = Root
            THEN [parentId |-> None, left |-> 1, right |-> 2, dept |-> 0]
            ELSE None]
    /\ req = [h \in Handlers |-> Idle]

Begin(h, request) ==
    req[h].pc = "idle" /\ req' = [req EXCEPT ![h] = request]
GoTo(h, step) == req' = [req EXCEPT ![h].pc = step, ![h].moved = {}]
Finish(h) == req' = [req EXCEPT ![h] = Idle]
At(h, step) == req[h].pc = step

-----------------------------------------------------------------------------
(* POST category -- create *)

ReadParent(h, c) ==
    /\ Exists(c) /\ cat[Root].right <= MaxRight
    /\ Begin(h, Request("rights", c, cat[c].right, cat[c].dept))
    /\ UNCHANGED cat

\* Variant: the right numbers above the parent's are moved, its own is not.
SelectsRightAbove(r, c) ==
    Exists(c) /\ c \notin r.moved /\ cat[c].right > r.right

\* What the updateMany calls of request r select; MongoDB moves no document twice
\* in one of them.  (One that another create stores or moves meanwhile is selected
\* too, where it might be missed; CategoryHistory promises nothing of that.)
SelectsRight(r, c) == Exists(c) /\ c \notin r.moved /\ cat[c].right >= r.right
SelectsLeft(r, c) == Exists(c) /\ c \notin r.moved /\ cat[c].left > r.right

\* updateMany: right numbers from the parent's on make room for the new ones.
MoveRight(h, c) ==
    /\ At(h, "rights") /\ SelectsRight(req[h], c)
    /\ cat' = [cat EXCEPT ![c].right = @ + 2]
    /\ req' = [req EXCEPT ![h].moved = @ \cup {c}]

RightsMoved(h) ==
    /\ At(h, "rights") /\ \A c \in Categories : ~SelectsRight(req[h], c)
    /\ GoTo(h, "lefts")
    /\ UNCHANGED cat

\* Variant: left numbers are moved by one.
MoveLeftByOne(h, c) ==
    /\ At(h, "lefts") /\ SelectsLeft(req[h], c)
    /\ cat' = [cat EXCEPT ![c].left = @ + 1]
    /\ req' = [req EXCEPT ![h].moved = @ \cup {c}]

\* updateMany: so do the left numbers after it.
MoveLeft(h, c) ==
    /\ At(h, "lefts") /\ SelectsLeft(req[h], c)
    /\ cat' = [cat EXCEPT ![c].left = @ + 2]
    /\ req' = [req EXCEPT ![h].moved = @ \cup {c}]

LeftsMoved(h) ==
    /\ At(h, "lefts") /\ \A c \in Categories : ~SelectsLeft(req[h], c)
    /\ GoTo(h, "insert")
    /\ UNCHANGED cat

\* Variant: the depth of the parent is not counted up.
InsertLevel(h, c) ==
    LET r == req[h] IN
    /\ At(h, "insert") /\ ~Exists(c)
    /\ cat' = [cat EXCEPT ![c] = [parentId |-> r.category, left |-> r.right,
                                  right |-> r.right + 1, dept |-> r.dept]]
    /\ Finish(h)

\* Variant: the document of the new category has no parent.
InsertOrphan(h, c) ==
    LET r == req[h] IN
    /\ At(h, "insert") /\ ~Exists(c)
    /\ cat' = [cat EXCEPT ![c] = [parentId |-> None, left |-> r.right,
                                  right |-> r.right + 1, dept |-> r.dept + 1]]
    /\ Finish(h)

Insert(h, c) ==
    LET r == req[h] IN
    /\ At(h, "insert") /\ ~Exists(c)
    /\ cat' = [cat EXCEPT ![c] = [parentId |-> r.category, left |-> r.right,
                                  right |-> r.right + 1, dept |-> r.dept + 1]]
    /\ Finish(h)

-----------------------------------------------------------------------------
(* GET category/children/list and GET product *)

\* Variant: the query compares the left numbers only.
WithinLeft(c, left, right) == left < cat[c].left

Within(c, left, right) == left < cat[c].left /\ cat[c].right < right

\* What the query finds at one instant for numbers read before.
Subtree(left, right) == {c \in Categories : Exists(c) /\ Within(c, left, right)}

\* The process stops and docker restarts it; MongoDB keeps its data.
Crash ==
    /\ \E h \in Handlers : req[h].pc # "idle"
    /\ req' = [h \in Handlers |-> Idle]
    /\ UNCHANGED cat

-----------------------------------------------------------------------------

Create(h) ==
    \/ \E c \in Categories : ReadParent(h, c)
    \/ \E c \in Categories : MoveRight(h, c) \/ MoveLeft(h, c) \/ Insert(h, c)
    \/ RightsMoved(h) \/ LeftsMoved(h)

Serve == \E h \in Handlers : Create(h)

Next == Serve \/ Crash

Spec == Init /\ [][Next]_vars
=============================================================================
