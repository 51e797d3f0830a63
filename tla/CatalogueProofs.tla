--------------------------- MODULE CatalogueProofs ---------------------------
(* Theorems about the catalogue, for any number of categories, products,     *)
(* creates and listings at a time, any size of a page and any bounds: first  *)
(* those of Category and CategoryHistory, then those of CatalogueHistory,    *)
(* which reads the tree while categories and products are created.           *)
EXTENDS CatalogueHistory, FiniteSetTheorems, TLAPS

-----------------------------------------------------------------------------
(* Type correctness *)

\* A stored document is not the absence of one.
LEMMA DocNotNone == \A d \in Doc : d # None
BY CategoryAssumption

\* The fields of the idle request and of one in progress.
LEMMA RequestFields ==
    /\ Idle \in Requests /\ Idle.pc = "idle" /\ Idle.moved = {}
    /\ \A q \in Requests : q.pc # "idle" =>
        /\ q.pc \in Creating /\ q.category \in Categories
        /\ q.right \in Nat /\ q.dept \in Nat /\ q.moved \subseteq Categories
BY DEF Requests, Idle, Request, Creating

\* What the invariant uses of the numbers of a category that exists and of a
\* request in progress.
LEMMA Numbers ==
    ASSUME TypeOK
    PROVE  /\ \A c \in Existing : /\ c \in Categories /\ cat[c] \in Doc
                                  /\ cat[c].left \in Nat /\ cat[c].right \in Nat
           /\ \A h \in Handlers : req[h].pc \in Creating =>
                /\ req[h] \in Requests
                /\ req[h].right \in Nat /\ req[h].dept \in Nat
                /\ req[h].category \in Existing
<1>1. \A c \in Existing : c \in Categories /\ cat[c] \in Doc
  BY DEF TypeOK, Existing, Exists
<1>2. \A c \in Existing : cat[c].left \in Nat /\ cat[c].right \in Nat
  BY <1>1 DEF Doc
<1>3. ASSUME NEW h \in Handlers, req[h].pc \in Creating
      PROVE  /\ req[h] \in Requests
             /\ req[h].right \in Nat /\ req[h].dept \in Nat
             /\ req[h].category \in Existing
  <2>1. req[h] \in Requests /\ req[h].pc # "idle" /\ Exists(req[h].category)
    BY <1>3 DEF TypeOK, Creating
  <2> QED
    BY <2>1, RequestFields DEF Existing
<1> QED
  BY <1>1, <1>2, <1>3

\* The other handlers' requests stay as they are.
Others(h) == \A g \in Handlers : g # h => req'[g] = req[g]

\* The request of h goes on, at step q, with what it read of the parent.
Continues(h, step, moved) ==
    /\ Others(h)
    /\ req' \in [Handlers -> Requests]
    /\ req'[h].pc = step /\ req'[h].moved = moved
    /\ req'[h].category = req[h].category
    /\ req'[h].right = req[h].right /\ req'[h].dept = req[h].dept

LEMMA GoneTo ==
    ASSUME TypeOK, NEW h \in Handlers, req[h].pc \in Creating, NEW step \in Creating,
           GoTo(h, step)
    PROVE  Continues(h, step, {})
<1>1. req[h] \in [pc : Creating, category : Categories, right : Nat, dept : Nat,
                  moved : SUBSET Categories]
  BY RequestFields DEF TypeOK, Requests, Creating
<1>2. [req[h] EXCEPT !.pc = step, !.moved = {}] \in Requests
  BY <1>1 DEF Requests
<1> QED
  BY <1>1, <1>2 DEF TypeOK, GoTo, Continues, Others

LEMMA GoneOn ==
    ASSUME TypeOK, NEW h \in Handlers, req[h].pc \in Creating, NEW c \in Categories,
           req' = [req EXCEPT ![h].moved = @ \cup {c}]
    PROVE  Continues(h, req[h].pc, req[h].moved \cup {c})
<1>1. req[h] \in [pc : Creating, category : Categories, right : Nat, dept : Nat,
                  moved : SUBSET Categories]
  BY RequestFields DEF TypeOK, Requests, Creating
<1>2. [req[h] EXCEPT !.moved = @ \cup {c}] \in Requests
  BY <1>1 DEF Requests
<1> QED
  BY <1>1, <1>2 DEF TypeOK, Continues, Others

\* The documents but for c stay as they are.
OthersKept(c) == \A d \in Categories : d # c => cat'[d] = cat[d]

\* What the commands of a create do.
LEMMA ParentRead ==
    ASSUME TypeOK, NEW h \in Handlers, NEW c \in Categories, ReadParent(h, c)
    PROVE  /\ c \in Existing /\ cat' = cat /\ Others(h)
           /\ req' \in [Handlers -> Requests]
           /\ req[h].pc = "idle" /\ req'[h].pc = "rights" /\ req'[h].moved = {}
           /\ req'[h].category = c
           /\ req'[h].right = cat[c].right /\ req'[h].dept = cat[c].dept
<1>1. cat[c] \in Doc /\ c \in Existing
  BY DEF TypeOK, ReadParent, Exists, Existing
<1>2. Request("rights", c, cat[c].right, cat[c].dept) \in Requests
  BY <1>1 DEF Requests, Request, Creating, Doc
<1> QED
  BY <1>1, <1>2 DEF TypeOK, ReadParent, Begin, Others, Request

LEMMA RightMoved ==
    ASSUME TypeOK, NEW h \in Handlers, NEW c \in Categories, MoveRight(h, c)
    PROVE  /\ c \in Existing /\ OthersKept(c)
           /\ cat' \in [Categories -> Doc \cup {None}]
           /\ cat'[c] \in Doc
           /\ cat'[c].left = cat[c].left /\ cat'[c].right = cat[c].right + 2
           /\ cat'[c].parentId = cat[c].parentId /\ cat'[c].dept = cat[c].dept
           /\ req[h].pc = "rights" /\ SelectsRight(req[h], c)
           /\ Continues(h, "rights", req[h].moved \cup {c})
<1>1. req[h].pc = "rights" /\ SelectsRight(req[h], c) /\ Exists(c)
  BY DEF MoveRight, At, SelectsRight
<1>2. cat[c] \in Doc /\ c \in Existing
  BY <1>1 DEF TypeOK, Exists, Existing
<1>3. [cat[c] EXCEPT !.right = @ + 2] \in Doc
  BY <1>2 DEF Doc
<1>4. cat' = [cat EXCEPT ![c] = [cat[c] EXCEPT !.right = @ + 2]]
  BY DEF MoveRight
<1>5. Continues(h, "rights", req[h].moved \cup {c})
  BY <1>1, GoneOn DEF MoveRight, Creating
<1> QED
  BY <1>1, <1>2, <1>3, <1>4, <1>5 DEF TypeOK, OthersKept, Doc

LEMMA LeftMoved ==
    ASSUME TypeOK, NEW h \in Handlers, NEW c \in Categories, MoveLeft(h, c)
    PROVE  /\ c \in Existing /\ OthersKept(c)
           /\ cat' \in [Categories -> Doc \cup {None}]
           /\ cat'[c] \in Doc
           /\ cat'[c].left = cat[c].left + 2 /\ cat'[c].right = cat[c].right
           /\ cat'[c].parentId = cat[c].parentId /\ cat'[c].dept = cat[c].dept
           /\ req[h].pc = "lefts" /\ SelectsLeft(req[h], c)
           /\ Continues(h, "lefts", req[h].moved \cup {c})
<1>1. req[h].pc = "lefts" /\ SelectsLeft(req[h], c) /\ Exists(c)
  BY DEF MoveLeft, At, SelectsLeft
<1>2. cat[c] \in Doc /\ c \in Existing
  BY <1>1 DEF TypeOK, Exists, Existing
<1>3. [cat[c] EXCEPT !.left = @ + 2] \in Doc
  BY <1>2 DEF Doc
<1>4. cat' = [cat EXCEPT ![c] = [cat[c] EXCEPT !.left = @ + 2]]
  BY DEF MoveLeft
<1>5. Continues(h, "lefts", req[h].moved \cup {c})
  BY <1>1, GoneOn DEF MoveLeft, Creating
<1> QED
  BY <1>1, <1>2, <1>3, <1>4, <1>5 DEF TypeOK, OthersKept, Doc

LEMMA PassEnded ==
    ASSUME TypeOK, NEW h \in Handlers
    PROVE  /\ RightsMoved(h) => /\ cat' = cat /\ req[h].pc = "rights"
                                /\ Continues(h, "lefts", {})
           /\ LeftsMoved(h) => /\ cat' = cat /\ req[h].pc = "lefts"
                               /\ Continues(h, "insert", {})
BY GoneTo DEF RightsMoved, LeftsMoved, At, Creating

LEMMA Inserted ==
    ASSUME TypeOK, NEW h \in Handlers, NEW n \in Categories, Insert(h, n)
    PROVE  /\ n \notin Existing /\ OthersKept(n)
           /\ cat' \in [Categories -> Doc \cup {None}]
           /\ cat'[n] \in Doc
           /\ cat'[n].left = req[h].right /\ cat'[n].right = req[h].right + 1
           /\ cat'[n].parentId = req[h].category
           /\ cat'[n].dept = req[h].dept + 1
           /\ req[h].pc = "insert" /\ req'[h] = Idle /\ Others(h)
           /\ req' \in [Handlers -> Requests]
<1>1. /\ req[h].pc = "insert" /\ req[h].category \in Categories
      /\ req[h].right \in Nat /\ req[h].dept \in Nat
  BY RequestFields DEF TypeOK, Insert, At
<1>2. [parentId |-> req[h].category, left |-> req[h].right,
       right |-> req[h].right + 1, dept |-> req[h].dept + 1] \in Doc
  BY <1>1 DEF Doc
<1> QED
  BY <1>1, <1>2, RequestFields
     DEF TypeOK, Insert, Finish, Others, OthersKept, Existing, Exists

\* What the type invariant says of a step that keeps what there is.
LEMMA TypeKept ==
    ASSUME TypeOK, cat' \in [Categories -> Doc \cup {None}],
           req' \in [Handlers -> Requests],
           \A c \in Categories : cat[c] # None =>
                cat'[c] # None /\ cat'[c].parentId = cat[c].parentId,
           \A c \in Categories : cat[c] = None /\ cat'[c] # None =>
                cat'[c].parentId \in Categories,
           \A h \in Handlers : req'[h].pc # "idle" =>
                /\ req'[h].category \in Categories
                /\ \/ cat[req'[h].category] # None
                   \/ req[h].pc # "idle" /\ req'[h].category = req[h].category
    PROVE  TypeOK'
<1>1. cat'[Root] # None
  BY CategoryAssumption DEF TypeOK, Exists
<1>2. \A c \in Categories : (cat'[c] # None /\ c # Root) => cat'[c].parentId \in Categories
  BY DEF TypeOK, Exists
<1>3. \A h \in Handlers : req'[h].pc # "idle" => cat'[req'[h].category] # None
  BY DEF TypeOK, Exists
<1> QED
  BY <1>1, <1>2, <1>3 DEF TypeOK, Exists

\* Every step keeps the declared types.
LEMMA TypeStep == TypeOK /\ [Next]_vars => TypeOK'
<1> SUFFICES ASSUME TypeOK, [Next]_vars PROVE TypeOK'
  OBVIOUS
<1> USE RequestFields, DocNotNone
<1>0. /\ cat \in [Categories -> Doc \cup {None}] /\ req \in [Handlers -> Requests]
      /\ \A h \in Handlers : req[h].pc # "idle" => req[h].category \in Categories
  BY DEF TypeOK
<1>1. ASSUME NEW h \in Handlers, NEW c \in Categories, ReadParent(h, c)
      PROVE  TypeOK'
  BY <1>0, <1>1, ParentRead, TypeKept DEF Others, Existing, Exists
<1>2. ASSUME NEW h \in Handlers, NEW step, NEW moved, Continues(h, step, moved),
             req[h].pc \in Creating, NEW c \in Categories, OthersKept(c),
             cat' \in [Categories -> Doc \cup {None}],
             cat[c] # None => cat'[c] # None /\ cat'[c].parentId = cat[c].parentId,
             cat[c] = None => cat'[c] = None
      PROVE  TypeOK'
  <2>1. req[h].pc # "idle"
    BY <1>2 DEF Creating
  <2> QED
    BY <1>0, <1>2, <2>1, TypeKept DEF Continues, Others, OthersKept
<1>3. ASSUME NEW h \in Handlers, NEW c \in Categories, MoveRight(h, c) PROVE TypeOK'
  BY <1>2, <1>3, RightMoved DEF Creating, Existing, Exists
<1>4. ASSUME NEW h \in Handlers, NEW c \in Categories, MoveLeft(h, c) PROVE TypeOK'
  BY <1>2, <1>4, LeftMoved DEF Creating, Existing, Exists
<1>5. ASSUME NEW h \in Handlers, RightsMoved(h) \/ LeftsMoved(h) PROVE TypeOK'
  <2>1. cat' = cat /\ Root \in Categories /\ OthersKept(Root) /\ req[h].pc \in Creating
    BY <1>5, PassEnded, CategoryAssumption DEF OthersKept, Creating
  <2> QED
    BY <1>0, <1>2, <1>5, <2>1, PassEnded
<1>6. ASSUME NEW h \in Handlers, NEW n \in Categories, Insert(h, n) PROVE TypeOK'
  <2>1. /\ cat[n] = None /\ req[h].pc = "insert" /\ req'[h].pc = "idle"
        /\ cat'[n].parentId \in Categories
    BY <1>0, <1>6, Inserted DEF Existing, Exists
  <2> QED
    BY <1>0, <1>6, <2>1, Inserted, TypeKept DEF Others, OthersKept
<1>7. CASE Crash
  BY <1>7 DEF TypeOK, Crash, Exists
<1>8. CASE UNCHANGED vars
  BY <1>8 DEF TypeOK, vars, Exists
<1> QED
  BY <1>1, <1>3, <1>4, <1>5, <1>6, <1>7, <1>8 DEF Next, Serve, Create

\* The seeded tree has the declared types.
LEMMA TypeInit == Init => TypeOK
<1>1. [parentId |-> None, left |-> 1, right |-> 2, dept |-> 0] \in Doc
  BY DEF Doc
<1> QED
  BY <1>1, RequestFields, DocNotNone, CategoryAssumption DEF Init, TypeOK, Exists

\* Every reachable state of the category component has the declared types
\* (category.service.ts, create): documents with a parent, but for the root,
\* and requests on categories that exist.
THEOREM TypeCorrect == Spec => []TypeOK
BY TypeInit, TypeStep, PTL DEF Spec

-----------------------------------------------------------------------------
(* Arithmetic of the renumbering *)

\* The moves keep the order of numbers, and leave two free from the bound on.
LEMMA MovesKeepOrder ==
    /\ \A x, y, b \in Nat : /\ MovedLeft(x, b) \in Nat /\ MovedRight(x, b) \in Nat
                            /\ MovedLeft(x, b) < MovedLeft(y, b) <=> x < y
                            /\ MovedRight(x, b) < MovedRight(y, b) <=> x < y
    /\ \A x, b \in Nat : MovedRight(x, b) \notin {b, b + 1}
    /\ \A x, b \in Nat : x # b => /\ MovedLeft(x, b) = MovedRight(x, b)
                                  /\ MovedLeft(x, b) < b <=> x < b
    /\ \A x, b \in Nat : b + 1 < MovedRight(x, b) <=> b <= x
BY DEF MovedLeft, MovedRight

\* Moving numbers keeps intervals apart.
LEMMA ApartMoved ==
    ASSUME NEW l1 \in Nat, NEW r1 \in Nat, NEW l2 \in Nat, NEW r2 \in Nat,
           NEW b \in Nat, l1 # b, l2 # b, Apart(l1, r1, l2, r2)
    PROVE  Apart(MovedLeft(l1, b), MovedRight(r1, b),
                 MovedLeft(l2, b), MovedRight(r2, b))
BY DEF Apart, MovedLeft, MovedRight

\* Two free numbers around which an interval either closes or does not are
\* apart from it.
LEMMA ApartFree ==
    ASSUME NEW l \in Nat, NEW r \in Nat, NEW b \in Nat, l < r,
           l \notin {b, b + 1}, r \notin {b, b + 1}
    PROVE  Apart(l, r, b, b + 1) /\ Apart(b, b + 1, l, r)
BY DEF Apart

\* The numbers a category is to have are numbers, and no other than those it has
\* if no create is in progress, or one that has moved them all.
LEMMA AfterNumbers ==
    ASSUME TypeOK, NEW r \in Requests, NEW c \in Existing
    PROVE  /\ LeftAfter(r, c) \in Nat /\ RightAfter(r, c) \in Nat
           /\ r.pc # "rights" => RightAfter(r, c) = cat[c].right
           /\ r.pc \notin {"rights", "lefts"} => LeftAfter(r, c) = cat[c].left
<1>1. cat[c].left \in Nat /\ cat[c].right \in Nat
  BY Numbers
<1>2. r.right \in Nat
  BY RequestFields DEF Requests, Idle, Request
<1> QED
  BY <1>1, <1>2 DEF LeftAfter, RightAfter, MovedLeft, MovedRight

LEMMA IdleNumbers ==
    \A c \in Existing : /\ LeftAfter(Idle, c) = cat[c].left
                        /\ RightAfter(Idle, c) = cat[c].right
BY DEF LeftAfter, RightAfter, Idle, Request

-----------------------------------------------------------------------------
(* The inductive invariant *)

\* The state between two creates, or within one that has not been overlapped.
Undisturbed ==
    /\ TypeOK
    /\ ParentsKnown
    /\ OneCreate
    /\ halved # {} => ~Underway
    /\ Settled => Nested(Idle)
    /\ \A r \in Open : r \in Requests /\ r.category \in Existing
                          /\ Nested(r) /\ Room(r)

\* What history records in a step that inserts no category.
LEMMA RecordNothing ==
    ASSUME Record, \A c \in Categories : cat'[c] = None <=> cat[c] = None
    PROVE  Existing' = Existing
           /\ \A c \in Categories : ancestors'[c] = ancestors[c]
BY DEF Record, Existing, Exists

\* While a create is in progress no other is, and none was halved.
LEMMA Alone ==
    ASSUME Undisturbed, NEW h \in Handlers, req[h].pc \in Creating
    PROVE  /\ halved = {} /\ Open = {req[h]}
           /\ \A g \in Handlers : g # h => req[g].pc \notin Creating
           /\ req[h] \in Requests /\ Nested(req[h]) /\ Room(req[h])
<1>1. /\ halved = {} /\ req[h] \in Open
      /\ \A g \in Handlers : g # h => req[g].pc \notin Creating
  BY DEF Undisturbed, OneCreate, Underway, Open
<1>2. Open = {req[h]}
  BY <1>1 DEF Undisturbed, OneCreate
<1> QED
  BY <1>1, <1>2 DEF Undisturbed

LEMMA StaysAlone ==
    ASSUME NEW h \in Handlers, Others(h), halved' = {},
           \A g \in Handlers : g # h => req[g].pc \notin Creating
    PROVE  /\ OneCreate'
           /\ Open' = IF req'[h].pc \in Creating THEN {req'[h]} ELSE {}
           /\ (halved # {} => ~Underway)'
<1>1. \A g \in Handlers : req'[g].pc \in Creating => g = h
  BY DEF Others
<1>2. Open' = IF req'[h].pc \in Creating THEN {req'[h]} ELSE {}
  BY <1>1 DEF Open
<1> QED
  BY <1>1, <1>2 DEF OneCreate

\* A command of h after which it has more moved, or moves no more of the kind,
\* and the numbers will be those they were to be before.
Keeps(h) ==
    /\ req[h].pc \in Creating
    /\ \E step \in Creating, moved \in SUBSET Categories :
            Continues(h, step, moved) /\ (step = "rights" => moved # {})
    /\ \A c \in Categories : cat'[c] = None <=> cat[c] = None
    /\ \A c \in Existing : /\ LeftAfter(req[h], c)' = LeftAfter(req[h], c)
                           /\ RightAfter(req[h], c)' = RightAfter(req[h], c)

LEMMA MoveRightKeeps ==
    ASSUME TypeOK, NEW h \in Handlers, NEW c \in Categories, MoveRight(h, c)
    PROVE  Keeps(h)
<1>1. /\ c \in Existing /\ OthersKept(c) /\ cat'[c] \in Doc
      /\ cat'[c].left = cat[c].left /\ cat'[c].right = cat[c].right + 2
      /\ req[h].pc = "rights" /\ SelectsRight(req[h], c)
      /\ Continues(h, "rights", req[h].moved \cup {c})
  BY RightMoved
<1>2. \A d \in Categories : cat'[d] = None <=> cat[d] = None
  BY <1>1, DocNotNone DEF OthersKept, Existing, Exists
<1>3. ASSUME NEW d \in Existing
      PROVE  /\ LeftAfter(req[h], d)' = LeftAfter(req[h], d)
             /\ RightAfter(req[h], d)' = RightAfter(req[h], d)
  <2>1. d \in Categories
    BY DEF Existing
  <2>2. CASE d = c
    BY <1>1, <2>2 DEF LeftAfter, RightAfter, MovedRight, SelectsRight, Continues
  <2>3. CASE d # c
    BY <1>1, <2>1, <2>3 DEF LeftAfter, RightAfter, Continues, OthersKept
  <2> QED
    BY <2>2, <2>3
<1>4. req[h].pc \in Creating /\ "rights" \in Creating
      /\ req[h].moved \cup {c} \in SUBSET Categories
  BY <1>1, RequestFields DEF Creating, TypeOK
<1> QED
  BY <1>1, <1>2, <1>3, <1>4 DEF Keeps

LEMMA MoveLeftKeeps ==
    ASSUME TypeOK, NEW h \in Handlers, NEW c \in Categories, MoveLeft(h, c)
    PROVE  Keeps(h)
<1>1. /\ c \in Existing /\ OthersKept(c) /\ cat'[c] \in Doc
      /\ cat'[c].left = cat[c].left + 2 /\ cat'[c].right = cat[c].right
      /\ req[h].pc = "lefts" /\ SelectsLeft(req[h], c)
      /\ Continues(h, "lefts", req[h].moved \cup {c})
  BY LeftMoved
<1>2. \A d \in Categories : cat'[d] = None <=> cat[d] = None
  BY <1>1, DocNotNone DEF OthersKept, Existing, Exists
<1>3. ASSUME NEW d \in Existing
      PROVE  /\ LeftAfter(req[h], d)' = LeftAfter(req[h], d)
             /\ RightAfter(req[h], d)' = RightAfter(req[h], d)
  <2>1. d \in Categories
    BY DEF Existing
  <2>2. CASE d = c
    BY <1>1, <2>2 DEF LeftAfter, RightAfter, MovedLeft, SelectsLeft, Continues
  <2>3. CASE d # c
    BY <1>1, <2>1, <2>3 DEF LeftAfter, RightAfter, Continues, OthersKept
  <2> QED
    BY <2>2, <2>3
<1>4. req[h].pc \in Creating /\ "lefts" \in Creating
      /\ req[h].moved \cup {c} \in SUBSET Categories
  BY <1>1, RequestFields DEF Creating, TypeOK
<1> QED
  BY <1>1, <1>2, <1>3, <1>4 DEF Keeps

\* What there is no more to select has been moved, or is not to be.
LEMMA PassKeeps ==
    ASSUME TypeOK, NEW h \in Handlers, RightsMoved(h) \/ LeftsMoved(h)
    PROVE  Keeps(h)
<1>1. CASE RightsMoved(h)
  <2>1. /\ cat' = cat /\ req[h].pc = "rights" /\ Continues(h, "lefts", {})
        /\ \A c \in Categories : ~SelectsRight(req[h], c)
    BY <1>1, PassEnded DEF RightsMoved
  <2>2. req[h].pc \in Creating /\ "lefts" \in Creating /\ req[h].right \in Nat
    BY <2>1, Numbers DEF Creating
  <2>3. ASSUME NEW d \in Existing
        PROVE  /\ LeftAfter(req[h], d)' = LeftAfter(req[h], d)
               /\ RightAfter(req[h], d)' = RightAfter(req[h], d)
    BY <2>1, <2>2, Numbers
       DEF SelectsRight, Existing, LeftAfter, RightAfter, MovedLeft, MovedRight, Continues
  <2> QED
    BY <2>1, <2>2, <2>3 DEF Keeps
<1>2. CASE LeftsMoved(h)
  <2>1. /\ cat' = cat /\ req[h].pc = "lefts" /\ Continues(h, "insert", {})
        /\ \A c \in Categories : ~SelectsLeft(req[h], c)
    BY <1>2, PassEnded DEF LeftsMoved
  <2>2. req[h].pc \in Creating /\ "insert" \in Creating /\ req[h].right \in Nat
    BY <2>1, Numbers DEF Creating
  <2>3. ASSUME NEW d \in Existing
        PROVE  /\ LeftAfter(req[h], d)' = LeftAfter(req[h], d)
               /\ RightAfter(req[h], d)' = RightAfter(req[h], d)
    BY <2>1, <2>2, Numbers
       DEF SelectsLeft, Existing, LeftAfter, RightAfter, MovedLeft, MovedRight, Continues
  <2> QED
    BY <2>1, <2>2, <2>3 DEF Keeps
<1> QED
  BY <1>1, <1>2

\* Such commands keep the invariant.
LEMMA KeptStep ==
    ASSUME Undisturbed, TypeOK', NEW h \in Handlers, Keeps(h),
           Record, UNCHANGED halved
    PROVE  Undisturbed' /\ ~Settled'
<1>1. PICK step \in Creating, moved \in SUBSET Categories :
            Continues(h, step, moved) /\ (step = "rights" => moved # {})
  BY DEF Keeps
<1>2. /\ halved = {} /\ \A g \in Handlers : g # h => req[g].pc \notin Creating
      /\ Nested(req[h]) /\ Room(req[h])
  BY Alone DEF Keeps
<1>3. /\ Existing' = Existing /\ Existing \subseteq Categories
      /\ \A c \in Categories : ancestors'[c] = ancestors[c]
  BY RecordNothing DEF Existing, Keeps
<1>4. req'[h].pc \in Creating /\ req'[h] \in Requests /\ Renumbers(req[h])'
  BY <1>1 DEF Continues, Renumbers, Creating
<1>5. OneCreate' /\ Open' = {req'[h]} /\ (halved # {} => ~Underway)'
  BY <1>1, <1>2, <1>4, StaysAlone DEF Continues
<1>6. req[h].category \in Existing /\ req'[h].category = req[h].category
      /\ req'[h].right = req[h].right
  BY <1>1, Numbers DEF Undisturbed, Continues, Keeps
<1>7. Nested(req[h])'
  BY <1>2, <1>3 DEF Nested, Inside, Keeps
<1>8. Room(req[h])'
  BY <1>2, <1>3, <1>6 DEF Room, Keeps
<1>9. ParentsKnown'
  BY <1>3 DEF Undisturbed, ParentsKnown
<1>10. ~Settled'
  BY <1>4, <1>5 DEF Settled
<1> QED
  BY <1>3, <1>4, <1>5, <1>6, <1>7, <1>8, <1>9, <1>10 DEF Undisturbed

\* A create that begins while no other is in progress: what it is to move makes
\* room for the two numbers of the new category.
LEMMA ReadParentStep ==
    ASSUME Undisturbed, TypeOK', NEW h \in Handlers, NEW p \in Categories,
           ReadParent(h, p), Record, UNCHANGED halved, ~Underway, halved = {}
    PROVE  Undisturbed'
<1> DEFINE b == cat[p].right
<1>1. /\ TypeOK /\ ParentsKnown /\ Nested(Idle)
      /\ \A g \in Handlers : req[g].pc \notin Creating
  BY DEF Undisturbed, Settled, Open, Underway
<1>2. /\ p \in Existing /\ cat' = cat /\ Others(h)
      /\ req'[h] \in Requests /\ req'[h].pc = "rights" /\ req'[h].moved = {}
      /\ req'[h].category = p /\ req'[h].right = b
  BY <1>1, ParentRead
<1>3. /\ Existing' = Existing /\ Existing \subseteq Categories
      /\ \A c \in Categories : ancestors'[c] = ancestors[c]
  BY <1>2, RecordNothing DEF Existing
<1>4. OneCreate' /\ Open' = {req'[h]} /\ (halved # {} => ~Underway)'
  BY <1>1, <1>2, StaysAlone DEF Creating
<1>5. /\ b \in Nat
      /\ \A c \in Existing : /\ cat[c].left \in Nat /\ cat[c].right \in Nat
                             /\ cat[c].left < cat[c].right
      /\ \A c, d \in Existing :
            /\ c # d => Apart(cat[c].left, cat[c].right, cat[d].left, cat[d].right)
            /\ c \in ancestors[d] <=> (cat[c].left < cat[d].left
                                       /\ cat[d].right < cat[c].right)
  BY <1>1, <1>2, Numbers, IdleNumbers DEF Nested, Inside
<1>6. \A c \in Existing : /\ LeftAfter(req[h], c)' = MovedLeft(cat[c].left, b)
                          /\ RightAfter(req[h], c)' = MovedRight(cat[c].right, b)
  BY <1>2 DEF LeftAfter, RightAfter
<1> HIDE DEF b
<1>7. ASSUME NEW c \in Existing
      PROVE  /\ cat[c].left # b
             /\ (cat[c].left < b /\ b <= cat[c].right) <=> (c = p \/ c \in ancestors[p])
  BY <1>2, <1>5 DEF Apart, b
<1>8. Nested(req[h])'
  <2>1. ASSUME NEW c \in Existing
        PROVE  MovedLeft(cat[c].left, b) < MovedRight(cat[c].right, b)
    BY <1>5, <1>7 DEF MovedLeft, MovedRight
  <2>2. ASSUME NEW c \in Existing, NEW d \in Existing, c # d
        PROVE  Apart(MovedLeft(cat[c].left, b), MovedRight(cat[c].right, b),
                     MovedLeft(cat[d].left, b), MovedRight(cat[d].right, b))
    BY <1>5, <1>7, <2>2, ApartMoved
  <2>3. ASSUME NEW c \in Existing, NEW d \in Existing
        PROVE  (/\ MovedLeft(cat[c].left, b) < MovedLeft(cat[d].left, b)
                /\ MovedRight(cat[d].right, b) < MovedRight(cat[c].right, b))
                    <=> c \in ancestors'[d]
    <3>1. /\ MovedLeft(cat[c].left, b) < MovedLeft(cat[d].left, b)
                <=> cat[c].left < cat[d].left
          /\ MovedRight(cat[d].right, b) < MovedRight(cat[c].right, b)
                <=> cat[d].right < cat[c].right
      BY <1>5, MovesKeepOrder
    <3>2. ancestors'[d] = ancestors[d]
      BY <1>3
    <3> QED
      BY <1>5, <3>1, <3>2
  <2>4. \A c \in Existing' : LeftAfter(req[h], c)' < RightAfter(req[h], c)'
    BY <1>3, <1>6, <2>1
  <2>5. \A c, d \in Existing' : c # d =>
            Apart(LeftAfter(req[h], c)', RightAfter(req[h], c)',
                  LeftAfter(req[h], d)', RightAfter(req[h], d)')
    BY <1>3, <1>6, <2>2
  <2>6. \A c, d \in Existing' : Inside(req[h], d, c)' <=> c \in ancestors'[d]
    BY <1>3, <1>6, <2>3 DEF Inside
  <2> QED
    BY <2>4, <2>5, <2>6 DEF Nested
<1>9. Room(req[h])'
  <2>1. ASSUME NEW c \in Existing
        PROVE  LET l == MovedLeft(cat[c].left, b)
                   s == MovedRight(cat[c].right, b)
               IN  /\ l \notin {b, b + 1} /\ s \notin {b, b + 1}
                   /\ (l < b /\ b + 1 < s) <=> (c = p \/ c \in ancestors'[p])
    BY <1>2, <1>3, <1>5, <1>7 DEF MovedLeft, MovedRight
  <2> QED
    BY <1>2, <1>3, <1>6, <2>1 DEF Room
<1>10. Nested(Idle)'
  BY <1>1, <1>2, <1>3 DEF Nested, Inside, LeftAfter, RightAfter
<1>11. ParentsKnown'
  BY <1>1, <1>3 DEF ParentsKnown
<1> QED
  BY <1>2, <1>3, <1>4, <1>8, <1>9, <1>10, <1>11 DEF Undisturbed

\* The new document takes the free numbers, below its parent.
LEMMA InsertStep ==
    ASSUME Undisturbed, TypeOK', NEW h \in Handlers, NEW n \in Categories,
           Insert(h, n), Record, UNCHANGED halved
    PROVE  Undisturbed'
<1> DEFINE b == req[h].right
           p == req[h].category
<1>1. TypeOK /\ ParentsKnown
  BY DEF Undisturbed
<1>2. /\ n \notin Existing /\ OthersKept(n) /\ cat'[n] \in Doc
      /\ cat'[n].left = b /\ cat'[n].right = b + 1 /\ cat'[n].parentId = p
      /\ req[h].pc = "insert" /\ req'[h] = Idle /\ Others(h)
  BY <1>1, Inserted
<1>3. req[h].pc \in Creating /\ b \in Nat /\ p \in Existing /\ Existing \subseteq Categories
  BY <1>1, <1>2, Numbers DEF Creating, Existing
<1>4. /\ halved = {} /\ \A g \in Handlers : g # h => req[g].pc \notin Creating
      /\ req[h] \in Requests /\ Nested(req[h]) /\ Room(req[h])
  BY <1>3, Alone
<1>5. /\ \A c \in Existing : cat'[c] = cat[c]
      /\ Existing' = Existing \cup {n}
      /\ ancestors'[n] = ancestors[p] \cup {p}
      /\ \A c \in Existing : ancestors'[c] = ancestors[c]
  <2>1. \A c \in Existing : cat'[c] = cat[c]
    BY <1>2, <1>3 DEF OthersKept
  <2>2. \A c \in Categories : cat'[c] # None <=> (cat[c] # None \/ c = n)
    BY <1>2, DocNotNone DEF OthersKept
  <2>3. p # None /\ cat[n] = None
    BY <1>2, <1>3, CategoryAssumption DEF Existing, Exists
  <2> QED
    BY <1>2, <1>3, <2>1, <2>2, <2>3 DEF Record, Existing, Exists
<1>6. \A c \in Existing : /\ cat[c].left \in Nat /\ cat[c].right \in Nat
                          /\ LeftAfter(req[h], c) = cat[c].left
                          /\ RightAfter(req[h], c) = cat[c].right
  BY <1>1, <1>2, <1>4, Numbers, AfterNumbers
<1> HIDE DEF b, p
<1>7. ASSUME NEW c \in Existing
      PROVE  /\ cat[c].left < cat[c].right
             /\ cat[c].left \notin {b, b + 1} /\ cat[c].right \notin {b, b + 1}
             /\ (cat[c].left < b /\ b + 1 < cat[c].right)
                  <=> (c = p \/ c \in ancestors[p])
             /\ \A d \in Existing :
                  /\ c # d => Apart(cat[c].left, cat[c].right, cat[d].left, cat[d].right)
                  /\ (cat[c].left < cat[d].left /\ cat[d].right < cat[c].right)
                        <=> c \in ancestors[d]
  BY <1>4, <1>6 DEF Nested, Room, Inside, b, p
<1>8. ParentsKnown'
  BY <1>1, <1>3, <1>5 DEF ParentsKnown
<1>9. \A c, d \in Existing' :
        (cat'[c].left < cat'[d].left /\ cat'[d].right < cat'[c].right)
            <=> c \in ancestors'[d]
  <2> DEFINE In(d, c) == cat'[c].left < cat'[d].left /\ cat'[d].right < cat'[c].right
  <2>1. ASSUME NEW c \in Existing, NEW d \in Existing
        PROVE  In(d, c) <=> c \in ancestors'[d]
    BY <1>5, <1>7
  <2>2. ASSUME NEW d \in Existing
        PROVE  In(d, n) <=> n \in ancestors'[d]
    <3>1. ~(b < cat[d].left /\ cat[d].right < b + 1)
      BY <1>3, <1>6, <1>7
    <3>2. n \notin ancestors'[d]
      BY <1>1, <1>2, <1>5 DEF ParentsKnown
    <3> QED
      BY <1>2, <1>5, <3>1, <3>2
  <2>3. ASSUME NEW c \in Existing
        PROVE  In(n, c) <=> c \in ancestors'[n]
    BY <1>2, <1>5, <1>7
  <2>4. In(n, n) <=> n \in ancestors'[n]
    BY <1>1, <1>2, <1>3, <1>5 DEF ParentsKnown
  <2> QED
    BY <1>5, <2>1, <2>2, <2>3, <2>4
<1>10. /\ \A c \in Existing' : cat'[c].left < cat'[c].right
       /\ \A c, d \in Existing' : c # d =>
            Apart(cat'[c].left, cat'[c].right, cat'[d].left, cat'[d].right)
  <2>1. ASSUME NEW c \in Existing
        PROVE  /\ Apart(cat[c].left, cat[c].right, b, b + 1)
               /\ Apart(b, b + 1, cat[c].left, cat[c].right)
    BY <1>3, <1>6, <1>7, ApartFree
  <2> QED
    BY <1>2, <1>3, <1>5, <1>7, <2>1
<1>11. Nested(Idle)'
  <2>1. Idle.pc = "idle"
    BY RequestFields
  <2> QED
    BY <1>9, <1>10, <2>1 DEF Nested, Inside, LeftAfter, RightAfter
<1>12. OneCreate' /\ Open' = {} /\ (halved # {} => ~Underway)'
  <2>1. req'[h].pc \notin Creating
    BY <1>2, RequestFields DEF Creating
  <2> QED
    BY <1>2, <1>4, <2>1, StaysAlone
<1> QED
  BY <1>8, <1>11, <1>12 DEF Undisturbed

\* What a crash cuts off is left with what it had yet to move.
LEMMA CrashStep ==
    ASSUME Undisturbed, TypeOK', Crash, Record,
           halved' = halved \cup {r \in {req[h] : h \in Handlers} : Renumbers(r)}
    PROVE  Undisturbed'
<1>1. /\ Existing' = Existing /\ Existing \subseteq Categories /\ cat' = cat
      /\ \A c \in Categories : ancestors'[c] = ancestors[c]
  BY RecordNothing DEF Crash, Existing
<1>2. \A h \in Handlers : req'[h].pc \notin Creating
  BY RequestFields DEF Crash, Creating
<1>3. Open' = halved' /\ ~Underway'
  BY <1>2 DEF Open, Underway
<1>4. halved' \subseteq Open
  BY DEF Open, Renumbers, Creating
<1>5. ParentsKnown' /\ OneCreate'
  BY <1>1, <1>2, <1>3, <1>4 DEF Undisturbed, ParentsKnown, OneCreate
<1>6. ASSUME NEW r \in halved'
      PROVE  /\ r \in Requests /\ r.category \in Existing
             /\ Nested(r) /\ Room(r)
  BY <1>4 DEF Undisturbed
<1>7. \A r \in halved' : Nested(r)' /\ Room(r)'
  BY <1>1, <1>6 DEF Nested, Room, Inside, LeftAfter, RightAfter
<1>8. Settled' => Nested(Idle)'
  <2> HAVE Settled'
  <2>1. Settled
    BY <1>3 DEF Settled, Open
  <2>2. Nested(Idle)
    BY <2>1 DEF Undisturbed
  <2> QED
    BY <1>1, <2>2 DEF Nested, Inside, LeftAfter, RightAfter
<1> QED
  BY <1>1, <1>3, <1>5, <1>6, <1>7, <1>8 DEF Undisturbed

-----------------------------------------------------------------------------
(* The invariant of the tree *)

\* NestedSets is Undisturbed where no create was overlapped.
LEMMA NestedSetsUndisturbed ==
    ASSUME TypeOK, spoilt = {}
    PROVE  NestedSets <=> Undisturbed
BY DEF NestedSets, Undisturbed

\* Every step of a create keeps the inductive invariant.
LEMMA CreateStep ==
    ASSUME Undisturbed, TypeOK', NEW h \in Handlers, Create(h), Record,
           UNCHANGED halved, spoilt' = {}
    PROVE  Undisturbed'
<1>1. ASSUME NEW c \in Categories, ReadParent(h, c) PROVE Undisturbed'
  <2>1. req[h].pc = "idle" /\ req'[h].pc = "rights"
    BY <1>1, ParentRead DEF Undisturbed
  <2>2. ~Underway /\ halved = {}
    BY <2>1 DEF Record
  <2> QED
    BY <1>1, <2>2, ReadParentStep
<1>2. ASSUME Keeps(h) PROVE Undisturbed'
  BY <1>2, KeptStep
<1>3. TypeOK
  BY DEF Undisturbed
<1> QED
  BY <1>1, <1>2, <1>3, MoveRightKeeps, MoveLeftKeeps, PassKeeps, InsertStep DEF Create

\* And so does every other.
LEMMA NestedSetsStep ==
    TypeOK /\ TypeOK' /\ NestedSets /\ [HNext]_hvars => NestedSets'
<1> SUFFICES ASSUME TypeOK, TypeOK', NestedSets, [HNext]_hvars, spoilt' = {}
             PROVE  NestedSets'
  BY DEF NestedSets
<1>1. spoilt = {}
  BY DEF HNext, HServe, HCrash, Record, hvars, history
<1>2. Undisturbed
  BY <1>1, NestedSetsUndisturbed
<1>3. Undisturbed'
  <2>1. CASE HServe
    BY <1>2, <2>1, CreateStep DEF HServe, Serve
  <2>2. CASE HCrash
    BY <1>2, <2>2, CrashStep DEF HCrash
  <2>3. CASE UNCHANGED hvars
    BY <1>2, <2>3 DEF hvars, history, vars, Undisturbed, ParentsKnown, OneCreate,
       Underway, Settled, Open, Nested, Inside, Room, LeftAfter, RightAfter,
       Existing, Exists
  <2> QED
    BY <2>1, <2>2, <2>3 DEF HNext
<1>4. NestedSets' <=> Undisturbed'
  BY DEF NestedSets, Undisturbed
<1> QED
  BY <1>3, <1>4

\* The seeded tree is undisturbed.
LEMMA NestedSetsInit == HInit => TypeOK /\ NestedSets
<1> SUFFICES ASSUME HInit PROVE TypeOK /\ NestedSets
  OBVIOUS
<1>1. TypeOK
  BY TypeInit DEF HInit
<1>2. /\ Existing = {Root} /\ Root \in Categories /\ ancestors[Root] = {}
      /\ cat[Root].left = 1 /\ cat[Root].right = 2
  <2>1. [parentId |-> None, left |-> 1, right |-> 2, dept |-> 0] # None
    BY DocNotNone DEF Doc
  <2> QED
    BY <2>1, CategoryAssumption DEF HInit, Init, Existing, Exists
<1>3. \A h \in Handlers : req[h].pc \notin Creating
  BY RequestFields DEF HInit, Init, Creating
<1>4. ParentsKnown /\ Nested(Idle)
  BY <1>2, IdleNumbers DEF ParentsKnown, Nested, Inside
<1>5. halved = {} /\ OneCreate /\ Open = {}
  BY <1>3 DEF HInit, OneCreate, Open
<1> QED
  BY <1>1, <1>4, <1>5 DEF NestedSets

\* Every step keeps types and the inductive invariant.
LEMMA TreeStep == TypeOK /\ NestedSets /\ [HNext]_hvars => (TypeOK /\ NestedSets)'
<1>1. [HNext]_hvars => [Next]_vars
  BY DEF HNext, HServe, HCrash, hvars, Next
<1> QED
  BY <1>1, TypeStep, NestedSetsStep

-----------------------------------------------------------------------------
(* Each number once *)

\* Between creates the numbers up to the root's right are all in use.
Dense ==
    /\ \A c \in Existing : 1 <= cat[c].left /\ cat[c].right <= cat[Root].right
    /\ \A x \in 1..cat[Root].right : \E c \in Existing :
            cat[c].left = x \/ cat[c].right = x

\* Within one they will be, but for the two that the new category is to have.
DenseBut(r) ==
    LET top == RightAfter(r, Root) IN
    /\ 1 <= r.right /\ r.right + 1 < top
    /\ \A c \in Existing : 1 <= LeftAfter(r, c) /\ RightAfter(r, c) <= top
    /\ \A x \in 1..top : x \notin {r.right, r.right + 1} =>
            \E c \in Existing : LeftAfter(r, c) = x \/ RightAfter(r, c) = x

NumbersDense ==
    (spoilt = {} /\ halved = {}) =>
        /\ Settled => Dense
        /\ \A h \in Handlers : req[h].pc \in Creating => DenseBut(req[h])

\* Making room leaves the two numbers from the parent's right on free.
LEMMA ReadParentDense ==
    ASSUME TypeOK, Nested(Idle), Dense, Record,
           NEW h \in Handlers, NEW p \in Categories, ReadParent(h, p)
    PROVE  DenseBut(req[h])' /\ Dense'
<1> DEFINE b == cat[p].right
<1>1. /\ p \in Existing /\ cat' = cat
      /\ req'[h].pc = "rights" /\ req'[h].moved = {} /\ req'[h].right = b
  BY ParentRead
<1>2. Existing' = Existing /\ Root \in Existing
  BY <1>1, CategoryAssumption DEF TypeOK, Existing, Exists
<1>3. /\ b \in Nat
      /\ \A c \in Existing : /\ cat[c].left \in Nat /\ cat[c].right \in Nat
                             /\ 1 <= cat[c].left /\ cat[c].left < cat[c].right
                             /\ cat[c].right <= cat[Root].right
  BY <1>1, Numbers, IdleNumbers DEF Nested, Dense
<1>4. \A c \in Existing : /\ LeftAfter(req[h], c)' = MovedLeft(cat[c].left, b)
                          /\ RightAfter(req[h], c)' = MovedRight(cat[c].right, b)
  BY <1>1 DEF LeftAfter, RightAfter
<1> HIDE DEF b
<1>5. /\ 1 <= b /\ b <= cat[Root].right
      /\ RightAfter(req[h], Root)' = cat[Root].right + 2
  BY <1>1, <1>2, <1>3, <1>4 DEF MovedRight, b
<1>6. ASSUME NEW c \in Existing
      PROVE  /\ 1 <= LeftAfter(req[h], c)'
             /\ RightAfter(req[h], c)' <= cat[Root].right + 2
  BY <1>2, <1>3, <1>4 DEF MovedLeft, MovedRight
<1>7. ASSUME NEW x \in 1..(cat[Root].right + 2), x \notin {b, b + 1}
      PROVE  \E c \in Existing :
                LeftAfter(req[h], c)' = x \/ RightAfter(req[h], c)' = x
  <2>1. CASE x < b
    <3>1. x \in 1..cat[Root].right
      BY <1>2, <1>3, <1>5, <2>1
    <3>2. PICK c \in Existing : cat[c].left = x \/ cat[c].right = x
      BY <3>1 DEF Dense
    <3> QED
      BY <1>3, <1>4, <2>1, <3>2 DEF MovedLeft, MovedRight
  <2>2. CASE x = b + 2
    BY <1>1, <1>3, <1>4, <2>2 DEF MovedRight, b
  <2>3. CASE b + 2 < x
    <3>1. x - 2 \in 1..cat[Root].right
      BY <1>2, <1>3, <1>5, <2>3
    <3>2. PICK c \in Existing : cat[c].left = x - 2 \/ cat[c].right = x - 2
      BY <3>1 DEF Dense
    <3> QED
      BY <1>3, <1>4, <2>3, <3>2 DEF MovedLeft, MovedRight
  <2> QED
    BY <1>2, <1>3, <1>7, <2>1, <2>2, <2>3
<1>8. 1 <= b /\ b + 1 < cat[Root].right + 2
  BY <1>2, <1>3, <1>5
<1>9. DenseBut(req[h])'
  BY <1>1, <1>2, <1>5, <1>6, <1>7, <1>8 DEF DenseBut
<1>10. Dense'
  BY <1>1, <1>2 DEF Dense
<1> QED
  BY <1>9, <1>10

\* The new document takes the two numbers.
LEMMA InsertDense ==
    ASSUME TypeOK, NEW h \in Handlers, NEW n \in Categories, Insert(h, n),
           DenseBut(req[h])
    PROVE  Dense'
<1> DEFINE b == req[h].right
<1>1. /\ n \notin Existing /\ OthersKept(n) /\ cat'[n] \in Doc
      /\ cat'[n].left = b /\ cat'[n].right = b + 1 /\ req[h].pc = "insert"
  BY Inserted
<1>2. b \in Nat /\ req[h] \in Requests /\ Root \in Existing /\ Existing \subseteq Categories
  BY <1>1, Numbers, CategoryAssumption DEF Creating, TypeOK, Existing
<1>3. \A c \in Existing : /\ LeftAfter(req[h], c) = cat[c].left
                          /\ RightAfter(req[h], c) = cat[c].right
                          /\ cat[c].left \in Nat /\ cat[c].right \in Nat
                          /\ cat'[c] = cat[c]
  BY <1>1, <1>2, AfterNumbers, Numbers DEF OthersKept
<1>4. Existing' = Existing \cup {n}
  BY <1>1, DocNotNone DEF OthersKept, Existing, Exists
<1> HIDE DEF b
<1>5. ASSUME NEW x \in 1..cat'[Root].right
      PROVE  \E c \in Existing' : cat'[c].left = x \/ cat'[c].right = x
  <2>1. CASE x \in {b, b + 1}
    BY <1>1, <1>4, <2>1
  <2>2. CASE x \notin {b, b + 1}
    <3>1. PICK c \in Existing : LeftAfter(req[h], c) = x \/ RightAfter(req[h], c) = x
      BY <1>2, <1>3, <2>2 DEF DenseBut, b
    <3> QED
      BY <1>3, <1>4, <3>1
  <2> QED
    BY <2>1, <2>2
<1>6. 1 <= b /\ b + 1 < cat[Root].right /\ cat'[Root] = cat[Root]
      /\ \A c \in Existing : 1 <= cat[c].left /\ cat[c].right <= cat[Root].right
  BY <1>2, <1>3 DEF DenseBut, b
<1>7. ASSUME NEW c \in Existing'
      PROVE  1 <= cat'[c].left /\ cat'[c].right <= cat'[Root].right
  <2>1. CASE c = n
    BY <1>1, <1>2, <1>3, <1>6, <2>1 DEF b
  <2>2. CASE c # n
    BY <1>3, <1>4, <1>6, <2>2
  <2> QED
    BY <2>1, <2>2
<1> QED
  BY <1>5, <1>7 DEF Dense

\* Every step keeps the numbers dense.
LEMMA NumbersDenseStep ==
    TypeOK /\ TypeOK' /\ NestedSets /\ NestedSets' /\ NumbersDense /\ [HNext]_hvars
        => NumbersDense'
<1> SUFFICES ASSUME TypeOK, TypeOK', NestedSets, NestedSets', NumbersDense,
                    [HNext]_hvars, spoilt' = {}, halved' = {}
             PROVE  /\ Settled' => Dense'
                    /\ \A g \in Handlers : req'[g].pc \in Creating => DenseBut(req[g])'
  BY DEF NumbersDense
<1>1. spoilt = {} /\ halved = {} /\ Undisturbed
  BY NestedSetsUndisturbed DEF HNext, HServe, HCrash, Record, hvars, history
<1>2. ASSUME NEW h \in Handlers, Create(h), Record
      PROVE  /\ Settled' => Dense'
             /\ \A g \in Handlers : req'[g].pc \in Creating => DenseBut(req[g])'
  <2>1. ASSUME DenseBut(req[h])', req'[h].pc \in Creating
        PROVE  \A g \in Handlers : req'[g].pc \in Creating => DenseBut(req[g])'
    BY <2>1 DEF NestedSets, OneCreate
  <2>2. ASSUME NEW p \in Categories, ReadParent(h, p)
        PROVE  /\ Settled' => Dense'
               /\ \A g \in Handlers : req'[g].pc \in Creating => DenseBut(req[g])'
    <3>1. req[h].pc = "idle" /\ req'[h].pc = "rights"
      BY <2>2, ParentRead
    <3>2. ~Underway
      BY <1>2, <3>1 DEF Record
    <3>3. Settled /\ Nested(Idle) /\ Dense
      BY <1>1, <3>2 DEF Undisturbed, NumbersDense, Settled, Open, Underway
    <3> QED
      BY <1>2, <2>1, <2>2, <3>1, <3>3, ReadParentDense DEF Creating
  <2>3. ASSUME Keeps(h)
        PROVE  /\ Settled' => Dense'
               /\ \A g \in Handlers : req'[g].pc \in Creating => DenseBut(req[g])'
    <3>1. ~Settled' /\ Existing' = Existing /\ Root \in Existing
      BY <1>1, <1>2, <2>3, KeptStep, RecordNothing, CategoryAssumption
         DEF Keeps, TypeOK, Existing
    <3>2. req'[h].right = req[h].right /\ req'[h].pc \in Creating
      BY <2>3 DEF Keeps, Continues
    <3>3. DenseBut(req[h])
      BY <1>1, <2>3 DEF Keeps, NumbersDense
    <3>4. DenseBut(req[h])'
      BY <2>3, <3>1, <3>2, <3>3 DEF Keeps, DenseBut
    <3> QED
      BY <2>1, <3>1, <3>2, <3>4
  <2>4. ASSUME NEW n \in Categories, Insert(h, n)
        PROVE  /\ Settled' => Dense'
               /\ \A g \in Handlers : req'[g].pc \in Creating => DenseBut(req[g])'
    <3>1. /\ req[h].pc \in Creating /\ req'[h].pc \notin Creating
          /\ \A g \in Handlers : g # h => req'[g] = req[g]
      BY <2>4, Inserted, RequestFields DEF Creating, Others
    <3>2. DenseBut(req[h]) /\ \A g \in Handlers : req'[g].pc \notin Creating
      BY <1>1, <3>1, Alone DEF NumbersDense
    <3> QED
      BY <2>4, <3>2, InsertDense
  <2> QED
    BY <1>2, <2>2, <2>3, <2>4, MoveRightKeeps, MoveLeftKeeps, PassKeeps DEF Create
<1>3. CASE HCrash
  <2>1. /\ cat' = cat /\ \A g \in Handlers : req'[g].pc \notin Creating
        /\ \A g \in Handlers : ~Renumbers(req[g])
    BY <1>3, RequestFields DEF HCrash, Crash, Creating
  <2>2. Settled
    BY <1>1, <2>1 DEF Settled, Open
  <2>3. Dense
    BY <1>1, <2>2 DEF NumbersDense
  <2> QED
    BY <2>1, <2>3 DEF Dense, Existing, Exists
<1>4. CASE UNCHANGED hvars
  <2>1. cat' = cat /\ req' = req /\ halved' = halved
    BY <1>4 DEF hvars, vars, history
  <2>2. Settled' => Dense'
    BY <1>1, <2>1 DEF NumbersDense, Settled, Open, Dense, Existing, Exists
  <2>3. ASSUME NEW g \in Handlers, req'[g].pc \in Creating PROVE DenseBut(req[g])'
    <3>1. DenseBut(req[g])
      BY <1>1, <2>1, <2>3 DEF NumbersDense
    <3> QED
      BY <2>1, <3>1 DEF DenseBut, LeftAfter, RightAfter, Existing, Exists
  <2> QED
    BY <2>2, <2>3
<1> QED
  BY <1>2, <1>3, <1>4 DEF HNext, HServe, Serve

\* Between creates the left and right numbers of the categories are the numbers
\* up to the root's right, each used once, for any number of categories, as long
\* as no create overlapped another or was cut off (category.service.ts, create).
THEOREM NumbersOnce == HSpec => []NumbersUsedOnce
<1>1. HInit => NumbersDense
  <2> SUFFICES ASSUME HInit PROVE NumbersDense
    OBVIOUS
  <2>1. /\ Existing = {Root} /\ cat[Root].left = 1 /\ cat[Root].right = 2
    <3>1. [parentId |-> None, left |-> 1, right |-> 2, dept |-> 0] # None
      BY DocNotNone DEF Doc
    <3> QED
      BY <3>1, CategoryAssumption DEF HInit, Init, Existing, Exists
  <2>2. \A h \in Handlers : req[h].pc \notin Creating
    BY RequestFields DEF HInit, Init, Creating
  <2> QED
    BY <2>1, <2>2 DEF NumbersDense, Dense
<1>2. TypeOK /\ NestedSets /\ NumbersDense => NumbersUsedOnce
  <2> SUFFICES ASSUME TypeOK, NestedSets, NumbersDense,
                      spoilt = {}, halved = {}, ~Underway
               PROVE  LET leftNumbers == {cat[c].left : c \in Existing}
                          rightNumbers == {cat[c].right : c \in Existing}
                      IN  /\ leftNumbers \cap rightNumbers = {}
                          /\ \A c, d \in Existing : c # d =>
                                /\ cat[c].left # cat[d].left
                                /\ cat[c].right # cat[d].right
                          /\ leftNumbers \cup rightNumbers = 1..cat[Root].right
    BY DEF NumbersUsedOnce
  <2>1. Settled /\ Dense /\ Nested(Idle)
    BY DEF NumbersDense, NestedSets, Settled, Open, Underway
  <2>2. \A c \in Existing : /\ cat[c].left \in Nat /\ cat[c].right \in Nat
                            /\ cat[c].left < cat[c].right
    BY <2>1, Numbers, IdleNumbers DEF Nested
  <2>3. \A c, d \in Existing : /\ cat[c].left # cat[d].right
                               /\ c # d => /\ cat[c].left # cat[d].left
                                           /\ cat[c].right # cat[d].right
    BY <2>1, <2>2, IdleNumbers DEF Nested, Apart
  <2>4. \A c \in Existing : /\ cat[c].left \in 1..cat[Root].right
                            /\ cat[c].right \in 1..cat[Root].right
    <3>1. Root \in Existing
      BY CategoryAssumption DEF TypeOK, Existing
    <3> QED
      BY <2>1, <2>2, <3>1 DEF Dense
  <2> QED
    BY <2>1, <2>3, <2>4 DEF Dense
<1> QED
  BY <1>1, <1>2, NestedSetsInit, TreeStep, NumbersDenseStep, PTL DEF HSpec

-----------------------------------------------------------------------------
(* The depth of a category *)

\* Levels, of finite sets of categories.
Counted == Levels /\ \A c \in Existing : IsFiniteSet(ancestors[c])

\* What a step does to the categories that exist: none goes or gets others above
\* it, and its numbers never fall.
LEMMA TreeGrows ==
    ASSUME TypeOK, [HNext]_hvars, NEW d \in Existing
    PROVE  /\ d \in Existing' /\ ancestors'[d] = ancestors[d]
           /\ cat'[d].dept = cat[d].dept
           /\ cat'[d].left \in Nat /\ cat'[d].right \in Nat
           /\ cat[d].left <= cat'[d].left /\ cat[d].right <= cat'[d].right
<1>1. d \in Categories /\ Exists(d) /\ cat[d].left \in Nat /\ cat[d].right \in Nat
  BY Numbers DEF Existing
<1>2. ancestors'[d] = ancestors[d]
  BY <1>1 DEF HNext, HServe, HCrash, Record, hvars, history
<1>3. ASSUME cat'[d] = cat[d]
      PROVE  /\ d \in Existing' /\ cat'[d].dept = cat[d].dept
             /\ cat'[d].left \in Nat /\ cat'[d].right \in Nat
             /\ cat[d].left <= cat'[d].left /\ cat[d].right <= cat'[d].right
  BY <1>1, <1>3 DEF Existing, Exists
<1>4. ASSUME NEW h \in Handlers, Create(h)
      PROVE  /\ d \in Existing' /\ cat'[d].dept = cat[d].dept
             /\ cat'[d].left \in Nat /\ cat'[d].right \in Nat
             /\ cat[d].left <= cat'[d].left /\ cat[d].right <= cat'[d].right
  <2>1. ASSUME NEW c \in Categories, MoveRight(h, c) \/ MoveLeft(h, c), c = d
        PROVE  /\ cat'[d] \in Doc /\ cat'[d].dept = cat[d].dept
               /\ cat[d].left <= cat'[d].left /\ cat[d].right <= cat'[d].right
    <3>1. /\ cat'[c] \in Doc /\ cat'[c].dept = cat[c].dept
          /\ cat'[c].left \in {cat[c].left, cat[c].left + 2}
          /\ cat'[c].right \in {cat[c].right, cat[c].right + 2}
      BY <2>1, RightMoved, LeftMoved
    <3> QED
      BY <1>1, <2>1, <3>1
  <2>2. ASSUME NEW c \in Categories, c # d,
               MoveRight(h, c) \/ MoveLeft(h, c) \/ Insert(h, c)
        PROVE  cat'[d] = cat[d]
    BY <1>1, <2>2, RightMoved, LeftMoved, Inserted DEF OthersKept
  <2>3. ASSUME NEW c \in Categories, Insert(h, c) PROVE c # d
    BY <2>3, Inserted
  <2>4. ASSUME NEW c \in Categories, ReadParent(h, c) \/ RightsMoved(h) \/ LeftsMoved(h)
        PROVE  cat' = cat
    BY <2>4 DEF ReadParent, RightsMoved, LeftsMoved
  <2>5. CASE cat'[d] # cat[d]
    <3>1. /\ cat'[d] \in Doc /\ cat'[d].dept = cat[d].dept
          /\ cat[d].left <= cat'[d].left /\ cat[d].right <= cat'[d].right
      BY <1>1, <1>4, <2>1, <2>2, <2>3, <2>4, <2>5 DEF Create
    <3> QED
      BY <1>1, <3>1, DocNotNone DEF Doc, Existing, Exists
  <2> QED
    BY <1>3, <2>5
<1>5. CASE HCrash \/ UNCHANGED hvars
  BY <1>2, <1>3, <1>5 DEF HCrash, Crash, hvars, vars
<1> QED
  BY <1>2, <1>3, <1>4, <1>5 DEF HNext, HServe, Serve

\* Every step keeps the levels counted, overlapping creates too: the depth a
\* create has read of the parent never changes.
LEMMA CountedStep == TypeOK /\ TypeOK' /\ Counted /\ [HNext]_hvars => Counted'
<1> SUFFICES ASSUME TypeOK, TypeOK', Counted, [HNext]_hvars PROVE Counted'
  OBVIOUS
<1>1. \A c \in Existing : /\ c \in Existing' /\ ancestors'[c] = ancestors[c]
                          /\ cat'[c].dept = cat[c].dept
  BY TreeGrows
<1>2. ASSUME NEW c \in Existing
      PROVE  /\ ancestors'[c] \subseteq Existing' \ {c}
             /\ cat'[c].dept = Cardinality(ancestors'[c])
             /\ IsFiniteSet(ancestors'[c])
  BY <1>1 DEF Counted, Levels
<1>3. ASSUME NEW g \in Handlers, req'[g].pc # "idle", req[g].pc # "idle",
             req'[g].category = req[g].category, req'[g].dept = req[g].dept
      PROVE  req'[g].dept = cat'[req'[g].category].dept
  <2>1. req[g].category \in Existing
    BY <1>3, RequestFields DEF TypeOK, Existing
  <2> QED
    BY <1>1, <1>3, <2>1 DEF Counted, Levels
<1>4. ASSUME Existing' = Existing,
             \A g \in Handlers : req'[g].pc # "idle" =>
                req'[g].dept = cat'[req'[g].category].dept
      PROVE  Counted'
  BY <1>2, <1>4 DEF Counted, Levels
<1>5. ASSUME NEW h \in Handlers, Create(h), Record PROVE Counted'
  <2>1. ASSUME NEW p \in Categories, ReadParent(h, p) PROVE Counted'
    <3>1. Existing' = Existing /\ Others(h)
          /\ req'[h].dept = cat'[req'[h].category].dept
      BY <2>1, ParentRead DEF Existing, Exists
    <3> QED
      BY <1>3, <1>4, <3>1 DEF Others
  <2>2. CASE Keeps(h)
    <3>1. Existing' = Existing
      BY <1>5, <2>2, RecordNothing DEF Keeps
    <3>2. /\ Others(h) /\ req'[h].category = req[h].category
          /\ req'[h].dept = req[h].dept /\ req[h].pc # "idle"
      BY <2>2 DEF Keeps, Continues, Creating
    <3> QED
      BY <1>3, <1>4, <3>1, <3>2 DEF Others
  <2>3. ASSUME NEW n \in Categories, Insert(h, n) PROVE Counted'
    <3> DEFINE p == req[h].category
    <3>1. /\ n \notin Existing /\ OthersKept(n) /\ cat'[n] \in Doc
          /\ cat'[n].parentId = p /\ cat'[n].dept = req[h].dept + 1
          /\ req[h].pc = "insert" /\ req'[h].pc = "idle" /\ Others(h)
      BY <2>3, Inserted, RequestFields
    <3>2. p \in Existing /\ p # None /\ Existing \subseteq Categories
      BY <3>1, Numbers, CategoryAssumption DEF Creating, Existing
    <3>3. Existing' = Existing \cup {n}
      BY <3>1, <3>2, DocNotNone DEF OthersKept, Existing, Exists
    <3>4. ancestors'[n] = ancestors[p] \cup {p}
      BY <1>5, <3>1, <3>2, DocNotNone DEF Record, Existing, Exists
    <3>5. /\ ancestors[p] \subseteq Existing \ {p} /\ IsFiniteSet(ancestors[p])
          /\ cat[p].dept = Cardinality(ancestors[p]) /\ req[h].dept = cat[p].dept
      BY <3>1, <3>2 DEF Counted, Levels
    <3> HIDE DEF p
    <3>6. /\ ancestors'[n] \subseteq Existing' \ {n} /\ IsFiniteSet(ancestors'[n])
          /\ cat'[n].dept = Cardinality(ancestors'[n])
      <4>1. p \notin ancestors[p]
        BY <3>5
      <4>2. /\ IsFiniteSet(ancestors[p] \cup {p})
            /\ Cardinality(ancestors[p] \cup {p}) = Cardinality(ancestors[p]) + 1
        BY <3>5, <4>1, FS_AddElement
      <4> QED
        BY <3>1, <3>2, <3>3, <3>4, <3>5, <4>2
    <3>7. ASSUME NEW g \in Handlers, req'[g].pc # "idle"
          PROVE  req'[g].dept = cat'[req'[g].category].dept
      BY <1>3, <3>1, <3>7 DEF Others
    <3> QED
      BY <1>2, <3>3, <3>6, <3>7 DEF Counted, Levels
  <2> QED
    BY <1>5, <2>1, <2>2, <2>3, MoveRightKeeps, MoveLeftKeeps, PassKeeps DEF Create
<1>6. CASE HCrash
  BY <1>4, <1>6, RequestFields DEF HCrash, Crash, Existing, Exists
<1>7. CASE UNCHANGED hvars
  BY <1>3, <1>4, <1>7 DEF hvars, vars, Existing, Exists
<1> QED
  BY <1>5, <1>6, <1>7 DEF HNext, HServe, Serve

LEMMA CountedInit == HInit => Counted
<1> SUFFICES ASSUME HInit PROVE Counted
  OBVIOUS
<1>1. /\ \A c \in Existing : c = Root /\ c \in Categories
      /\ ancestors = [c \in Categories |-> {}] /\ cat[Root].dept = 0
      /\ \A h \in Handlers : req[h].pc = "idle"
  BY CategoryAssumption, RequestFields DEF HInit, Init, Existing, Exists
<1> QED
  BY <1>1, FS_EmptySet DEF Counted, Levels

\* The depth stored of a category is the number of categories above it, for any
\* number of creates at a time and whatever a crash cuts off (category.service.ts,
\* create): the depth findChildren selects by is right where the numbers are not.
THEOREM DepthsAreLevels == HSpec => []Levels
<1>1. [HNext]_hvars => [Next]_vars
  BY DEF HNext, HServe, HCrash, hvars, Next
<1>2. TypeOK /\ Counted /\ [HNext]_hvars => (TypeOK /\ Counted)'
  BY <1>1, TypeStep, CountedStep
<1>3. Counted => Levels
  BY DEF Counted
<1> QED
  BY <1>2, <1>3, NestedSetsInit, CountedInit, PTL DEF HSpec

-----------------------------------------------------------------------------
(* The tree below the listings *)

\* Listings and products leave the tree alone.
LEMMA TreeFollows ==
    /\ CHInit => HInit
    /\ [CHNext]_chvars => [HNext]_hvars
<1>1. CHInit => HInit
  BY DEF CHInit
<1>2. Browse /\ UNCHANGED history => UNCHANGED hvars
  BY DEF Browse, CreateProduct, List, FindAll, FindById, FindChildren, FindSubtree,
         Count, TakePage, hvars, vars
<1>3. [CHNext]_chvars => [HNext]_hvars
  BY <1>2 DEF CHNext, HNext, chvars, hvars
<1> QED
  BY <1>1, <1>3

-----------------------------------------------------------------------------
(* Types of the catalogue *)

\* The idle listing, and one that begins, are listings.
LEMMA ListingsBegin ==
    /\ NoListing \in Listings /\ NoListing.category = None /\ NoListing.data = {}
    /\ NoListing.pc = "idle"
    /\ Listing("count", None, 0, 0, Categories) \in Listings
    /\ \A c \in Categories, left, right \in Nat :
            Listing("children", c, left, right, {}) \in Listings
<1>1. Cardinality(Products) \in Nat
  BY CatalogueAssumption, FS_CardinalityType
<1> QED
  BY <1>1, CatalogueAssumption DEF NoListing, Listing, Listings

\* The sets of products counted are finite and not larger than all.
LEMMA Counts ==
    ASSUME NEW ids
    PROVE  /\ IsFiniteSet(Wanted(ids))
           /\ Cardinality(Wanted(ids)) \in 0..Cardinality(Products)
BY CatalogueAssumption, FS_Subset, FS_CardinalityType DEF Wanted

\* Every step keeps the types.
LEMMA CatalogueTypeStep ==
    CatalogueTypeOK /\ [CHNext]_chvars => CatalogueTypeOK'
<1> SUFFICES ASSUME CatalogueTypeOK, [CHNext]_chvars PROVE CatalogueTypeOK'
  OBVIOUS
<1>0. /\ TypeOK
      /\ product \in [Products -> Categories \cup {None}]
      /\ listing \in [Listers -> Listings]
      /\ \A p \in Products : product[p] # None => Exists(product[p])
      /\ \A g \in Listers :
            /\ listing[g] \in Listings
            /\ listing[g].ids \subseteq Categories
            /\ listing[g].category # None => /\ Exists(listing[g].category)
                                             /\ listing[g].ids \subseteq Existing
            /\ listing[g].pc \in {"children", "found"} => listing[g].category # None
            /\ listing[g].pc # "answered" => listing[g].data = {}
            /\ listing[g].data \subseteq Wanted(listing[g].ids)
  BY DEF CatalogueTypeOK, Listings
<1>1. TypeOK'
  <2>1. [HNext]_hvars => [Next]_vars
    BY DEF HNext, HServe, HCrash, hvars, Next
  <2> QED
    BY <1>0, <2>1, TreeFollows, TypeStep
<1>2. Existing \subseteq Existing' /\ \A c \in Categories : Exists(c) => Exists(c)'
  BY <1>0, TreeFollows, TreeGrows DEF Existing
<1>3. ASSUME NEW p \in Products, NEW c \in Categories, CreateProduct(p, c)
      PROVE  CatalogueTypeOK'
  <2>0. product' = [product EXCEPT ![p] = c] /\ Exists(c) /\ product[p] = None
        /\ listing' = listing /\ cat' = cat
    BY <1>3 DEF CreateProduct
  <2>1. /\ product' \in [Products -> Categories \cup {None}]
        /\ \A q \in Products : product'[q] # None => cat'[product'[q]] # None
    BY <1>0, <2>0 DEF Exists
  <2>2. ASSUME NEW g \in Listers PROVE listing'[g].data \subseteq Wanted(listing[g].ids)'
    <3>1. listing[g].ids \subseteq Categories /\ None \notin Categories
      BY <1>0, CategoryAssumption
    <3>2. p \notin Wanted(listing[g].ids)
      BY <1>0, <2>0, <3>1 DEF Wanted
    <3>3. \A q \in Products : q # p => product'[q] = product[q]
      BY <1>0, <2>0
    <3> QED
      BY <1>0, <2>0, <3>2, <3>3 DEF Wanted
  <2>3. listing' = listing /\ Existing' = Existing
        /\ \A c1 \in Categories : Exists(c1)' <=> Exists(c1)
    BY <2>0 DEF Existing, Exists
  <2>4. ASSUME NEW g \in Listers, listing[g].category # None
        PROVE  Exists(listing[g].category)'
    BY <1>0, <2>0, <2>4 DEF Exists
  <2> QED
    BY <1>0, <1>1, <2>1, <2>2, <2>3, <2>4 DEF CatalogueTypeOK, Exists
<1>4. ASSUME NEW g \in Listers, NEW l \in Listings, Put(g, l),
             UNCHANGED <<cat, req, product>>,
             l.category # None => Exists(l.category) /\ l.ids \subseteq Existing,
             l.pc \in {"children", "found"} => l.category # None,
             l.pc # "answered" => l.data = {},
             l.data \subseteq Wanted(l.ids)
      PROVE  CatalogueTypeOK'
  <2>1. /\ listing' \in [Listers -> Listings]
        /\ \A i \in Listers : listing'[i] = IF i = g THEN l ELSE listing[i]
    BY <1>0, <1>4 DEF Put
  <2>2. ASSUME NEW i \in Listers
        PROVE  /\ listing'[i].category # None =>
                    Exists(listing[i].category)' /\ listing'[i].ids \subseteq Existing'
               /\ listing'[i].pc \in {"children", "found"} => listing'[i].category # None
               /\ listing'[i].pc # "answered" => listing'[i].data = {}
               /\ listing'[i].data \subseteq Wanted(listing[i].ids)'
    <3>1. CASE i = g
      BY <1>4, <2>1, <3>1 DEF Exists, Existing, Wanted
    <3>2. CASE i # g
      BY <1>0, <1>4, <2>1, <3>2 DEF Exists, Existing, Wanted
    <3> QED
      BY <3>1, <3>2
  <2>3. product' = product /\ \A p \in Products : product[p] # None => Exists(product[p])'
    BY <1>0, <1>4 DEF Exists
  <2> QED
    BY <1>0, <1>1, <2>1, <2>2, <2>3 DEF CatalogueTypeOK
<1>5. ASSUME NEW g \in Listers, List(g)
      PROVE  CatalogueTypeOK'
  <2> DEFINE l == listing[g]
  <2>1. l \in Listings
    BY <1>0
  <2>2. CASE FindAll(g)
    BY <1>4, <2>2, ListingsBegin DEF FindAll, Listing, Wanted
  <2>3. ASSUME NEW c \in Categories, FindById(g, c) PROVE CatalogueTypeOK'
    <3>1. cat[c].left \in Nat /\ cat[c].right \in Nat
      BY <1>0, <2>3, Numbers DEF FindById, Existing
    <3> QED
      BY <1>4, <2>3, <3>1, ListingsBegin, CategoryAssumption
         DEF FindById, Listing, Wanted
  <2>4. CASE FindSubtree(g)
    <3> DEFINE found == [l EXCEPT !.pc = "count", !.ids = WithItsCategory(l),
                                  !.left = 0, !.right = 0]
    <3>1. WithItsCategory(l) \subseteq Existing \cup {l.category}
      BY DEF WithItsCategory, Subtree, Existing
    <3>2. found \in Listings /\ found.category = l.category
          /\ found.ids = WithItsCategory(l) /\ found.data = l.data
          /\ found.pc = "count"
      <4>1. WithItsCategory(l) \in SUBSET Categories
        BY <1>0, <2>1, <2>4, <3>1 DEF FindSubtree, Listed, Existing, Listings
      <4> QED
        BY <2>1, <4>1 DEF Listings
    <3> QED
      <4>1. l.category \in Existing /\ l.data = {}
        BY <1>0, <2>1, <2>4 DEF FindSubtree, Listed, Existing, Listings
      <4>2. Put(g, found) /\ UNCHANGED <<cat, req, product>>
        BY <2>4 DEF FindSubtree
      <4> HIDE DEF found
      <4> QED
        BY <1>4, <3>1, <3>2, <4>1, <4>2 DEF Existing
  <2>5. ASSUME NEW dept \in 0..MaxDepth, FindChildren(g, dept) PROVE CatalogueTypeOK'
    <3> DEFINE ids == {d \in Subtree(l.left, l.right) : cat[d].dept <= dept}
               found == [l EXCEPT !.pc = "found", !.dept = dept, !.left = 0,
                                  !.right = 0, !.ids = ids]
    <3>1. ids \subseteq Existing /\ Existing \subseteq Categories
      BY DEF Subtree, Existing
    <3>2. found \in Listings /\ found.category = l.category
          /\ found.ids = ids /\ found.data = l.data /\ found.pc = "found"
      BY <2>1, <3>1 DEF Listings
    <3> QED
      <4>1. l.category \in Existing /\ l.category # None /\ l.data = {}
        BY <1>0, <2>1, <2>5 DEF FindChildren, Listed, Existing, Listings
      <4>2. Put(g, found) /\ UNCHANGED <<cat, req, product>>
        BY <2>5 DEF FindChildren
      <4> HIDE DEF found, ids
      <4> QED
        BY <1>4, <3>1, <3>2, <4>1, <4>2 DEF Existing
  <2>6. CASE Count(g)
    <3> DEFINE counted == [l EXCEPT !.pc = "page",
                                    !.total = Cardinality(Wanted(l.ids))]
    <3>1. counted \in Listings
      BY <2>1, Counts DEF Listings
    <3>2. /\ counted.category = l.category /\ counted.ids = l.ids
          /\ counted.data = l.data /\ counted.pc = "page"
      BY <2>1 DEF Listings
    <3> QED
      BY <1>0, <1>4, <2>6, <3>1, <3>2 DEF Count, Listed
  <2>7. ASSUME NEW page \in 1..MaxPage, TakePage(g, page) PROVE CatalogueTypeOK'
    <3>1. PICK data \in SUBSET Wanted(l.ids) :
            Put(g, [l EXCEPT !.pc = "answered", !.page = page, !.data = data])
      BY <2>7 DEF TakePage
    <3> DEFINE answer == [l EXCEPT !.pc = "answered", !.page = page, !.data = data]
    <3>2. answer \in Listings
      <4>1. page \in 0..MaxPage /\ data \in SUBSET Products
        BY CatalogueAssumption DEF Wanted
      <4> QED
        BY <2>1, <4>1 DEF Listings
    <3>3. /\ answer.category = l.category /\ answer.ids = l.ids
          /\ answer.data = data /\ answer.pc = "answered"
      BY <2>1 DEF Listings
    <3> QED
      BY <1>0, <1>4, <2>7, <3>1, <3>2, <3>3 DEF TakePage
  <2> QED
    BY <1>5, <2>2, <2>3, <2>4, <2>5, <2>6, <2>7 DEF List
<1>6. ASSUME HServe, UNCHANGED <<product, listing>>
      PROVE  CatalogueTypeOK'
  BY <1>0, <1>1, <1>2, <1>6 DEF CatalogueTypeOK, Listings, Wanted
<1>7. CASE HCrash /\ listing' = [g \in Listers |-> NoListing] /\ UNCHANGED product
  BY <1>0, <1>1, <1>2, <1>7, ListingsBegin DEF CatalogueTypeOK, Wanted
<1>8. CASE UNCHANGED chvars
  BY <1>0, <1>1, <1>8 DEF CatalogueTypeOK, chvars, hvars, vars, Exists, Existing, Wanted
<1> QED
  BY <1>3, <1>5, <1>6, <1>7, <1>8 DEF CHNext, Browse

\* No listing is there at the start.
LEMMA CatalogueTypeInit == CHInit => CatalogueTypeOK
BY TreeFollows, NestedSetsInit, ListingsBegin
   DEF CHInit, CInit, CatalogueTypeOK, Wanted

\* The products, listings and what listings answer have the declared types,
\* for any number of products, listings and creates at a time.
THEOREM CatalogueTypeCorrect == CHSpec => []CatalogueTypeOK
BY CatalogueTypeInit, CatalogueTypeStep, PTL DEF CHSpec

-----------------------------------------------------------------------------
(* What a query finds with numbers read at the same instant *)

\* A create under way, or none, moves numbers by two at most, and keeps the order
\* of those it moves all or none of.
LEMMA AfterOrder ==
    ASSUME TypeOK, NEW r \in Requests, NEW c \in Existing, NEW d \in Existing
    PROVE  /\ cat[c].left \in Nat /\ cat[c].right \in Nat
           /\ LeftAfter(r, c) \in {cat[c].left, cat[c].left + 2}
           /\ RightAfter(r, c) \in {cat[c].right, cat[c].right + 2}
           /\ r.pc # "rights" => RightAfter(r, c) = cat[c].right
           /\ r.pc # "lefts" =>
                (LeftAfter(r, c) < LeftAfter(r, d) <=> cat[c].left < cat[d].left)
           /\ ~RightsTorn(r, c) /\ RightAfter(r, d) < RightAfter(r, c)
                => cat[d].right < cat[c].right
           /\ ~LeftsTorn(r, c) /\ LeftAfter(r, c) < LeftAfter(r, d)
                => cat[c].left < cat[d].left
<1>1. /\ cat[c].left \in Nat /\ cat[c].right \in Nat
      /\ cat[d].left \in Nat /\ cat[d].right \in Nat
      /\ c \in Categories /\ Exists(c) /\ d \in Categories /\ Exists(d)
  BY Numbers DEF Existing
<1>2. r.right \in Nat
  BY RequestFields DEF Requests, Idle, Request
<1>3. /\ LeftAfter(r, c) \in {cat[c].left, cat[c].left + 2}
      /\ RightAfter(r, c) \in {cat[c].right, cat[c].right + 2}
      /\ r.pc # "rights" => RightAfter(r, c) = cat[c].right
  BY <1>1, <1>2 DEF LeftAfter, RightAfter, MovedLeft, MovedRight
<1>4. r.pc # "lefts" =>
        (LeftAfter(r, c) < LeftAfter(r, d) <=> cat[c].left < cat[d].left)
  BY <1>1, <1>2 DEF LeftAfter, MovedLeft
<1>5. ~RightsTorn(r, c) /\ RightAfter(r, d) < RightAfter(r, c)
        => cat[d].right < cat[c].right
  BY <1>1, <1>2 DEF RightsTorn, SelectsRight, RightAfter, MovedRight
<1>6. ~LeftsTorn(r, c) /\ LeftAfter(r, c) < LeftAfter(r, d)
        => cat[c].left < cat[d].left
  BY <1>1, <1>2 DEF LeftsTorn, LeftAfter, MovedLeft
<1> QED
  BY <1>1, <1>3, <1>4, <1>5, <1>6

\* It finds no other than descendants, and misses one only for the kind of
\* number that is torn.
LEMMA Snapshot ==
    ASSUME TypeOK, NEW r \in Requests, Nested(r), NEW c \in Existing, NEW d \in Existing
    PROVE  /\ Within(d, cat[c].left, cat[c].right) => c \in ancestors[d]
           /\ c \in ancestors[d] =>
                /\ ~LeftsTorn(r, c) => cat[c].left < cat[d].left
                /\ ~RightsTorn(r, c) => cat[d].right < cat[c].right
<1>1. /\ cat[c].left \in Nat /\ cat[c].right \in Nat
      /\ cat[d].left \in Nat /\ cat[d].right \in Nat
      /\ LeftAfter(r, c) \in {cat[c].left, cat[c].left + 2}
      /\ RightAfter(r, c) \in {cat[c].right, cat[c].right + 2}
      /\ LeftAfter(r, d) \in {cat[d].left, cat[d].left + 2}
      /\ RightAfter(r, d) \in {cat[d].right, cat[d].right + 2}
  BY AfterOrder
<1>2. /\ r.pc # "rights" => /\ RightAfter(r, c) = cat[c].right
                            /\ RightAfter(r, d) = cat[d].right
      /\ r.pc # "lefts" =>
            (LeftAfter(r, c) < LeftAfter(r, d) <=> cat[c].left < cat[d].left)
      /\ ~RightsTorn(r, c) /\ RightAfter(r, d) < RightAfter(r, c)
            => cat[d].right < cat[c].right
      /\ ~LeftsTorn(r, c) /\ LeftAfter(r, c) < LeftAfter(r, d)
            => cat[c].left < cat[d].left
  BY AfterOrder
<1>3. /\ LeftAfter(r, c) < RightAfter(r, c) /\ LeftAfter(r, d) < RightAfter(r, d)
      /\ c # d => Apart(LeftAfter(r, c), RightAfter(r, c),
                        LeftAfter(r, d), RightAfter(r, d))
      /\ c \in ancestors[d] <=> (/\ LeftAfter(r, c) < LeftAfter(r, d)
                                 /\ RightAfter(r, d) < RightAfter(r, c))
  BY DEF Nested, Inside
<1>4. ASSUME Within(d, cat[c].left, cat[c].right) PROVE c \in ancestors[d]
  <2>1. c # d /\ cat[c].left < cat[d].left /\ cat[d].right < cat[c].right
    BY <1>1, <1>4 DEF Within
  <2>2. CASE r.pc # "lefts"
    BY <1>1, <1>2, <1>3, <2>1, <2>2 DEF Apart
  <2>3. CASE r.pc # "rights"
    BY <1>1, <1>2, <1>3, <2>1, <2>3 DEF Apart
  <2> QED
    BY <2>2, <2>3
<1>5. ASSUME c \in ancestors[d]
      PROVE  /\ ~LeftsTorn(r, c) => cat[c].left < cat[d].left
             /\ ~RightsTorn(r, c) => cat[d].right < cat[c].right
  BY <1>2, <1>3, <1>5
<1> QED
  BY <1>4, <1>5

\* There is a create, or none, whose moves leave the categories nested.
LEMMA Foreseen ==
    ASSUME NestedSets, spoilt = {}
    PROVE  \E r \in Requests : Nested(r) /\ (r = Idle \/ r \in Open)
<1>1. CASE Open = {}
  BY <1>1, RequestFields DEF NestedSets, Settled
<1>2. CASE Open # {}
  BY <1>2 DEF NestedSets
<1> QED
  BY <1>1, <1>2

LEMMA NothingTorn == \A c : ~LeftsTorn(Idle, c) /\ ~RightsTorn(Idle, c)
BY RequestFields DEF LeftsTorn, RightsTorn

-----------------------------------------------------------------------------
(* A listing between its reads of the tree *)

\* The query of the second read, with the numbers of the first.
Finds(g, d) == Within(d, listing[g].left, listing[g].right)

\* Request r has moved left numbers, and is to insert between those of the first
\* read only below the category or its ancestors.
Expected(g, r) ==
    (r.pc = "insert" \/ (r.pc = "lefts" /\ r.moved # {})) =>
        /\ listing[g].left < r.right => LeftAfter(r, Of(g)) < r.right
        /\ r.pc = "lefts" => /\ lefts[g] = 1
                             /\ LeftAfter(r, Of(g)) <= listing[g].left + 2

\* What the first read has to do with the tree until the second.
BetweenReads(g) ==
    LET c == Of(g)
        l == listing[g]
    IN  /\ l.left <= cat[c].left /\ l.right <= cat[c].right
        /\ g \notin torn => /\ l.right = cat[c].right
                            /\ \A r \in Open : ~RightsTorn(r, c)
        /\ lefts[g] = 0 => l.left = cat[c].left
        /\ lefts[g] < 2 => /\ \A d \in Existing : Finds(g, d) => c \in ancestors[d]
                           /\ \A h \in Handlers : Expected(g, req[h])

Shallow(ds, dept) == {d \in ds : cat[d].dept <= dept}

\* What findChildren answers, and what the product search goes on with.
Answered(g) ==
    LET l == listing[g] IN
    /\ lefts[g] < 2 => l.ids \subseteq Shallow(Descendants(Of(g)), l.dept)
    /\ g \notin torn => Shallow(due[g], l.dept) \subseteq l.ids

Chosen(g) ==
    /\ lefts[g] < 2 => listing[g].ids \subseteq {Of(g)} \cup Descendants(Of(g))
    /\ g \notin torn => {Of(g)} \cup due[g] \subseteq listing[g].ids

WellListed(g) == Of(g) # None =>
    /\ due[g] \subseteq Descendants(Of(g))
    /\ Listed(g, "children") => BetweenReads(g)
    /\ Listed(g, "found") => Answered(g)
    /\ listing[g].pc \in {"count", "page", "answered"} => Chosen(g)

AllWellListed == spoilt = {} => \A g \in Listers : WellListed(g)

HistoryTyped == /\ due \in [Listers -> SUBSET Categories]
                /\ torn \subseteq Listers
                /\ lefts \in [Listers -> 0..2]

LEMMA HistoryTypedStep ==
    CatalogueTypeOK /\ HistoryTyped /\ [CHNext]_chvars => HistoryTyped'
<1> SUFFICES ASSUME CatalogueTypeOK, HistoryTyped, [CHNext]_chvars PROVE HistoryTyped'
  OBVIOUS
<1> USE DEF HistoryTyped
<1>1. CASE RecordReads
  BY <1>1 DEF RecordReads, Descendants, Existing
<1>2. CASE RecordMoves
  BY <1>2 DEF RecordMoves
<1>3. CASE HCrash /\ due' = [g \in Listers |-> {}]
           /\ torn' = {} /\ lefts' = [g \in Listers |-> 0]
  BY <1>3
<1>4. CASE UNCHANGED chvars
  BY <1>4 DEF chvars
<1> QED
  BY <1>1, <1>2, <1>3, <1>4 DEF CHNext

\* A request whose listing is as it was finds what it found while the tree grows.
LEMMA AnswersKept ==
    ASSUME CatalogueTypeOK, NestedSets, spoilt = {}, [HNext]_hvars,
           NEW g \in Listers, WellListed(g), listing'[g] = listing[g],
           due'[g] = due[g], ~Listed(g, "children"),
           lefts'[g] = lefts[g], g \in torn' <=> g \in torn
    PROVE  WellListed(g)'
<1> SUFFICES ASSUME Of(g) # None PROVE WellListed(g)'
  BY DEF WellListed, Of
<1>1. TypeOK /\ \A d \in Existing : /\ d \in Existing' /\ ancestors'[d] = ancestors[d]
                                   /\ cat'[d].dept = cat[d].dept
  BY TreeGrows DEF CatalogueTypeOK
<1>2. Descendants(Of(g)) \subseteq Descendants(Of(g))'
  BY <1>1 DEF Descendants, Of
<1>3. due[g] \subseteq Existing /\ Descendants(Of(g)) \subseteq Existing
  BY DEF WellListed, Descendants
<1>4. /\ Shallow(Descendants(Of(g)), listing[g].dept)
            \subseteq Shallow(Descendants(Of(g)), listing[g].dept)'
      /\ Shallow(due[g], listing[g].dept)' \subseteq Shallow(due[g], listing[g].dept)
  BY <1>1, <1>2, <1>3 DEF Shallow
<1>5. Listed(g, "found")' => Answered(g)'
  BY <1>4 DEF WellListed, Answered, Listed, Of
<1>6. listing'[g].pc \in {"count", "page", "answered"} => Chosen(g)'
  BY <1>2 DEF WellListed, Chosen, Of
<1> QED
  BY <1>2, <1>5, <1>6 DEF WellListed, Listed, Of

\* The category of a listing, and its numbers.
LEMMA ListedCategory ==
    ASSUME CatalogueTypeOK, NEW g \in Listers, Of(g) # None
    PROVE  /\ TypeOK /\ Of(g) \in Existing /\ Of(g) \in Categories
           /\ cat[Of(g)].left \in Nat /\ cat[Of(g)].right \in Nat
           /\ listing[g].left \in Nat /\ listing[g].right \in Nat
<1>1. TypeOK /\ listing[g] \in Listings /\ Exists(Of(g))
  BY DEF CatalogueTypeOK, Of
<1>2. Of(g) \in Categories /\ listing[g].left \in Nat /\ listing[g].right \in Nat
  BY <1>1 DEF Listings, Of
<1> QED
  BY <1>1, <1>2, Numbers DEF Existing

-----------------------------------------------------------------------------
(* A create between the two reads *)

\* The requests but for that of h say nothing of the listings.
LEMMA OnlyOne ==
    ASSUME Undisturbed, NEW h \in Handlers, req[h].pc \in Creating \/ ~Underway,
           Others(h), NEW g \in Listers, Expected(g, req[h])'
    PROVE  \A k \in Handlers : Expected(g, req[k])'
<1>1. \A k \in Handlers : k # h => req'[k].pc \notin Creating
  BY Alone DEF Others, Underway
<1> QED
  BY <1>1 DEF Expected, Creating

\* The state the lemmas below begin with.
Reading(g, h) ==
    /\ CatalogueTypeOK /\ HistoryTyped /\ TypeOK' /\ Undisturbed
    /\ Of(g) # None /\ BetweenReads(g) /\ Listed(g, "children")
    /\ Record /\ UNCHANGED halved /\ RecordMoves /\ listing' = listing

\* A create begins, or goes on to its next step.
LEMMA ReadsThenBegins ==
    ASSUME NEW g \in Listers, NEW h \in Handlers, NEW p \in Categories,
           Reading(g, h), ReadParent(h, p), ~Underway, halved = {}
    PROVE  BetweenReads(g)'
<1>1. /\ Of(g) \in Existing /\ TypeOK
  BY ListedCategory DEF Reading
<1>2. /\ cat' = cat /\ Others(h) /\ req[h].pc = "idle"
      /\ req'[h].pc = "rights" /\ req'[h].moved = {}
  BY <1>1, ParentRead
<1>3. /\ Existing' = Existing
      /\ \A d \in Categories : ancestors'[d] = ancestors[d]
      /\ Existing \subseteq Categories
  BY <1>2, RecordNothing DEF Reading, Existing
<1>4. \A k \in Handlers : k # h => req'[k] = req[k] /\ req[k].pc \notin Creating
  BY <1>2 DEF Others, Underway
<1>5. Open' = {req'[h]}
  BY <1>2, <1>4, StaysAlone DEF Reading, Creating
<1>6. torn' = torn /\ lefts'[g] = lefts[g]
  BY <1>2, <1>4 DEF Reading, RecordMoves, Moving, At, HistoryTyped
<1>7. \A k \in Handlers : Expected(g, req[k])'
  BY <1>2, <1>4, OnlyOne DEF Reading, Expected
<1> QED
  BY <1>1, <1>2, <1>3, <1>5, <1>6, <1>7
     DEF Reading, BetweenReads, RightsTorn, Finds, Within, Of

LEMMA ReadsThenPass ==
    ASSUME NEW g \in Listers, NEW h \in Handlers, Reading(g, h),
           RightsMoved(h) \/ LeftsMoved(h)
    PROVE  BetweenReads(g)'
<1> DEFINE c == Of(g)
           b == req[h].right
<1>1. /\ c \in Existing /\ TypeOK /\ Undisturbed
      /\ cat[c].left \in Nat /\ listing[g].left \in Nat
  BY ListedCategory DEF Reading
<1>2. /\ cat' = cat /\ Keeps(h) /\ req[h].pc \in {"rights", "lefts"}
      /\ req'[h].moved = {} /\ req'[h].right = b /\ Others(h)
      /\ RightsMoved(h) => req[h].pc = "rights" /\ req'[h].pc = "lefts"
      /\ LeftsMoved(h) => req[h].pc = "lefts" /\ req'[h].pc = "insert"
  BY <1>1, PassEnded, PassKeeps DEF Continues
<1>3. /\ req[h].pc \in Creating /\ req'[h].pc \in Creating /\ b \in Nat
      /\ req[h] \in Requests
  BY <1>1, <1>2, Numbers DEF Creating
<1>4. /\ Existing' = Existing
      /\ \A d \in Categories : ancestors'[d] = ancestors[d]
      /\ Existing \subseteq Categories
  BY <1>2, RecordNothing DEF Reading, Existing, Keeps
<1>5. /\ halved = {} /\ \A k \in Handlers : k # h => req[k].pc \notin Creating
      /\ Room(req[h])
  BY <1>1, <1>3, Alone
<1>6. Open' = {req'[h]}
  BY <1>2, <1>3, <1>5, StaysAlone DEF Reading
<1>7. torn' = torn /\ lefts'[g] = lefts[g]
  BY <1>2 DEF Reading, RecordMoves, Moving, At, HistoryTyped, Others
<1>8. ASSUME lefts[g] < 2 PROVE Expected(g, req[h])'
  <2>1. CASE RightsMoved(h)
    BY <1>2, <2>1 DEF Expected
  <2>2. CASE LeftsMoved(h)
    <3>1. LeftAfter(req[h], c)' = LeftAfter(req[h], c)
      <4>1. \A d \in Existing : LeftAfter(req[h], d)' = LeftAfter(req[h], d)
        BY <1>2 DEF Keeps
      <4>2. Of(g)' = Of(g)
        BY DEF Reading, Of
      <4> QED
        BY <1>1, <4>1, <4>2 DEF LeftAfter
    <3>2. req[h].moved # {} =>
            (listing[g].left < b => LeftAfter(req[h], c) < b)
      BY <1>2, <1>8, <2>2 DEF Reading, BetweenReads, Expected
    <3>3. req[h].moved = {} => LeftAfter(req[h], c) < b
      <4>1. ~SelectsLeft(req[h], c) /\ Exists(c)
        BY <1>1, <2>2 DEF LeftsMoved, Existing
      <4>2. LeftAfter(req[h], c) # b
        BY <1>1, <1>5 DEF Room
      <4> QED
        BY <1>1, <1>3, <4>1, <4>2 DEF SelectsLeft, LeftAfter, MovedLeft
    <3> QED
      BY <1>2, <2>2, <3>1, <3>2, <3>3 DEF Expected, Reading, Of
  <2> QED
    BY <2>1, <2>2
<1>9. lefts[g] < 2 => \A k \in Handlers : Expected(g, req[k])'
  BY <1>1, <1>2, <1>3, <1>8, OnlyOne
<1> QED
  BY <1>1, <1>2, <1>4, <1>6, <1>7, <1>9
     DEF Reading, BetweenReads, RightsTorn, Finds, Within, Of

\* It moves a right number: the query finds no more than it did.
LEMMA ReadsThenRight ==
    ASSUME NEW g \in Listers, NEW h \in Handlers, NEW e \in Categories,
           Reading(g, h), MoveRight(h, e)
    PROVE  BetweenReads(g)'
<1> DEFINE c == Of(g)
<1>1. /\ c \in Existing /\ TypeOK /\ Undisturbed /\ h \in Handlers
      /\ cat[c].right \in Nat /\ listing[g].right \in Nat
  BY ListedCategory DEF Reading
<1>2. /\ e \in Existing /\ OthersKept(e)
      /\ cat'[e].left = cat[e].left /\ cat'[e].right = cat[e].right + 2
      /\ req[h].pc = "rights" /\ SelectsRight(req[h], e)
      /\ Continues(h, "rights", req[h].moved \cup {e}) /\ Keeps(h)
  BY <1>1, RightMoved, MoveRightKeeps
<1>3. /\ req'[h].pc = "rights" /\ req'[h].moved = req[h].moved \cup {e}
      /\ req'[h].right = req[h].right /\ Others(h) /\ e \notin req[h].moved
  BY <1>2 DEF Continues, SelectsRight
<1>4. /\ Existing' = Existing
      /\ \A d \in Categories : ancestors'[d] = ancestors[d]
      /\ Existing \subseteq Categories
  BY <1>2, RecordNothing DEF Reading, Existing, Keeps
<1>5. halved = {} /\ \A k \in Handlers : k # h => req[k].pc \notin Creating
  BY <1>1, <1>2, Alone DEF Creating
<1>6. Open' = {req'[h]}
  BY <1>3, <1>5, StaysAlone DEF Reading, Creating
<1>7. lefts'[g] = lefts[g]
  BY <1>2, <1>3 DEF Reading, RecordMoves, Moving, At, HistoryTyped, Others
<1>8. ASSUME g \notin torn'
      PROVE  g \notin torn /\ ~SelectsRight(req[h], c)
  <2>1. Moving(h, "rights")
    BY <1>2, <1>3 DEF Moving, At
  <2> QED
    BY <1>8, <2>1 DEF Reading, RecordMoves
<1>9. ASSUME g \notin torn'
      PROVE  cat'[c].right = cat[c].right /\ ~RightsTorn(req[h], c)'
  <2>1. c # e /\ c \in Categories
    BY <1>2, <1>4, <1>8, <1>9, <1>1
  <2>2. cat'[c] = cat[c]
    BY <1>2, <2>1 DEF OthersKept
  <2> QED
    BY <1>3, <1>8, <1>9, <2>1, <2>2 DEF Reading, RightsTorn, SelectsRight, Exists, Of
<1>10. \A d \in Existing : /\ cat'[d].left = cat[d].left
                           /\ cat[d].right \in Nat /\ cat[d].right <= cat'[d].right
  <2>1. ASSUME NEW d \in Existing
        PROVE  /\ cat'[d].left = cat[d].left
               /\ cat[d].right \in Nat /\ cat[d].right <= cat'[d].right
    BY <1>1, <1>2, <1>4, Numbers DEF OthersKept
  <2> QED
    BY <2>1
<1>11. \A d \in Existing : Finds(g, d)' => Finds(g, d)
  <2>1. ASSUME NEW d \in Existing, Finds(g, d)' PROVE Finds(g, d)
    <3>1. cat'[d].right \in Nat
      BY <1>4, Numbers DEF Reading, TypeOK, Existing, Exists, Doc
    <3> QED
      BY <1>1, <1>10, <2>1, <3>1 DEF Finds, Within, Reading
  <2> QED
    BY <2>1
<1>12. \A k \in Handlers : Expected(g, req[k])'
  BY <1>1, <1>2, <1>3, OnlyOne DEF Expected, Creating
<1>13. cat'[c].right \in Nat /\ cat'[c].left = cat[c].left
       /\ listing[g].right <= cat'[c].right
  <2>1. cat'[c].right \in Nat
    BY <1>1, <1>4 DEF Reading, TypeOK, Existing, Exists, Doc
  <2> QED
    BY <1>1, <1>10, <2>1 DEF Reading, BetweenReads
<1> QED
  BY <1>1, <1>4, <1>6, <1>7, <1>8, <1>9, <1>11, <1>12, <1>13
     DEF Reading, BetweenReads, Of

\* It moves a left number: if it is the first create to do so, the numbers of the
\* first read are at most two behind, which is too few for another category.
LEMMA ReadsThenLeft ==
    ASSUME NEW g \in Listers, NEW h \in Handlers, NEW e \in Categories,
           Reading(g, h), MoveLeft(h, e)
    PROVE  BetweenReads(g)'
<1> DEFINE c == Of(g)
           r == req[h]
           l == listing[g]
<1>1. /\ c \in Existing /\ TypeOK /\ Undisturbed
      /\ cat[c].left \in Nat /\ cat[c].right \in Nat
      /\ l.left \in Nat /\ l.right \in Nat
      /\ lefts[g] \in 0..2
  BY ListedCategory DEF Reading, HistoryTyped
<1>2. /\ e \in Existing /\ OthersKept(e)
      /\ cat'[e].left = cat[e].left + 2 /\ cat'[e].right = cat[e].right
      /\ r.pc = "lefts" /\ SelectsLeft(r, e)
      /\ Continues(h, "lefts", r.moved \cup {e}) /\ Keeps(h)
  BY <1>1, LeftMoved, MoveLeftKeeps
<1>3. /\ req'[h].pc = "lefts" /\ req'[h].moved = r.moved \cup {e}
      /\ req'[h].right = r.right /\ Others(h) /\ e \notin r.moved
  BY <1>2 DEF Continues, SelectsLeft
<1>4. /\ Existing' = Existing
      /\ \A d \in Categories : ancestors'[d] = ancestors[d]
      /\ Existing \subseteq Categories
  BY <1>2, RecordNothing DEF Reading, Existing, Keeps
<1>5. /\ halved = {} /\ \A k \in Handlers : k # h => req[k].pc \notin Creating
      /\ r \in Requests /\ Nested(r) /\ r.right \in Nat
  BY <1>1, <1>2, Alone, Numbers DEF Creating
<1>6. Open' = {req'[h]} /\ \A q \in Open' : q.pc = "lefts"
  BY <1>3, <1>5, StaysAlone DEF Reading, Creating
<1>7. /\ torn' = torn
      /\ lefts'[g] = IF lefts[g] < 2 /\ r.moved = {} THEN lefts[g] + 1 ELSE lefts[g]
  <2>1. Moving(h, "lefts") /\ \A k \in Handlers : ~Moving(k, "rights")
    BY <1>2, <1>3 DEF Moving, At, Others
  <2>2. (\E k \in Handlers : Moving(k, "lefts") /\ req[k].moved = {}) <=> r.moved = {}
    BY <1>3, <2>1 DEF Moving, Others
  <2> QED
    BY <2>1, <2>2 DEF Reading, RecordMoves
<1>8. ASSUME lefts'[g] < 2
      PROVE  /\ lefts[g] < 2 /\ lefts'[g] = 1
             /\ LeftAfter(r, c) <= l.left + 2
             /\ l.left < r.right => LeftAfter(r, c) < r.right
  <2>1. lefts[g] < 2
    BY <1>1, <1>7, <1>8
  <2>2. CASE r.moved = {}
    <3>1. l.left = cat[c].left /\ lefts'[g] = 1
      BY <1>1, <1>7, <1>8, <2>1, <2>2 DEF Reading, BetweenReads
    <3> QED
      BY <1>1, <1>2, <1>5, <2>1, <2>2, <3>1 DEF LeftAfter, MovedLeft
  <2>3. CASE r.moved # {}
    BY <1>2, <1>7, <2>1, <2>3 DEF Reading, BetweenReads, Expected
  <2> QED
    BY <2>2, <2>3
<1>9. lefts'[g] # 0
  BY <1>1, <1>7, <1>8
<1>10. ASSUME lefts'[g] < 2 PROVE \A k \in Handlers : Expected(g, req[k])'
  <2>1. LeftAfter(req[h], c)' = LeftAfter(req[h], c)
    <3>1. \A d \in Existing : LeftAfter(req[h], d)' = LeftAfter(req[h], d)
      BY <1>2 DEF Keeps
    <3>2. Of(g)' = Of(g)
      BY DEF Reading, Of
    <3> QED
      BY <1>1, <3>1, <3>2 DEF LeftAfter
  <2>2. Expected(g, req[h])'
    BY <1>3, <1>8, <1>10, <2>1 DEF Expected, Reading, Of
  <2> QED
    BY <1>1, <1>2, <1>3, <2>2, OnlyOne DEF Creating
<1>11. ASSUME NEW d \in Existing, Finds(g, d)', lefts'[g] < 2
       PROVE  c \in ancestors[d]
  <2>1. CASE d # e
    <3>1. cat'[d] = cat[d]
      BY <1>2, <1>4, <2>1 DEF OthersKept
    <3>2. Finds(g, d)
      BY <1>11, <3>1 DEF Finds, Within, Reading
    <3> QED
      BY <1>8, <1>11, <3>2 DEF Reading, BetweenReads
  <2>2. CASE d = e
    <3>1. /\ cat[e].left \in Nat /\ cat[e].right \in Nat
          /\ LeftAfter(r, e) = cat[e].left + 2 /\ RightAfter(r, e) = cat[e].right
          /\ RightAfter(r, c) = cat[c].right /\ LeftAfter(r, c) \in Nat
      <4>1. cat[e].left \in Nat /\ cat[e].right \in Nat
        BY <1>1, <1>2, Numbers
      <4>2. LeftAfter(r, e) = cat[e].left + 2
        BY <1>2 DEF LeftAfter, MovedLeft, SelectsLeft
      <4> QED
        BY <1>1, <1>2, <1>5, <4>1, <4>2, AfterNumbers
    <3>2. l.left < cat[e].left + 2 /\ cat[e].right < l.right /\ l.right <= cat[c].right
      BY <1>2, <1>11, <2>2 DEF Finds, Within, Reading, BetweenReads
    <3>3. e # c
      BY <1>1, <3>1, <3>2
    <3>4. /\ LeftAfter(r, e) < RightAfter(r, e)
          /\ Apart(LeftAfter(r, c), RightAfter(r, c), LeftAfter(r, e), RightAfter(r, e))
          /\ c \in ancestors[e] <=> Inside(r, e, c)
      BY <1>1, <1>2, <1>5, <3>3 DEF Nested
    <3>5. LeftAfter(r, c) <= l.left + 2
      BY <1>8, <1>11
    <3> HIDE DEF c, r, l
    <3>6. Inside(r, e, c)
      BY <1>1, <3>1, <3>2, <3>4, <3>5 DEF Apart, Inside
    <3> QED
      BY <2>2, <3>4, <3>6
  <2> QED
    BY <2>1, <2>2
<1>12. l.left <= cat'[c].left /\ cat'[c].right = cat[c].right
  <2>1. c = e \/ cat'[c] = cat[c]
    BY <1>1, <1>2, <1>4 DEF OthersKept
  <2> QED
    BY <1>1, <1>2, <2>1 DEF Reading, BetweenReads
<1>13. /\ l.right <= cat[c].right
       /\ g \notin torn => l.right = cat[c].right
  BY DEF Reading, BetweenReads
<1> QED
  BY <1>1, <1>4, <1>6, <1>7, <1>9, <1>10, <1>11, <1>12, <1>13
     DEF Reading, BetweenReads, RightsTorn, Of

\* It inserts: what the query finds of it is below the category, as there was room.
LEMMA ReadsThenInsert ==
    ASSUME NEW g \in Listers, NEW h \in Handlers, NEW n \in Categories,
           Reading(g, h), Insert(h, n)
    PROVE  BetweenReads(g)'
<1> DEFINE c == Of(g)
           r == req[h]
           l == listing[g]
<1>1. /\ c \in Existing /\ TypeOK /\ Undisturbed
      /\ cat[c].left \in Nat /\ cat[c].right \in Nat
      /\ l.left \in Nat /\ l.right \in Nat
  BY ListedCategory DEF Reading
<1>2. /\ n \notin Existing /\ OthersKept(n) /\ cat'[n] \in Doc
      /\ cat'[n].left = r.right /\ cat'[n].right = r.right + 1
      /\ cat'[n].parentId = r.category
      /\ r.pc = "insert" /\ req'[h].pc \notin Creating /\ Others(h)
  BY <1>1, Inserted, RequestFields DEF Creating
<1>3. /\ Existing \subseteq Categories /\ r.right \in Nat
      /\ r.category \in Existing /\ r.category # None
  BY <1>1, <1>2, Numbers, CategoryAssumption DEF Creating, Existing
<1>4. /\ Existing' = Existing \cup {n}
      /\ ancestors'[n] = ancestors[r.category] \cup {r.category}
      /\ \A d \in Existing : cat'[d] = cat[d] /\ ancestors'[d] = ancestors[d]
  <2>1. \A d \in Existing : cat'[d] = cat[d]
    BY <1>2, <1>3 DEF OthersKept
  <2>2. \A d \in Categories : cat'[d] # None <=> (cat[d] # None \/ d = n)
    BY <1>2, DocNotNone DEF OthersKept
  <2> QED
    BY <1>2, <1>3, <2>1, <2>2 DEF Reading, Record, Existing, Exists
<1>5. /\ halved = {} /\ \A k \in Handlers : req'[k].pc \notin Creating
      /\ r \in Requests /\ Room(r)
  BY <1>1, <1>2, Alone DEF Creating, Others
<1>6. Open' = {}
  BY <1>5 DEF Reading, Open
<1>7. torn' = torn /\ lefts'[g] = lefts[g]
  BY <1>2, <1>5 DEF Reading, RecordMoves, Moving, At, HistoryTyped, Creating
<1>8. \A k \in Handlers : Expected(g, req[k])'
  BY <1>5 DEF Expected, Creating
<1>9. ASSUME lefts[g] < 2, Finds(g, n)' PROVE c \in ancestors'[n]
  <2>1. l.left < r.right /\ r.right + 1 < l.right /\ l.right <= cat[c].right
    BY <1>2, <1>9 DEF Finds, Within, Reading, BetweenReads
  <2>2. LeftAfter(r, c) < r.right
    BY <1>2, <1>9, <2>1 DEF Reading, BetweenReads, Expected
  <2>3. RightAfter(r, c) = cat[c].right
    BY <1>1, <1>2, <1>5, AfterNumbers
  <2>4. r.right + 1 < RightAfter(r, c)
    BY <1>1, <1>3, <2>1, <2>3
  <2> QED
    BY <1>1, <1>4, <1>5, <2>2, <2>4 DEF Room
<1>10. ASSUME NEW d \in Existing, Finds(g, d)', lefts[g] < 2 PROVE c \in ancestors'[d]
  BY <1>4, <1>10 DEF Finds, Within, Reading, BetweenReads
<1> QED
  BY <1>1, <1>4, <1>6, <1>7, <1>8, <1>9, <1>10
     DEF Reading, BetweenReads, Of

-----------------------------------------------------------------------------
(* The steps of a listing *)

\* Whatever a create does, what is said of a listing stays so.
LEMMA ListingUnderCreate ==
    ASSUME CatalogueTypeOK, TypeOK', HistoryTyped, NestedSets, spoilt' = {},
           NEW h \in Handlers, Create(h), Record, RecordMoves,
           UNCHANGED <<halved, product, listing>>,
           NEW g \in Listers, WellListed(g)
    PROVE  WellListed(g)'
<1>1. spoilt = {} /\ TypeOK /\ Undisturbed /\ [HNext]_hvars
  BY NestedSetsUndisturbed DEF Record, CatalogueTypeOK, HNext, HServe, Serve
<1>2. due'[g] = due[g] /\ listing'[g] = listing[g]
  BY DEF RecordMoves
<1>3. CASE ~Listed(g, "children")
  BY <1>1, <1>2, <1>3, AnswersKept DEF RecordMoves, HistoryTyped
<1>4. CASE Listed(g, "children") /\ Of(g) # None
  <2>1. Reading(g, h)
    BY <1>1, <1>4 DEF Reading, WellListed
  <2>2. ASSUME NEW p \in Categories, ReadParent(h, p) PROVE BetweenReads(g)'
    <3>1. req[h].pc = "idle" /\ req'[h].pc = "rights"
      BY <1>1, <2>2, ParentRead
    <3>2. ~Underway /\ halved = {}
      BY <3>1 DEF Record
    <3> QED
      BY <2>1, <2>2, <3>2, ReadsThenBegins
  <2>3. BetweenReads(g)'
    BY <2>1, <2>2, ReadsThenRight, ReadsThenLeft, ReadsThenPass, ReadsThenInsert
       DEF Create
  <2>4. Descendants(Of(g)) \subseteq Descendants(Of(g))'
    BY <1>1, <1>2, TreeGrows DEF Descendants, Of
  <2> QED
    BY <1>2, <1>4, <2>3, <2>4 DEF WellListed, Of, Listed
<1>5. CASE Of(g) = None
  BY <1>2, <1>5 DEF WellListed, Of
<1> QED
  BY <1>3, <1>4, <1>5

\* What the first read finds.
LEMMA FirstRead ==
    ASSUME CatalogueTypeOK, HistoryTyped, NestedSets, spoilt = {},
           RecordReads, UNCHANGED history,
           NEW g \in Listers, NEW c \in Categories, FindById(g, c)
    PROVE  WellListed(g)'
<1>1. /\ TypeOK /\ c \in Existing /\ listing[g].pc # "children"
      /\ listing'[g] = Listing("children", c, cat[c].left, cat[c].right, {})
      /\ cat' = cat /\ req' = req /\ ancestors' = ancestors /\ halved' = halved
  BY DEF FindById, Ready, Put, Existing, CatalogueTypeOK, history
<1>2. /\ Begins(g) /\ listing'[g].category = c /\ listing'[g].pc = "children"
      /\ listing'[g].left = cat[c].left /\ listing'[g].right = cat[c].right
  BY <1>1 DEF Begins, Listed, Listing
<1>3. /\ cat[c].left \in Nat /\ cat[c].right \in Nat
      /\ Existing' = Existing /\ Open' = Open
      /\ Descendants(c)' = Descendants(c)
  BY <1>1, Numbers DEF Existing, Exists, Open, Descendants
<1>4. /\ due'[g] = Descendants(c)
      /\ g \notin torn' => \A r \in Open : ~RightsTorn(r, c)
      /\ lefts'[g] = IF \E h \in Handlers : At(h, "lefts") /\ req[h].moved # {}
                     THEN 1 ELSE 0
  BY <1>2 DEF RecordReads, TornReads
<1>5. ASSUME NEW d \in Existing, Within(d, cat[c].left, cat[c].right)
      PROVE  c \in ancestors[d]
  <2>1. PICK r \in Requests : Nested(r)
    BY Foreseen
  <2> QED
    BY <1>1, <1>5, <2>1, Snapshot
<1>6. ASSUME NEW h \in Handlers PROVE Expected(g, req[h])'
  <2>1. req[h].pc \in Creating => req[h] \in Requests /\ req[h].right \in Nat
    BY <1>1, Numbers
  <2>2. /\ req[h].pc = "insert" => LeftAfter(req[h], c) = cat[c].left
        /\ req[h].pc = "lefts" =>
            /\ LeftAfter(req[h], c) <= cat[c].left + 2
            /\ cat[c].left < req[h].right => LeftAfter(req[h], c) = cat[c].left
    BY <1>3, <2>1 DEF LeftAfter, MovedLeft, Creating
  <2>3. (req[h].pc = "lefts" /\ req[h].moved # {}) => lefts'[g] = 1
    BY <1>4 DEF At
  <2>4. LeftAfter(req[h], Of(g))' = LeftAfter(req[h], c)
    BY <1>1, <1>2 DEF LeftAfter, Of
  <2> QED
    BY <1>1, <1>2, <2>2, <2>3, <2>4 DEF Expected
<1>7. BetweenReads(g)'
  BY <1>1, <1>2, <1>3, <1>4, <1>5, <1>6
     DEF BetweenReads, Of, Finds, Within, RightsTorn, SelectsRight, Exists
<1> QED
  BY <1>2, <1>3, <1>4, <1>7 DEF WellListed, Of, Listed

\* What the second read finds: the query with the numbers of the first.
LEMMA SecondRead ==
    ASSUME CatalogueTypeOK, HistoryTyped, NestedSets, spoilt = {},
           RecordReads, UNCHANGED <<history, cat, req>>,
           NEW g \in Listers, WellListed(g), Searches(g)
    PROVE  LET S == Subtree(listing[g].left, listing[g].right)
           IN  /\ Of(g) \in Existing /\ S \subseteq Existing
               /\ due'[g] = due[g] /\ due[g] \subseteq Descendants(Of(g))
               /\ lefts'[g] = lefts[g]
               /\ lefts[g] < 2 => S \subseteq Descendants(Of(g))
               /\ g \notin torn' => due[g] \subseteq S
<1> DEFINE c == Of(g)
           l == listing[g]
<1>1. Of(g) # None /\ Listed(g, "children") /\ ~Begins(g)
  BY DEF CatalogueTypeOK, Searches, Begins, Listed, Of
<1>2. /\ TypeOK /\ c \in Existing /\ cat[c].left \in Nat /\ cat[c].right \in Nat
      /\ l.left \in Nat /\ l.right \in Nat
  BY <1>1, ListedCategory
<1>3. /\ due'[g] = due[g] /\ lefts'[g] = lefts[g]
      /\ g \notin torn' => g \notin torn /\ \A r \in Open : ~LeftsTorn(r, c)
  BY <1>1 DEF RecordReads, TornReads
<1>4. BetweenReads(g) /\ due[g] \subseteq Descendants(c)
  BY <1>1 DEF WellListed
<1>5. Subtree(l.left, l.right) = {d \in Existing : Finds(g, d)}
  BY DEF Subtree, Existing, Finds
<1>6. lefts[g] < 2 => Subtree(l.left, l.right) \subseteq Descendants(c)
  BY <1>4, <1>5 DEF BetweenReads, Descendants
<1>7. ASSUME g \notin torn', NEW d \in due[g] PROVE d \in Subtree(l.left, l.right)
  <2>1. PICK r \in Requests : Nested(r) /\ (r = Idle \/ r \in Open)
    BY Foreseen
  <2>2. ~LeftsTorn(r, c) /\ ~RightsTorn(r, c)
    BY <1>3, <1>4, <1>7, <2>1, NothingTorn DEF BetweenReads
  <2>3. d \in Existing /\ c \in ancestors[d]
    BY <1>4, <1>7 DEF Descendants
  <2>4. cat[c].left < cat[d].left /\ cat[d].right < cat[c].right
    BY <1>2, <2>1, <2>2, <2>3, Snapshot
  <2>5. l.left <= cat[c].left /\ l.right = cat[c].right
    BY <1>3, <1>4, <1>7 DEF BetweenReads
  <2>6. cat[d].left \in Nat
    BY <1>2, <2>3, Numbers
  <2> QED
    BY <1>2, <1>5, <2>3, <2>4, <2>5, <2>6 DEF Finds, Within
<1> QED
  BY <1>2, <1>3, <1>4, <1>5, <1>6, <1>7

\* The rest of a listing leaves what it chose as it is.
LEMMA ListingUnderBrowse ==
    ASSUME CatalogueTypeOK, HistoryTyped, NestedSets, spoilt = {},
           Browse, RecordReads, UNCHANGED history,
           NEW g \in Listers, WellListed(g)
    PROVE  WellListed(g)'
<1> DEFINE l == listing[g]
           c == l.category
<1>1. /\ TypeOK /\ l \in Listings /\ listing \in [Listers -> Listings]
  BY DEF CatalogueTypeOK
<1>2. /\ cat' = cat /\ req' = req /\ UNCHANGED <<history, cat, req>>
      /\ ancestors' = ancestors /\ halved' = halved
  BY DEF Browse, CreateProduct, List, FindAll, FindById, FindChildren, FindSubtree,
         Count, TakePage, history
<1>3. /\ Existing' = Existing /\ Open' = Open
      /\ \A d : Descendants(d)' = Descendants(d)
  BY <1>2 DEF Existing, Exists, Descendants, Open
<1>4. ASSUME ~Begins(g), ~Searches(g)
      PROVE  due'[g] = due[g] /\ (g \in torn' <=> g \in torn) /\ lefts'[g] = lefts[g]
  BY <1>4 DEF RecordReads, TornReads, HistoryTyped
<1>5. ASSUME listing'[g] = l PROVE WellListed(g)'
  <2>1. due'[g] = due[g] /\ (g \in torn' <=> g \in torn) /\ lefts'[g] = lefts[g]
    BY <1>4, <1>5 DEF Begins, Searches, Listed
  <2>2. Of(g)' = Of(g) /\ Descendants(Of(g))' = Descendants(Of(g))
        /\ \A step : Listed(g, step)' <=> Listed(g, step)
    BY <1>2, <1>3, <1>5 DEF Of, Descendants, Listed
  <2>3. \A h \in Handlers : Expected(g, req[h])' <=> Expected(g, req[h])
    BY <1>2, <1>5, <2>1 DEF Expected, LeftAfter, Of
  <2>4. BetweenReads(g)' <=> BetweenReads(g)
    <3>1. \A d \in Existing : Finds(g, d)' <=> Finds(g, d)
      BY <1>2, <1>5 DEF Finds, Within
    <3>2. \A r \in Open : RightsTorn(r, Of(g))' <=> RightsTorn(r, Of(g))
      BY <1>2, <2>2 DEF RightsTorn, SelectsRight, Exists
    <3> QED
      BY <1>2, <1>3, <1>5, <2>1, <2>2, <2>3, <3>1, <3>2 DEF BetweenReads
  <2>5. Answered(g)' <=> Answered(g)
    BY <1>2, <1>5, <2>1, <2>2 DEF Answered, Shallow
  <2>6. Chosen(g)' <=> Chosen(g)
    BY <1>5, <2>1, <2>2 DEF Chosen
  <2> QED
    BY <1>5, <2>1, <2>2, <2>4, <2>5, <2>6 DEF WellListed
<1>6. ASSUME NEW p \in Products, NEW d \in Categories, CreateProduct(p, d)
      PROVE  WellListed(g)'
  BY <1>5, <1>6 DEF CreateProduct
<1>7. ASSUME NEW i \in Listers, NEW q, Put(i, q), i # g PROVE WellListed(g)'
  BY <1>1, <1>5, <1>7 DEF Put
<1>8. CASE FindAll(g)
  <2>1. listing'[g].category = None
    BY <1>1, <1>8 DEF FindAll, Put, Listing
  <2> QED
    BY <2>1 DEF WellListed, Of
<1>9. ASSUME NEW d \in Categories, FindById(g, d) PROVE WellListed(g)'
  BY <1>9, FirstRead
<1>10. CASE FindSubtree(g)
  <2>1. /\ l.pc = "children" /\ listing'[g].category = c /\ listing'[g].pc = "count"
        /\ listing'[g].ids = Subtree(l.left, l.right) \cup {c}
    BY <1>1, <1>10 DEF FindSubtree, Listed, Put, Listings, WithItsCategory
  <2>2. Searches(g) /\ Of(g)' = c /\ Of(g) = c
    BY <2>1 DEF Searches, Listed, Of
  <2>3. Chosen(g)' /\ due'[g] \subseteq Descendants(c)
    BY <1>2, <1>3, <2>1, <2>2, SecondRead DEF Chosen
  <2> QED
    BY <1>3, <2>1, <2>2, <2>3 DEF WellListed, Listed
<1>11. ASSUME NEW dept \in 0..MaxDepth, FindChildren(g, dept) PROVE WellListed(g)'
  <2>1. /\ l.pc = "children" /\ listing'[g].category = c /\ listing'[g].pc = "found"
        /\ listing'[g].dept = dept
        /\ listing'[g].ids = {d \in Subtree(l.left, l.right) : cat[d].dept <= dept}
    BY <1>1, <1>11 DEF FindChildren, Listed, Put, Listings
  <2>2. Searches(g) /\ Of(g)' = c /\ Of(g) = c
    BY <2>1 DEF Searches, Listed, Of
  <2>3. Answered(g)' /\ due'[g] \subseteq Descendants(c)
    BY <1>2, <1>3, <2>1, <2>2, SecondRead DEF Answered, Shallow
  <2> QED
    BY <1>3, <2>1, <2>2, <2>3 DEF WellListed, Listed
<1>12. ASSUME ~Begins(g), ~Searches(g), listing'[g].category = c,
             l.pc \in {"count", "page"}, listing'[g].pc \in {"page", "answered"},
             listing'[g].ids = l.ids
      PROVE  WellListed(g)'
  BY <1>3, <1>4, <1>12 DEF WellListed, Chosen, Of, Listed
<1>13. CASE Count(g)
  <2>1. /\ l.pc = "count" /\ listing'[g].pc = "page"
        /\ listing'[g].category = c /\ listing'[g].ids = l.ids
    BY <1>1, <1>13 DEF Count, Listed, Put, Listings
  <2> QED
    BY <1>12, <2>1 DEF Begins, Searches, Listed
<1>14. ASSUME NEW page \in 1..MaxPage, TakePage(g, page) PROVE WellListed(g)'
  <2>1. PICK data : Put(g, [l EXCEPT !.pc = "answered", !.page = page, !.data = data])
    BY <1>14 DEF TakePage
  <2>2. /\ l.pc = "page" /\ listing'[g].pc = "answered"
        /\ listing'[g].category = c /\ listing'[g].ids = l.ids
    BY <1>1, <1>14, <2>1 DEF TakePage, Listed, Put, Listings
  <2> QED
    BY <1>12, <2>2 DEF Begins, Searches, Listed
<1>15. ASSUME NEW i \in Listers, List(i), i # g PROVE WellListed(g)'
  BY <1>7, <1>15
     DEF List, FindAll, FindById, FindChildren, FindSubtree, Count, TakePage
<1> QED
  BY <1>6, <1>8, <1>9, <1>10, <1>11, <1>13, <1>14, <1>15 DEF Browse, List

\* Every step keeps what is said of the listings.
LEMMA AllWellListedStep ==
    CatalogueTypeOK /\ CatalogueTypeOK' /\ NestedSets /\ HistoryTyped
        /\ AllWellListed /\ [CHNext]_chvars => AllWellListed'
<1> SUFFICES ASSUME CatalogueTypeOK, CatalogueTypeOK', NestedSets, HistoryTyped,
                    AllWellListed, [CHNext]_chvars, spoilt' = {}, NEW g \in Listers
             PROVE  WellListed(g)'
  BY DEF AllWellListed
<1>1. spoilt = {} /\ TypeOK'
  BY DEF CHNext, HServe, HCrash, Record, chvars, hvars, history, CatalogueTypeOK
<1>2. WellListed(g)
  BY <1>1 DEF AllWellListed
<1>3. CASE Browse /\ RecordReads /\ UNCHANGED history
  BY <1>1, <1>2, <1>3, ListingUnderBrowse
<1>4. CASE HServe /\ RecordMoves /\ UNCHANGED <<product, listing>>
  BY <1>1, <1>2, <1>4, ListingUnderCreate DEF HServe, Serve
<1>5. CASE listing' = [i \in Listers |-> NoListing]
  BY <1>5, ListingsBegin DEF WellListed, Of
<1>6. CASE UNCHANGED chvars
  BY <1>2, <1>6 DEF chvars, hvars, vars, history, WellListed, BetweenReads, Expected,
     Finds, Answered, Shallow, Chosen, LeftAfter, RightsTorn, SelectsRight, Open, Of,
     Listed, Within, Existing, Exists, Descendants
<1> QED
  BY <1>3, <1>4, <1>5, <1>6 DEF CHNext

\* The invariant of the theorems below.
ListingInvariant ==
    /\ CatalogueTypeOK /\ NestedSets /\ Counted
    /\ HistoryTyped /\ AllWellListed

LEMMA Invariant == CHSpec => []ListingInvariant
<1>1. CHInit => ListingInvariant
  <2>1. CHInit => AllWellListed /\ HistoryTyped
    BY ListingsBegin DEF CHInit, CInit, AllWellListed, WellListed, Of, HistoryTyped
  <2> QED
    BY <2>1, CatalogueTypeInit, TreeFollows, NestedSetsInit, CountedInit
       DEF ListingInvariant
<1>2. ListingInvariant /\ [CHNext]_chvars => ListingInvariant'
  <2>1. CatalogueTypeOK => TypeOK
    BY DEF CatalogueTypeOK
  <2> QED
    BY <2>1, CatalogueTypeStep, TreeFollows, TreeStep, CountedStep, HistoryTypedStep,
       AllWellListedStep DEF ListingInvariant
<1> QED
  BY <1>1, <1>2, PTL DEF CHSpec

\* findChildren answers descendants alone, down to the depth asked for, though it
\* reads the tree twice and creates renumber it document by document, and none
\* that was there is missing, under the conditions ChildrenAreDescendants states;
\* for any number of categories, creates that do not overlap, and requests.
THEOREM ChildrenFound == CHSpec => []ChildrenAreDescendants
<1>1. ListingInvariant => ChildrenAreDescendants
  <2> SUFFICES ASSUME ListingInvariant, NEW g \in Listers, spoilt = {},
                      Listed(g, "found")
               PROVE  LET Small(ds) == {d \in ds :
                                Cardinality(ancestors[d]) <= listing[g].dept}
                      IN  /\ lefts[g] < 2 =>
                                listing[g].ids \subseteq Small(Descendants(Of(g)))
                          /\ g \notin torn => Small(due[g]) \subseteq listing[g].ids
    BY DEF ChildrenAreDescendants
  <2>1. Of(g) # None
    BY DEF ListingInvariant, CatalogueTypeOK, Listed, Of
  <2>2. Answered(g) /\ due[g] \subseteq Existing /\ Descendants(Of(g)) \subseteq Existing
    BY <2>1 DEF ListingInvariant, AllWellListed, WellListed, Descendants
  <2>3. \A d \in Existing : cat[d].dept = Cardinality(ancestors[d])
    BY DEF ListingInvariant, Counted, Levels
  <2> QED
    BY <2>2, <2>3 DEF Answered, Shallow
<1> QED
  BY <1>1, Invariant, PTL

\* Whatever is created while it goes on, a listing of a category shows products
\* of the category and of its descendants alone, for any number of categories,
\* products and listings, unless left numbers moved twice between its two reads
\* of the tree.
THEOREM ListedInCategory == CHSpec => []ListedWithin
<1>1. ListingInvariant => ListedWithin
  <2> SUFFICES ASSUME ListingInvariant, NEW g \in Listers, spoilt = {}, lefts[g] < 2,
                      Of(g) # None, NEW p \in listing[g].data
               PROVE  product[p] = Of(g) \/ Of(g) \in ancestors[product[p]]
    BY DEF ListedWithin
  <2>1. product[p] \in listing[g].ids /\ Listed(g, "answered")
    BY DEF ListingInvariant, CatalogueTypeOK, Wanted, Listed
  <2>2. listing[g].ids \subseteq {Of(g)} \cup Descendants(Of(g))
    BY <2>1 DEF ListingInvariant, AllWellListed, WellListed, Chosen, Listed
  <2> QED
    BY <2>1, <2>2 DEF Descendants
<1> QED
  BY <1>1, Invariant, PTL

\* A listing looks into its category and every descendant that was there at the
\* start, unless a create was between moves that belong together: it had moved
\* right numbers but not the category's, or was in the middle of the left numbers.
THEOREM DescendantsListed == CHSpec => []NoneLeftOut
<1>1. ListingInvariant => NoneLeftOut
  BY DEF ListingInvariant, AllWellListed, WellListed, Chosen, NoneLeftOut
<1> QED
  BY <1>1, Invariant, PTL

-----------------------------------------------------------------------------
(* Pages *)

\* A page before the last one counted is full and the last one has the rest, if
\* there are as many products as were counted, or more.
LEMMA PageSizes ==
    ASSUME NEW total \in Nat, NEW n \in Nat, NEW page \in Nat \ {0}, total <= n
    PROVE  /\ page < TotalPages(total) => OnPage(n, page) = Limit
           /\ page = TotalPages(total) => (page - 1) * Limit + OnPage(n, page) >= total
<1> DEFINE q == TotalPages(total)
           offset == (page - 1) * Limit
<1>1. Limit \in Nat \ {0}
  BY CatalogueAssumption
<1>2. q \in Nat /\ q * Limit <= total + Limit - 1 /\ total + Limit - 1 < q * Limit + Limit
  BY <1>1, SMT DEF TotalPages
<1>3. offset \in Nat /\ offset + Limit = page * Limit
  BY <1>1, SMT
<1>4. OnPage(n, page) =
        IF n <= offset THEN 0 ELSE IF n - offset < Limit THEN n - offset ELSE Limit
  BY DEF OnPage, Offset
<1> HIDE DEF q, offset
<1>5. ASSUME page < q PROVE OnPage(n, page) = Limit
  <2>1. page + 1 \in Nat /\ page + 1 <= q
    BY <1>2, <1>5
  <2>2. (page + 1) * Limit <= q * Limit
    BY <1>1, <1>2, <2>1, SMT
  <2>3. (page + 1) * Limit = page * Limit + Limit
    BY <1>1, SMT
  <2>4. page * Limit \in Nat /\ q * Limit \in Nat
    BY <1>1, <1>2, SMT
  <2>5. offset + Limit < n
    BY <1>1, <1>2, <1>3, <2>2, <2>3, <2>4
  <2> QED
    BY <1>1, <1>3, <1>4, <2>5
<1>6. ASSUME page = q PROVE offset + OnPage(n, page) >= total
  <2>1. total <= offset + Limit
    <3>1. q * Limit \in Nat
      BY <1>1, <1>2, SMT
    <3> QED
      BY <1>1, <1>2, <1>3, <1>6, <3>1
  <2> QED
    BY <1>1, <1>3, <1>4, <2>1
<1> QED
  BY <1>5, <1>6 DEF q, offset

\* What was counted is still there when the page is taken, and the page was cut
\* from as many products or more.
PageFits(g) ==
    LET l == listing[g] IN
    /\ l.pc = "page" => l.total <= Cardinality(Wanted(l.ids))
    /\ l.pc = "answered" => \E n \in Nat :
            /\ l.total <= n /\ l.page # 0
            /\ Cardinality(l.data) = OnPage(n, l.page)

\* Products only come, so that every step keeps this.
LEMMA PageFitsStep ==
    ASSUME CatalogueTypeOK, CatalogueTypeOK', [CHNext]_chvars,
           NEW g \in Listers, PageFits(g)
    PROVE  PageFits(g)'
<1> DEFINE l == listing[g]
<1>1. /\ l \in Listings /\ l.total \in Nat /\ listing \in [Listers -> Listings]
      /\ product \in [Products -> Categories \cup {None}]
  <2>1. l \in Listings /\ listing \in [Listers -> Listings]
        /\ product \in [Products -> Categories \cup {None}]
    BY DEF CatalogueTypeOK
  <2>2. Cardinality(Products) \in Nat
    BY CatalogueAssumption, FS_CardinalityType
  <2> QED
    BY <2>1, <2>2 DEF Listings
<1>2. ASSUME listing'[g] = l PROVE PageFits(g)'
  <2>1. ASSUME l.pc = "page"
        PROVE  Cardinality(Wanted(l.ids)) <= Cardinality(Wanted(l.ids)')
    <3>1. Wanted(l.ids) \subseteq Wanted(listing[g].ids)'
      <4>1. CASE product' = product
        BY <1>2, <4>1 DEF Wanted
      <4>2. ASSUME NEW p \in Products, NEW c \in Categories, CreateProduct(p, c)
            PROVE  Wanted(l.ids) \subseteq Wanted(listing[g].ids)'
        <5>1. p \notin Wanted(l.ids)
          BY <1>1, <4>2, CategoryAssumption DEF CreateProduct, Wanted, Listings
        <5> QED
          BY <1>1, <1>2, <4>2, <5>1 DEF CreateProduct, Wanted
      <4> QED
        BY <4>1, <4>2 DEF CHNext, chvars, Browse, List, FindAll, FindById,
           FindChildren, FindSubtree, Count, TakePage
    <3>2. IsFiniteSet(Wanted(listing[g].ids)')
      BY CatalogueAssumption, FS_Subset DEF Wanted
    <3> QED
      BY <1>2, <3>1, <3>2, FS_Subset
  <2>2. /\ Cardinality(Wanted(l.ids)) \in Nat
        /\ Cardinality(Wanted(listing[g].ids)') \in Nat
    <3>1. IsFiniteSet(Wanted(listing[g].ids)') /\ IsFiniteSet(Wanted(l.ids))
      BY CatalogueAssumption, FS_Subset DEF Wanted
    <3> QED
      BY <3>1, FS_CardinalityType
  <2>3. CASE l.pc = "page"
    BY <1>1, <1>2, <2>1, <2>2, <2>3 DEF PageFits
  <2>4. CASE l.pc # "page"
    BY <1>2, <2>4 DEF PageFits
  <2> QED
    BY <2>3, <2>4
<1>3. ASSUME listing'[g].pc \notin {"page", "answered"} PROVE PageFits(g)'
  BY <1>3 DEF PageFits
<1>4. CASE Count(g)
  <2>1. /\ listing'[g].total = Cardinality(Wanted(l.ids)) /\ listing'[g].pc = "page"
        /\ listing'[g].ids = l.ids /\ product' = product
    BY <1>1, <1>4 DEF Count, Put, Listings
  <2>2. Cardinality(Wanted(l.ids)) \in Nat
    BY Counts, CatalogueAssumption, FS_CardinalityType
  <2> QED
    BY <2>1, <2>2 DEF PageFits, Wanted
<1>5. ASSUME NEW page \in 1..MaxPage, TakePage(g, page) PROVE PageFits(g)'
  <2> DEFINE n == Cardinality(Wanted(l.ids))
  <2>1. PICK data : /\ Cardinality(data) = OnPage(n, page)
                    /\ Put(g, [l EXCEPT !.pc = "answered", !.page = page, !.data = data])
    BY <1>5 DEF TakePage
  <2>2. /\ listing'[g].pc = "answered" /\ listing'[g].page = page
        /\ listing'[g].data = data /\ listing'[g].total = l.total
    BY <1>1, <2>1 DEF Put, Listings
  <2>3. n \in Nat /\ l.total <= n
    BY <1>5, Counts, CatalogueAssumption, FS_CardinalityType DEF PageFits, TakePage, Listed
  <2> HIDE DEF n
  <2> QED
    BY <2>1, <2>2, <2>3, CatalogueAssumption DEF PageFits
<1>6. ASSUME NEW i \in Listers, List(i)
      PROVE  PageFits(g)'
  <2>1. CASE i # g
    <3>1. \E q : Put(i, q)
      BY <1>6 DEF List, FindAll, FindById, FindChildren, FindSubtree, Count, TakePage
    <3> QED
      BY <1>1, <1>2, <2>1, <3>1 DEF Put
  <2>2. ASSUME \/ FindAll(g) \/ FindSubtree(g)
               \/ \E c \in Categories : FindById(g, c)
               \/ \E dept \in 0..MaxDepth : FindChildren(g, dept)
        PROVE  PageFits(g)'
    <3>1. listing'[g].pc \in {"count", "children", "found"}
      <4>1. CASE FindAll(g)
        BY <1>1, <4>1 DEF FindAll, Put, Listing
      <4>2. ASSUME NEW c \in Categories, FindById(g, c)
            PROVE  listing'[g].pc = "children"
        BY <1>1, <4>2 DEF FindById, Put, Listing
      <4>3. CASE FindSubtree(g)
        BY <1>1, <4>3 DEF FindSubtree, Put, Listings
      <4>4. ASSUME NEW dept \in 0..MaxDepth, FindChildren(g, dept)
            PROVE  listing'[g].pc = "found"
        BY <1>1, <4>4 DEF FindChildren, Put, Listings
      <4> QED
        BY <2>2, <4>1, <4>2, <4>3, <4>4
    <3> QED
      BY <1>3, <3>1
  <2> QED
    BY <1>4, <1>5, <1>6, <2>1, <2>2 DEF List
<1>7. CASE listing' = [i \in Listers |-> NoListing]
  BY <1>3, <1>7, ListingsBegin
<1>8. CASE UNCHANGED listing
  BY <1>2, <1>8
<1> QED
  BY <1>6, <1>7, <1>8 DEF CHNext, Browse, CreateProduct, chvars

\* A page that is not the last is full, and the last has the rest, counted
\* before the page is taken, whatever is created in between, for any size of a
\* page and any number of products.
THEOREM PagesAreFilled == CHSpec => []PagesFilled
<1> DEFINE Fits == \A g \in Listers : PageFits(g)
<1>1. CHInit => Fits
  BY ListingsBegin DEF CHInit, CInit, PageFits
<1>2. CatalogueTypeOK /\ CatalogueTypeOK' /\ Fits /\ [CHNext]_chvars => Fits'
  BY PageFitsStep
<1>3. CatalogueTypeOK /\ Fits => PagesFilled
  <2> SUFFICES ASSUME CatalogueTypeOK, Fits, NEW g \in Listers, Listed(g, "answered")
               PROVE  LET l == listing[g]
                          size == Cardinality(l.data)
                      IN  /\ l.page < TotalPages(l.total) => size = Limit
                          /\ l.page = TotalPages(l.total) =>
                                (l.page - 1) * Limit + size >= l.total
    BY DEF PagesFilled
  <2> DEFINE l == listing[g]
  <2>1. PICK n \in Nat : /\ l.total <= n /\ l.page # 0
                         /\ Cardinality(l.data) = OnPage(n, l.page)
    BY DEF PageFits, Listed
  <2>2. l.total \in Nat /\ l.page \in Nat \ {0}
    BY <2>1, CatalogueAssumption, FS_CardinalityType DEF CatalogueTypeOK, Listings
  <2> QED
    BY <2>1, <2>2, PageSizes
<1> QED
  BY <1>1, <1>2, <1>3, CatalogueTypeCorrect, PTL DEF CHSpec

=============================================================================
