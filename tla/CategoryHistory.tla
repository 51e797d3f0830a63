--------------------------- MODULE CategoryHistory ---------------------------
(***************************************************************************)
(* Category with history variables, and the invariant behind what the      *)
(* nested set is for: finding the descendants of a category.               *)
(***************************************************************************)
EXTENDS Category, FiniteSets

VARIABLES
    ancestors,  \* ancestors[c]: the categories above c, by parentId
    halved,     \* the requests a crash stopped between renumbering and insert
    spoilt      \* handlers that began a create during another or after a halved one

history == <<ancestors, halved, spoilt>>
hvars == <<vars, history>>

Renumbers(r) == \/ r.pc \in {"lefts", "insert"}
                \/ r.pc = "rights" /\ r.moved # {}
Underway == \E h \in Handlers : req[h].pc \in Creating

HInit ==
    /\ Init
    /\ ancestors = [c \in Categories |-> {}]
    /\ halved = {}
    /\ spoilt = {}

\* The ancestors of a category are settled when its document appears.
Record ==
    /\ ancestors' = [c \in Categories |->
            IF ~Exists(c) /\ Exists(c)' /\ cat'[c].parentId # None
            THEN ancestors[cat'[c].parentId] \cup {cat'[c].parentId}
            ELSE ancestors[c]]
    /\ spoilt' = spoilt \cup {h \in Handlers :
            /\ req[h].pc = "idle" /\ req'[h].pc = "rights"
            /\ Underway \/ halved # {}}

HServe == Serve /\ Record /\ UNCHANGED halved

HCrash ==
    /\ Crash /\ Record
    /\ halved' = halved \cup {r \in {req[h] : h \in Handlers} : Renumbers(r)}

HNext == HServe \/ HCrash

HSpec == HInit /\ [][HNext]_hvars

-----------------------------------------------------------------------------
(* Safety *)

Descendants(c) == {d \in Existing : c \in ancestors[d]}

\* With no create in progress and none cut off, the left and right numbers of
\* the categories are the numbers up to the root's right, each used once.
NumbersUsedOnce ==
    (spoilt = {} /\ halved = {} /\ ~Underway) =>
        LET lefts == {cat[c].left : c \in Existing}
            rights == {cat[c].right : c \in Existing}
        IN  /\ lefts \cap rights = {}
            /\ \A c, d \in Existing : c # d => /\ cat[c].left # cat[d].left
                                               /\ cat[c].right # cat[d].right
            /\ lefts \cup rights = 1..cat[Root].right

-----------------------------------------------------------------------------
(* The inductive invariant behind what is found *)

\* Two intervals are disjoint or one is inside the other.
Apart(l1, r1, l2, r2) ==
    \/ r1 < l2
    \/ r2 < l1
    \/ l1 < l2 /\ r2 < r1
    \/ l2 < l1 /\ r1 < r2

MovedRight(right, bound) == IF right >= bound THEN right + 2 ELSE right
MovedLeft(left, bound) == IF left > bound THEN left + 2 ELSE left

\* The numbers of c once the create with request r, or none, has moved all it is
\* to move: they stand still while it does.
RightAfter(r, c) ==
    IF r.pc = "rights" /\ c \notin r.moved
    THEN MovedRight(cat[c].right, r.right) ELSE cat[c].right

LeftAfter(r, c) ==
    IF r.pc = "rights" \/ (r.pc = "lefts" /\ c \notin r.moved)
    THEN MovedLeft(cat[c].left, r.right) ELSE cat[c].left

Inside(r, d, c) == /\ LeftAfter(r, c) < LeftAfter(r, d)
                   /\ RightAfter(r, d) < RightAfter(r, c)

\* Then the categories are nested as their parents say.
Nested(r) ==
    /\ \A c \in Existing : LeftAfter(r, c) < RightAfter(r, c)
    /\ \A c, d \in Existing : c # d =>
        Apart(LeftAfter(r, c), RightAfter(r, c), LeftAfter(r, d), RightAfter(r, d))
    /\ \A c, d \in Existing : Inside(r, d, c) <=> c \in ancestors[d]

\* And around the numbers that are free for the new category lie the intervals of
\* its parent and of the parent's ancestors alone.
Room(r) == \A c \in Existing :
    /\ LeftAfter(r, c) \notin {r.right, r.right + 1}
    /\ RightAfter(r, c) \notin {r.right, r.right + 1}
    /\ (LeftAfter(r, c) < r.right /\ r.right + 1 < RightAfter(r, c))
            <=> (c = r.category \/ c \in ancestors[r.category])

\* The creates that are under way, and those that were cut off.
Open == {r \in {req[h] : h \in Handlers} : r.pc \in Creating} \cup halved

Settled == \A r \in Open : ~Renumbers(r)

ParentsKnown == \A c \in Existing : ancestors[c] \subseteq Existing

OneCreate ==
    /\ \A h, g \in Handlers :
        (req[h].pc \in Creating /\ req[g].pc \in Creating) => h = g
    /\ \A r, q \in Open : r = q

\* As long as creates neither overlapped nor followed a halved one there is at
\* most one, under way or cut off, and all it has yet to move is what keeps the
\* categories from being nested around the room it makes.
NestedSets ==
    spoilt = {} =>
        /\ ParentsKnown
        /\ OneCreate
        /\ halved # {} => ~Underway
        /\ Settled => Nested(Idle)
        /\ \A r \in Open : r \in Requests /\ r.category \in Existing
                              /\ Nested(r) /\ Room(r)

\* The depth of a category is the number of categories above it, whatever
\* overlaps.
Levels ==
    /\ \A c \in Existing : /\ ancestors[c] \subseteq Existing \ {c}
                            /\ cat[c].dept = Cardinality(ancestors[c])
    /\ \A h \in Handlers : req[h].pc # "idle" =>
            req[h].dept = cat[req[h].category].dept
=============================================================================
