------------------------------ MODULE Catalogue ------------------------------
(***************************************************************************)
(* Category with the products and what is asked of both: create and find   *)
(* of product.service.ts, findChildren of category.service.ts.  Both read a *)
(* category first and then look for its subtree by the numbers read;        *)
(* findChildren answers it, find counts its products and takes one page of  *)
(* them, while categories and products are created.                        *)
(***************************************************************************)
EXTENDS Category, FiniteSets

CONSTANTS
    Products,   \* product ids, a bound on the products created
    Listers,    \* slots for listings and subtree requests in progress
    Limit,      \* products on a page
    MaxPage,    \* bound: no listing asks for a page above
    MaxDepth    \* bound: no subtree is asked for below this depth

ASSUME CatalogueAssumption ==
    /\ None \notin Products \cup Listers /\ IsFiniteSet(Products)
    /\ Limit \in Nat \ {0} /\ MaxPage \in Nat /\ MaxDepth \in Nat

VARIABLES
    product,    \* product[p]: its category, None before it is created
    listing     \* listing[g]: the request in slot g, or its answer

cvars == <<vars, product, listing>>

\* ids: the categories found, answered ("found") or to take products from;
\* data: the page answered.
Listing(pc, c, left, right, ids) ==
    [pc |-> pc, category |-> c, page |-> 0, dept |-> 0, left |-> left,
     right |-> right, ids |-> ids, total |-> 0, data |-> {}]

NoListing == Listing("idle", None, 0, 0, {})

Listings ==
    [pc : {"idle", "children", "found", "count", "page", "answered"},
     category : Categories \cup {None}, page : 0..MaxPage, dept : 0..MaxDepth,
     left : Nat, right : Nat, ids : SUBSET Categories,
     total : 0..Cardinality(Products), data : SUBSET Products]

Wanted(ids) == {p \in Products : product[p] \in ids}

\* Types of the state; what a listing asks for and answers there is.
CatalogueTypeOK ==
    /\ TypeOK
    /\ product \in [Products -> Categories \cup {None}]
    /\ listing \in [Listers -> Listings]
    /\ \A p \in Products : product[p] # None => Exists(product[p])
    /\ \A g \in Listers :
        LET l == listing[g] IN
        /\ l.category # None => Exists(l.category) /\ l.ids \subseteq Existing
        /\ l.pc \in {"children", "found"} => l.category # None
        /\ l.data \subseteq IF l.pc = "answered" THEN Wanted(l.ids) ELSE {}

CInit ==
    /\ Init
    /\ product = [p \in Products |-> None]
    /\ listing = [g \in Listers |-> NoListing]

Put(g, l) == listing' = [listing EXCEPT ![g] = l]
Listed(g, step) == listing[g].pc = step

-----------------------------------------------------------------------------
(* POST product *)

CreateProduct(p, c) ==
    /\ product[p] = None /\ Exists(c)
    /\ product' = [product EXCEPT ![p] = c]
    /\ UNCHANGED <<cat, req, listing>>

-----------------------------------------------------------------------------
(* GET product -- find, and GET category/children/list -- findChildren *)

Ready(g) == listing[g].pc \in {"idle", "found", "answered"}

\* Without a category every product is wanted.
FindAll(g) ==
    /\ Ready(g)
    /\ Put(g, Listing("count", None, 0, 0, Categories))
    /\ UNCHANGED <<cat, req, product>>

\* Both read the category by its id; which of them it is matters from then on.
FindById(g, c) ==
    /\ Ready(g) /\ Exists(c)
    /\ Put(g, Listing("children", c, cat[c].left, cat[c].right, {}))
    /\ UNCHANGED <<cat, req, product>>

\* findChildren: the answer.
FindChildren(g, dept) ==
    LET l == listing[g] IN
    /\ Listed(g, "children")
    /\ Put(g, [l EXCEPT !.pc = "found", !.dept = dept, !.left = 0, !.right = 0,
                !.ids = {d \in Subtree(l.left, l.right) : cat[d].dept <= dept}])
    /\ UNCHANGED <<cat, req, product>>

WithItsCategory(l) == Subtree(l.left, l.right) \cup {l.category}

\* find: categoryService.find.
FindSubtree(g) ==
    LET l == listing[g] IN
    /\ Listed(g, "children")
    /\ Put(g, [l EXCEPT !.pc = "count", !.ids = WithItsCategory(l),
                        !.left = 0, !.right = 0])
    /\ UNCHANGED <<cat, req, product>>

Count(g) ==
    LET l == listing[g] IN
    /\ Listed(g, "count")
    /\ Put(g, [l EXCEPT !.pc = "page", !.total = Cardinality(Wanted(l.ids))])
    /\ UNCHANGED <<cat, req, product>>

TotalPages(total) == (total + Limit - 1) \div Limit

\* Variant: pages are counted from zero.
OffsetFromZero(page) == page * Limit

Offset(page) == (page - 1) * Limit

\* Which products the page has depends on the order asked for; how many does not.
OnPage(n, page) ==
    IF n <= Offset(page) THEN 0
    ELSE IF n - Offset(page) < Limit THEN n - Offset(page) ELSE Limit

\* The page of the request matters from here on.
TakePage(g, page) ==
    LET l == listing[g] IN
    /\ Listed(g, "page")
    /\ \E data \in SUBSET Wanted(l.ids) :
        /\ Cardinality(data) = OnPage(Cardinality(Wanted(l.ids)), page)
        /\ Put(g, [l EXCEPT !.pc = "answered", !.page = page, !.data = data])
    /\ UNCHANGED <<cat, req, product>>

-----------------------------------------------------------------------------

List(g) ==
    \/ FindAll(g)
    \/ \E c \in Categories : FindById(g, c)
    \/ \E dept \in 0..MaxDepth : FindChildren(g, dept)
    \/ FindSubtree(g)
    \/ Count(g)
    \/ \E page \in 1..MaxPage : TakePage(g, page)

Browse ==
    \/ \E p \in Products, c \in Categories : CreateProduct(p, c)
    \/ \E g \in Listers : List(g)

\* A crash ends the listings too.
CNext ==
    \/ Serve /\ UNCHANGED <<product, listing>>
    \/ Browse
    \/ Crash /\ listing' = [g \in Listers |-> NoListing] /\ UNCHANGED product

CSpec == CInit /\ [][CNext]_cvars
=============================================================================
