--------------------------- MODULE CatalogueHistory ---------------------------
(***************************************************************************)
(* CategoryHistory and Catalogue together, with history variables of the   *)
(* listings, and what a listing promises whatever is created during it.    *)
(***************************************************************************)
EXTENDS CategoryHistory, Catalogue

VARIABLES
    due,        \* due[g]: the descendants of g's category when that was read
    torn,       \* requests that met a create between moves that belong together
    lefts       \* lefts[g]: how many creates moved left numbers between the reads
                \* of g's category and of its subtree, 2 if more

chvars == <<hvars, product, listing, due, torn, lefts>>

CHInit ==
    /\ HInit /\ CInit
    /\ due = [g \in Listers |-> {}]
    /\ torn = {} /\ lefts = [g \in Listers |-> 0]

Of(g) == listing[g].category

Begins(g) == ~Listed(g, "children") /\ listing'[g].pc = "children"
Searches(g) == Listed(g, "children") /\ listing'[g].pc # "children"

\* The create with request r has moved right numbers, but not yet that of c; it
\* has moved the left number of c, and maybe not those after it.
RightsTorn(r, c) == r.pc = "rights" /\ r.moved # {} /\ SelectsRight(r, c)
LeftsTorn(r, c) == r.pc = "lefts" /\ c \in r.moved

\* Handler h moves a number, of the kind its step is about.
Moving(h, step) == At(h, step) /\ At(h, step)' /\ req'[h] # req[h]

\* The category is read while the right numbers are torn, or the subtree while
\* the left numbers are, by a create under way or cut off.
TornReads(g) == \E r \in Open :
    \/ Begins(g) /\ RightsTorn(r, listing'[g].category)
    \/ Searches(g) /\ LeftsTorn(r, Of(g))

RecordReads ==
    /\ due' = [g \in Listers |->
            IF Begins(g) THEN Descendants(listing'[g].category) ELSE due[g]]
    /\ torn' = {g \in torn : ~Begins(g)} \cup {g \in Listers : TornReads(g)}
    /\ lefts' = [g \in Listers |->
            IF ~Begins(g) THEN lefts[g]
            ELSE IF \E h \in Handlers : At(h, "lefts") /\ req[h].moved # {} THEN 1
            ELSE 0]

\* Between the two reads a create moves right numbers before that of the
\* category, or the first of the left numbers.
RecordMoves ==
    /\ torn' = torn \cup {g \in Listers : Listed(g, "children") /\
            \E h \in Handlers : Moving(h, "rights") /\ SelectsRight(req[h], Of(g))}
    /\ lefts' = [g \in Listers |->
            IF /\ Listed(g, "children") /\ lefts[g] < 2
               /\ \E h \in Handlers : Moving(h, "lefts") /\ req[h].moved = {}
            THEN lefts[g] + 1 ELSE lefts[g]]
    /\ UNCHANGED due

CHNext ==
    \/ Browse /\ RecordReads /\ UNCHANGED history
    \/ HServe /\ RecordMoves /\ UNCHANGED <<product, listing>>
    \/ /\ HCrash
       /\ listing' = [g \in Listers |-> NoListing]
       /\ due' = [g \in Listers |-> {}]
       /\ torn' = {} /\ lefts' = [g \in Listers |-> 0]
       /\ UNCHANGED product

CHSpec == CHInit /\ [][CHNext]_chvars

-----------------------------------------------------------------------------
(* Safety *)

\* findChildren answers descendants of the category alone, none below the depth
\* asked for (the depth of a category is counted by the categories above it),
\* even if a create renumbers the tree around its two reads, unless a second
\* one does so too; and it answers all the descendants there were when it read
\* the category, unless a create had moved right numbers before the second read
\* but not the category's before the first, or was in the middle of the left
\* numbers at the second.
ChildrenAreDescendants ==
    \A g \in Listers : (spoilt = {} /\ Listed(g, "found")) =>
        LET Shallow(ds) == {d \in ds : Cardinality(ancestors[d]) <= listing[g].dept}
        IN  /\ lefts[g] < 2 => listing[g].ids \subseteq Shallow(Descendants(Of(g)))
            /\ g \notin torn => Shallow(due[g]) \subseteq listing[g].ids

\* Products are listed of the category asked for and of its descendants alone
\* (find of product.service.ts), in the middle of a create and after a crash in
\* one too, unless a second create moves left numbers between the two reads of
\* categories: a category to the left then gets numbers within those read.
ListedWithin ==
    \A g \in Listers : (spoilt = {} /\ lefts[g] < 2 /\ Of(g) # None) =>
        \A p \in listing[g].data :
            product[p] = Of(g) \/ Of(g) \in ancestors[product[p]]

\* A listing looks into the category and every descendant it had at the start,
\* unless a create was between moves that belong together: it had moved right
\* numbers by the second read of categories but not the category's by the first,
\* or was in the middle of the left numbers at the second.
NoneLeftOut ==
    \A g \in Listers \ torn :
        (spoilt = {} /\ listing[g].pc \in {"count", "page", "answered"}
            /\ Of(g) # None) =>
            {Of(g)} \cup due[g] \subseteq listing[g].ids

\* A page with further pages after it, by the count that was answered with it,
\* is full, and the last page has the rest at least (calculateOffset).
PagesFilled ==
    \A g \in Listers : Listed(g, "answered") =>
        LET l == listing[g]
            size == Cardinality(l.data)
        IN  /\ l.page < TotalPages(l.total) => size = Limit
            /\ l.page = TotalPages(l.total) => (l.page - 1) * Limit + size >= l.total
=============================================================================
