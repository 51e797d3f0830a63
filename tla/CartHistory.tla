----------------------------- MODULE CartHistory -----------------------------
(***************************************************************************)
(* Cart with history variables, each a function of the steps taken, and    *)
(* the properties that relate carts, their lines and their totals.         *)
(***************************************************************************)
EXTENDS Cart

CONSTANT
    Revisited   \* bound: the orders that are served even when raced

VARIABLES
    raced,      \* orders with a line written under another request's reading
    doubled,    \* customers that created a cart twice at once, or had one reopened
    stale,      \* orders that lost a line to a delete when no longer a cart, or
                \* got the total of a cached copy from a rollback
    cut         \* orders a crash left with a line and a total apart

history == <<raced, doubled, stale, cut>>
hvars == <<vars, history>>

\* A request that has read a line and has not written it.
Relying == {"compare"} \cup Writing

\* A line of the order changes while another request stays between its reading
\* of that line and its write.
Overtaken(o) == \E p \in Products :
    /\ {line[d] : d \in LinesOf(o, p)} # {line'[d] : d \in LinesOf(o, p)'}
       \/ LinesOf(o, p) # LinesOf(o, p)'
    /\ \E h \in Handlers :
        /\ req[h].pc \in Relying /\ req'[h].pc \in Relying
        /\ req[h].order = o /\ req[h].product = p

Doubling(u) ==
    \/ \E h, g \in Handlers : /\ h # g
                              /\ req'[h].pc = "create" /\ req'[h].owner = u
                              /\ req'[g].pc = "create" /\ req'[g].owner = u
    \/ \E o \in Orders : /\ owner[o] = u
                         /\ doc[o].status # "CART" /\ doc'[o].status = "CART"

\* A request has written a line of the order and not yet its total.
Counted(o) == \E h \in Handlers : req[h].pc \in Counting /\ req[h].order = o

\* A request that deleted a line of the order ends when the order is no cart.
LateDelete(o) ==
    /\ doc[o].status # "CART"
    /\ \E h \in Handlers : At(h, "uncount") /\ req[h].order = o /\ req'[h] = Idle

\* The total changes and it is not a request on the cart that changes it.
Restored(o) ==
    /\ doc'[o].total # doc[o].total
    /\ ~\E h \in Handlers : /\ req[h].pc \in Counting /\ req[h].order = o
                            /\ req'[h] = Idle

HInit == Init /\ raced = {} /\ doubled = {} /\ stale = {} /\ cut = {}

Record ==
    /\ raced' = raced \cup {o \in Orders : Overtaken(o)}
    /\ doubled' = doubled \cup {u \in Customers : Doubling(u)}
    /\ stale' = stale \cup {o \in Orders : LateDelete(o) \/ Restored(o)}

\* Bound: when requests overlapped on every order only a restart is left.
LeftAlone == raced \ Revisited

HNext ==
    \/ LeftAlone # Orders /\ Serve /\ Record /\ UNCHANGED cut
    \/ /\ Crash /\ Record
       /\ cut' = cut \cup {o \in Orders : Counted(o)}

HSpec == HInit /\ [][HNext]_hvars

-----------------------------------------------------------------------------
(* Safety *)

\* What request h has still to add to the total of o; what line d adds up to
\* in it.
Owed(h, o) == IF req[h].pc \in Counting /\ req[h].order = o
              THEN req[h].change * Price[req[h].product] ELSE 0
Amount(d, o) == IF line[d] # None /\ line[d].order = o
                THEN line[d].quantity * Price[line[d].product] ELSE 0

Pending(o) == SumFunction([h \in Handlers |-> Owed(h, o)])
Listed(o) == SumFunction([d \in Details |-> Amount(d, o)])

\* The total of an order and what is still to be added to it is the amount of
\* its lines (updateOrderDetailByCartAction, deleteOrderDetail), unless a
\* request wrote a line another had read, a line was deleted after the
\* checkout, a rollback put another total back (order.controller.ts:285-295: it
\* restores no line), or a crash came between line and total.
TotalsMatch ==
    \A o \in Orders \ (raced \cup stale \cup cut) :
        owner[o] # None => doc[o].total + Pending(o) = Listed(o)

\* A line never asks for more than the stock the ADD branch compared it with,
\* unless requests overlapped on it.
LinesWithinStock ==
    \A d \in Details : (line[d] # None /\ line[d].order \notin raced)
        => line[d].quantity <= stock[line[d].product]

\* An order has one line for a product (the upsert of the ADD branch), unless
\* requests overlapped on it.
OneLinePerProduct ==
    \A o \in Orders \ raced, p \in Products :
        Cardinality(LinesOf(o, p)) <= 1

\* No line is left without units (the MINUS branch), unless requests
\* overlapped on it.
LinesHaveUnits ==
    \A d \in Details : (line[d] # None /\ line[d].order \notin raced)
        => line[d].quantity >= 1
=============================================================================
