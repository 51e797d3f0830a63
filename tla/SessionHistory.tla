---------------------------- MODULE SessionHistory ----------------------------
(***************************************************************************)
(* Sessions with history variables, and the properties that relate what    *)
(* the clients hold to what the two stores know.                           *)
(***************************************************************************)
EXTENDS Sessions

VARIABLES
    signed,     \* pairs signed in the current second
    twins,      \* pairs signed for two requests
    adrift,     \* clients that lost the answer with their new pair
    overdrawn,  \* pairs with a request to spend them too many for its client
    cut         \* pairs a crash kept from being stored

history == <<signed, twins, adrift, overdrawn, cut>>
hvars == <<vars, history>>

Storing(t) == {h \in Handlers : At(h, "store") /\ req[h].pair = t}
Spending(t) == {h \in Handlers : At(h, "rotate") /\ req[h].spent = t}

\* The clients whose pair is t, but for those whose refresh already spent it.
Holders(t) == {c \in Clients \ adrift : hold[c] = t}

\* A request spends t for a client that is not its holder, or does so twice.
Overdrawn(t) ==
    \/ \E h \in Spending(t) : req[h].client \notin Holders(t)
    \/ \E h, g \in Spending(t) : h # g /\ req[h].client = req[g].client

HInit ==
    /\ Init
    /\ signed = {} /\ twins = {} /\ adrift = {} /\ overdrawn = {} /\ cut = {}

Signs(c) ==
    /\ signed' = signed \cup {Sign(c)}
    /\ twins' = twins \cup (signed \cap {Sign(c)})
    /\ UNCHANGED cut

Start(h, c) ==
    \/ Login(h, c) /\ Signs(c) /\ adrift' = adrift \ {c}
    \/ Refresh(h, c) /\ Signs(c) /\ UNCHANGED adrift

\* hold' = hold: the answer was lost.
Answer(h) ==
    /\ Rotate(h)
    /\ adrift' = IF hold' = hold THEN adrift \cup {req[h].client}
                 ELSE adrift \ {req[h].client}
    /\ UNCHANGED <<signed, twins, cut>>

Other ==
    \/ (\E h \in Handlers : Store(h)) /\ UNCHANGED <<signed, twins, adrift, cut>>
    \/ /\ \E c \in Clients : Logout(c) /\ adrift' = adrift \ {c}
       /\ UNCHANGED <<signed, twins, cut>>
    \/ Tick /\ signed' = {} /\ UNCHANGED <<twins, adrift, cut>>
    \/ /\ Crash /\ cut' = cut \cup {t \in Pair : Storing(t) # {}}
       /\ UNCHANGED <<signed, twins, adrift>>

HNext ==
    /\ \/ \E h \in Handlers : Answer(h) \/ \E c \in Clients : Start(h, c)
       \/ Other
    /\ overdrawn' = overdrawn \cup {t \in Pair : Overdrawn(t)'}

HSpec == HInit /\ [][HNext]_hvars

-----------------------------------------------------------------------------
(* Safety *)

\* For every client that holds a pair there is a stored refresh token, or one
\* about to be, even where clients hold the same pair (createRefreshToken,
\* deleteRefreshToken), unless a crash lost it or there were more requests to
\* refresh the pair than clients entitled to: an answer lost and asked for
\* again, two refreshes of one client, or one that outlived its session.
HoldersCanRefresh ==
    \A t \in Pair \ (overdrawn \cup cut) :
        Cardinality(Holders(t)) <= stored[t] + Cardinality(Storing(t))

\* A client that did not log out is let in until its access token expires
\* (JwtStrategy.validate), unless its pair was signed twice in a second: then
\* another client's logout, or an earlier one of its own, shuts it out too.
HoldersAreAccepted ==
    \A c \in Clients :
        (hold[c] # None /\ hold[c] \notin twins /\ now < hold[c].at + AccessLife)
            => Accepted(hold[c])

\* A logged out access token is never let in again: the entry in Redis outlives
\* the token (logout, RedisCachingService.set).
LoggedOutStaysOut == \A t \in Pair : blocked[t] # 0 => ~Accepted(t)
=============================================================================
