------------------------------- MODULE Sessions -------------------------------
(***************************************************************************)
(* Sessions of auth.service.ts: login, genAccessToken and logout with the  *)
(* guard in front of them.  A token is a function of its payload and of    *)
(* the second it is signed in, so that two logins of an account within a   *)
(* second give the same pair of tokens.  Storing a refresh token is not    *)
(* awaited; logout builds the query that would delete it but never runs    *)
(* it, as Mongoose waits for await, then or exec.                          *)
(***************************************************************************)
EXTENDS Integers, FiniteSets

CONSTANTS
    Clients,        \* browsers and apps, each with the pair it holds
    Accounts,       \* account ids
    User,           \* User[c]: the account client c logs in to
    Handlers,       \* slots for requests in progress
    None,           \* no pair, no client
    AccessLife,     \* JWT_TOKEN_EXPIRE_IN in seconds
    RefreshLife,    \* JWT_REFRESH_TOKEN_EXPIRE_IN in seconds
    MaxTime,        \* bound: the clock stops there
    MaxCopies       \* bound: a token is signed only while fewer copies of it are
                    \* stored or about to be

Times == 0..MaxTime

\* An access token and a refresh token, always signed together.
Pair == [account : Accounts, at : Times]

ASSUME SessionsAssumption ==
    /\ User \in [Clients -> Accounts]
    /\ None \notin Clients \cup Pair
    /\ IsFiniteSet(Clients) /\ IsFiniteSet(Handlers)
    /\ AccessLife \in Nat /\ RefreshLife \in Nat
    /\ MaxTime \in Nat /\ MaxCopies \in Nat

VARIABLES
    now,        \* the clock, in seconds
    hold,       \* hold[c]: the pair client c received last
    stored,     \* stored[t]: how many documents have the refresh token of t
    blocked,    \* blocked[t]: until when Redis has the access token of t
    req         \* req[h]: the request handler h executes

vars == <<now, hold, stored, blocked, req>>

\* "rotate": spent is about to be deleted, "store": pair is about to be stored.
Request(pc, c, pair, spent) ==
    [pc |-> pc, client |-> c, pair |-> pair, spent |-> spent]

Idle == Request("idle", None, None, None)

Requests == {Idle}
    \cup [pc : {"rotate"}, client : Clients, pair : Pair, spent : Pair]
    \cup [pc : {"store"}, client : {None}, pair : Pair, spent : {None}]

\* A token that is not signed yet is nowhere.
NoneEarly == \A t \in Pair : t.at > now =>
    /\ stored[t] = 0 /\ blocked[t] = 0
    /\ \A h \in Handlers : t \notin {req[h].pair, req[h].spent}

\* Types of the state; no token held, stored, logged out or in a request comes
\* from the future, and a client holds tokens of its own account.
TypeOK ==
    /\ now \in Times
    /\ hold \in [Clients -> Pair \cup {None}]
    /\ stored \in [Pair -> Nat]
    /\ blocked \in [Pair -> Nat]
    /\ req \in [Handlers -> Requests]
    /\ \A c \in Clients : hold[c] # None =>
        hold[c].account = User[c] /\ hold[c].at <= now
    /\ NoneEarly

Init ==
    /\ now = 0
    /\ hold = [c \in Clients |-> None]
    /\ stored = [t \in Pair |-> 0]
    /\ blocked = [t \in Pair |-> 0]
    /\ req = [h \in Handlers |-> Idle]

Become(h, request) == req' = [req EXCEPT ![h] = request]
Begin(h, request) == req[h] = Idle /\ Become(h, request)
At(h, step) == req[h].pc = step

\* signJwt.
Sign(c) == [account |-> User[c], at |-> now]

Room(t) ==
    stored[t] + Cardinality({h \in Handlers : req[h].pair = t}) < MaxCopies

\* JwtAuthGuard with JwtStrategy: signed, not expired, and not logged out.
Accepted(t) == now < t.at + AccessLife /\ blocked[t] <= now

-----------------------------------------------------------------------------
(* POST auth/login *)

\* Of the client, not of the server: it logs in when it is not let in.
WantsLogin(c) == IF hold[c] = None THEN TRUE ELSE ~Accepted(hold[c])

Login(h, c) ==
    /\ WantsLogin(c) /\ Room(Sign(c))
    /\ Begin(h, Request("store", None, Sign(c), None))
    /\ hold' = [hold EXCEPT ![c] = Sign(c)]
    /\ UNCHANGED <<now, stored, blocked>>

\* createRefreshToken, not awaited: the client has the pair already.
Store(h) ==
    /\ At(h, "store")
    /\ stored' = [stored EXCEPT ![req[h].pair] = @ + 1]
    /\ Become(h, Idle)
    /\ UNCHANGED <<now, hold, blocked>>

-----------------------------------------------------------------------------
(* POST auth/gen-access -- genAccessToken *)

\* The stored token is found, neither of the pair has expired, and the new pair
\* is signed; otherwise the request is refused.
Refresh(h, c) ==
    LET t == hold[c] IN
    /\ t # None /\ Room(Sign(c))
    /\ Accepted(t) /\ stored[t] > 0 /\ now < t.at + RefreshLife
    /\ Begin(h, Request("rotate", c, Sign(c), t))
    /\ UNCHANGED <<now, hold, stored, blocked>>

\* Variant: every document with the token is deleted.
DeleteMany(t) == stored' = [stored EXCEPT ![t] = 0]

\* Variant: the document is taken to be still there.
DeleteAnyway(t) == stored' = [stored EXCEPT ![t] = @ - 1]

DeleteOne(t) ==
    stored' = [stored EXCEPT ![t] = IF stored[t] > 0 THEN @ - 1 ELSE 0]

\* The old token is deleted and the answer sent; it may be lost.
Rotate(h) ==
    LET r == req[h] IN
    /\ At(h, "rotate")
    /\ DeleteOne(r.spent)
    /\ hold' \in {hold, [hold EXCEPT ![r.client] = r.pair]}
    /\ Become(h, Request("store", None, r.pair, None))
    /\ UNCHANGED <<now, blocked>>

-----------------------------------------------------------------------------
(* POST auth/logout *)

\* Variant: the time to live is a second.
BlockedForOneSecond == now + 1

\* ms() gives milliseconds and Redis takes seconds (EX).
BlockedUntil == now + 1000 * AccessLife

\* Variant: all pairs of the account are logged out.
LogoutAccount(c) ==
    LET t == hold[c] IN
    /\ t # None
    /\ Accepted(t) /\ now < t.at + RefreshLife
    /\ blocked' = [s \in Pair |->
            IF s.account = User[c] THEN BlockedUntil ELSE blocked[s]]
    /\ hold' = [hold EXCEPT ![c] = None]
    /\ UNCHANGED <<now, stored, req>>

\* The access token is logged out; verifyJwt fails on an expired refresh token.
Logout(c) ==
    LET t == hold[c] IN
    /\ t # None
    /\ Accepted(t) /\ now < t.at + RefreshLife
    /\ blocked' = [blocked EXCEPT ![t] = BlockedUntil]
    /\ hold' = [hold EXCEPT ![c] = None]
    /\ UNCHANGED <<now, stored, req>>

-----------------------------------------------------------------------------

Tick ==
    /\ now < MaxTime
    /\ now' = now + 1
    /\ UNCHANGED <<hold, stored, blocked, req>>

\* The process stops and docker restarts it; MongoDB and Redis keep their data.
Crash ==
    /\ \E h \in Handlers : req[h] # Idle
    /\ req' = [h \in Handlers |-> Idle]
    /\ UNCHANGED <<now, hold, stored, blocked>>

Serve ==
    \/ \E h \in Handlers : \/ \E c \in Clients : Login(h, c) \/ Refresh(h, c)
                           \/ Store(h) \/ Rotate(h)
    \/ \E c \in Clients : Logout(c)

Next == Serve \/ Tick \/ Crash

Spec == Init /\ [][Next]_vars
=============================================================================
